------------------------------ MODULE Pipeline ------------------------------
(***************************************************************************)
(* What a pipeline means before and while it runs: the conditions of       *)
(* stages and steps, the order of the stages and the decision to run one   *)
(* (internal/engine/pipeline_semantics.go).                                *)
(*                                                                         *)
(* The functions are pure.  They are checked on inputs that grow token by  *)
(* token and dependency by dependency in the variable probe.               *)
(***************************************************************************)
EXTENDS Naturals, Sequences, FiniteSets

CONSTANTS
    MaxTokens,  \* bound: tokens of a condition
    MaxStages   \* bound: stages of a pipeline

ASSUME PipelineAssumption == MaxTokens \in Nat /\ MaxStages \in Nat

(***************************************************************************)
(* Conditions.  A token stands for what next() cuts from the input; a      *)
(* predicate's name and its parentheses are tokens of their own, and "?"   *)
(* is an invalid character or an unknown identifier.                       *)
(***************************************************************************)
Tokens == {"true", "success", "failure", "!", "&&", "||", "(", ")", "?"}
Predicates == {"success", "failure", "always"}

\* A part of the input was read up to the token before `next`, or was rejected.
Rejected == [ok |-> FALSE, value |-> FALSE, next |-> 1]
Read(value, next) == [ok |-> TRUE, value |-> value, next |-> next]
TokenAt(input, i) == IF i \in DOMAIN input THEN input[i] ELSE "end"

Holds(predicate, state) ==
    predicate = "always" \/ (predicate = "success" /\ state.success)
        \/ (predicate = "failure" /\ state.failure)

\* What follows is read at a place; `later` says what is read at the places after it.
\* A parenthesis, a literal or a predicate called without arguments.
ParsePrimary(input, state, i, later) ==
    LET token == TokenAt(input, i)
    IN  IF token = "("
        THEN LET inner == later[i + 1].or
             IN  IF inner.ok /\ TokenAt(input, inner.next) = ")"
                 THEN Read(inner.value, inner.next + 1) ELSE Rejected
        ELSE IF token \in {"true", "false"}
        THEN Read(token = "true", i + 1)
        ELSE IF token \in Predicates /\ TokenAt(input, i + 1) = "(" /\ TokenAt(input, i + 2) = ")"
        THEN Read(Holds(token, state), i + 3)
        ELSE Rejected

ParseUnary(input, state, i, later) ==
    IF TokenAt(input, i) = "!"
    THEN LET operand == later[i + 1].unary
         IN  IF operand.ok THEN Read(~operand.value, operand.next) ELSE Rejected
    ELSE ParsePrimary(input, state, i, later)

\* The loops of parseAnd and parseOr take one operand more each time.  The operands
\* after the first are read as one here: an error in any of them is an error of all.
ParseAnd(input, state, i, later) ==
    LET left == ParseUnary(input, state, i, later)
    IN  IF left.ok /\ TokenAt(input, left.next) = "&&"
        THEN LET right == later[left.next + 1].and
             IN  IF right.ok THEN Read(left.value /\ right.value, right.next) ELSE Rejected
        ELSE left

ParseOr(input, state, i, later) ==
    LET left == ParseAnd(input, state, i, later)
    IN  IF left.ok /\ TokenAt(input, left.next) = "||"
        THEN LET right == later[left.next + 1].or
             IN  IF right.ok THEN Read(left.value \/ right.value, right.next) ELSE Rejected
        ELSE left

ParseAt(input, state, i, later) ==
    [unary |-> ParseUnary(input, state, i, later),
     and |-> ParseAnd(input, state, i, later),
     or |-> ParseOr(input, state, i, later)]

Parsed(input, state) ==
    LET from[i \in 1..Len(input) + 1] == ParseAt(input, state, i, from) IN from

\* EvaluatePipelineCondition: an empty condition is success(), and nothing may be
\* left after the expression.
Normalized(condition) == IF condition = <<>> THEN <<"success", "(", ")">> ELSE condition

EvaluatePipelineCondition(condition, state) ==
    LET input == Normalized(condition)
        result == Parsed(input, state)[1].or
    IN  IF result.ok /\ result.next = Len(input) + 1 THEN result ELSE Rejected

ValidatePipelineCondition(condition) ==
    EvaluatePipelineCondition(condition, [success |-> TRUE, failure |-> FALSE]).ok

(***************************************************************************)
(* The order of the stages.  dependsOn[i] is a sequence of stage numbers;  *)
(* 0 is a name no stage has.  Names and identifiers are distinct.          *)
(***************************************************************************)
Repeats(seq) == \E i, j \in DOMAIN seq : i < j /\ seq[i] = seq[j]
Dependencies(dependsOn, stage) == {dependsOn[stage][i] : i \in DOMAIN dependsOn[stage]}

\* The first stage in source order whose dependencies are all placed, or 0.
NextStage(dependsOn, done) ==
    LET ready == {s \in DOMAIN dependsOn : s \notin done /\ Dependencies(dependsOn, s) \subseteq done}
    IN  IF ready = {} THEN 0 ELSE CHOOSE s \in ready : \A t \in ready : s <= t

PlaceNext(dependsOn, placed) ==
    LET next == NextStage(dependsOn, {placed[i] : i \in DOMAIN placed})
    IN  IF next = 0 THEN placed ELSE Append(placed, next)

\* One stage is placed at a time; once none is ready none will be.
Placed(dependsOn) ==
    LET after[k \in 0..Len(dependsOn)] == IF k = 0 THEN <<>> ELSE PlaceNext(dependsOn, after[k - 1])
    IN  after

\* An unknown or repeated dependency is an error as well as a cycle, <<>> here.
OrderPipelineStages(dependsOn) ==
    LET placed == Placed(dependsOn)[Len(dependsOn)]
    IN  IF \/ \E s \in DOMAIN dependsOn : 0 \in Dependencies(dependsOn, s) \/ Repeats(dependsOn[s])
           \/ Len(placed) < Len(dependsOn)
        THEN <<>> ELSE placed

(***************************************************************************)
(* ShouldRunStage: skipped dependencies take away success only.            *)
(***************************************************************************)
DependencyState(dependencies, statuses) ==
    [success |-> \A d \in dependencies : statuses[d] = "success",
     failure |-> \E d \in dependencies : statuses[d] = "failed"]

ShouldRunStage(condition, dependencies, statuses) ==
    EvaluatePipelineCondition(condition, DependencyState(dependencies, statuses)).value

-----------------------------------------------------------------------------
(***************************************************************************)
(* The inputs.                                                             *)
(***************************************************************************)
VARIABLE probe

pipelineVars == <<probe>>

PipelineInit == probe = [condition |-> <<>>, dependsOn |-> <<>>]

AddToken ==
    /\ probe.dependsOn = <<>>
    /\ Len(probe.condition) < MaxTokens
    /\ \E token \in Tokens : probe' = [probe EXCEPT !.condition = Append(@, token)]

AddStage ==
    /\ probe.condition = <<>>
    /\ Len(probe.dependsOn) < MaxStages
    /\ \E first, second \in 0..MaxStages :
          probe' = [probe EXCEPT !.dependsOn =
              Append(@, IF first = 0 /\ second = 0 THEN <<>>
                        ELSE IF first = 0 THEN <<second>> ELSE <<first, second>>)]

PipelineNext == AddToken \/ AddStage

-----------------------------------------------------------------------------
(***************************************************************************)
(* Properties                                                              *)
(***************************************************************************)
\* The grammar as a reference: the values the `length` tokens from `i` on have by
\* splitting them in every possible way; `shorter` has the values of shorter parts.
UnaryValues(s, state, length, i, shorter) ==
    (IF length = 1 /\ s[i] \in {"true", "false"} THEN {s[i] = "true"} ELSE {})
    \cup (IF length = 3 /\ s[i] \in Predicates /\ s[i + 1] = "(" /\ s[i + 2] = ")"
          THEN {Holds(s[i], state)} ELSE {})
    \cup (IF length > 1 /\ s[i] = "!" THEN {~v : v \in shorter[length - 1][i + 1].unary} ELSE {})
    \cup (IF length > 1 /\ s[i] = "(" /\ s[i + length - 1] = ")"
          THEN shorter[length - 2][i + 1].or ELSE {})

\* The lengths of what may stand on the left of an operator.
Splits(s, length, i, operator) == {d \in 0 .. length - 1 : s[i + d] = operator}

Both(left, right) == UNION {{a /\ b : b \in right} : a \in left}
Either(left, right) == UNION {{a \/ b : b \in right} : a \in left}

AndValues(s, state, length, i, shorter) ==
    UnaryValues(s, state, length, i, shorter) \cup
    UNION {Both(shorter[d][i].and, shorter[length - d - 1][i + d + 1].unary) : d \in Splits(s, length, i, "&&")}

OrValues(s, state, length, i, shorter) ==
    AndValues(s, state, length, i, shorter) \cup
    UNION {Either(shorter[d][i].or, shorter[length - d - 1][i + d + 1].and) : d \in Splits(s, length, i, "||")}

ValuesAt(s, state, length, shorter) ==
    [i \in 1 .. Len(s) + 1 - length |->
        [unary |-> UnaryValues(s, state, length, i, shorter),
         and |-> AndValues(s, state, length, i, shorter),
         or |-> OrValues(s, state, length, i, shorter)]]

GrammarValues(s, state) ==
    LET of[length \in 0..Len(s)] == ValuesAt(s, state, length, of) IN of

\* The hand-written parser accepts exactly the grammar and gives every expression
\* its one value, in every state; a condition that was accepted when the pipeline
\* was saved can therefore not fail while a build runs.
ConditionsParse ==
    probe.condition = <<>> \/
    \A success, failure \in BOOLEAN :
        LET state == [success |-> success, failure |-> failure]
            result == EvaluatePipelineCondition(probe.condition, state)
        IN  /\ GrammarValues(probe.condition, state)[Len(probe.condition)][1].or =
                   (IF result.ok THEN {result.value} ELSE {})
            /\ ValidatePipelineCondition(probe.condition) = result.ok

\* A dependency graph is accepted exactly when every stage can reach the front,
\* that is when it names known stages and has no cycle; the order respects it and
\* is the earliest one in source order.
StagesAreOrdered ==
    LET deps == probe.dependsOn
        order == OrderPipelineStages(deps)
        wellFormed == \A s \in DOMAIN deps :
                          /\ ~Repeats(deps[s])
                          /\ Dependencies(deps, s) \subseteq DOMAIN deps
        orders == {o \in [DOMAIN deps -> DOMAIN deps] :
                      /\ \A i, j \in DOMAIN deps : o[i] = o[j] => i = j
                      /\ \A i \in DOMAIN deps :
                            Dependencies(deps, o[i]) \subseteq {o[j] : j \in 1..(i - 1)}}
        Precedes(p, q) == \E i \in DOMAIN deps : p[i] < q[i] /\ \A j \in 1..(i - 1) : p[j] = q[j]
    IN  deps = <<>> \/
        IF ~wellFormed \/ orders = {} THEN order = <<>>
        ELSE order \in orders /\ \A o \in orders \ {order} : Precedes(order, o)
=============================================================================
