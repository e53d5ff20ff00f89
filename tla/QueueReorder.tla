---------------------------- MODULE QueueReorder ----------------------------
(***************************************************************************)
(* Reordering the build queue: the priorities of build_queue_items, the    *)
(* four operations of the queue page, and the order in which the           *)
(* dispatcher then offers the pending builds.                              *)
(***************************************************************************)
EXTENDS Naturals, Integers, Sequences, FiniteSets, SequencesExt

CONSTANTS
    MaxQueued,   \* bound: builds, named by their row identifiers 1..MaxQueued
    MaxMoves     \* bound: reorder requests

ASSUME QueueAssumption == {MaxQueued, MaxMoves} \subseteq Nat

Operations == {"move_up", "move_down", "move_top", "move_bottom"}

VARIABLES
    state,     \* builds.status
    item,      \* the queue item of a build, NoItem before it is inserted
    inserted,  \* queue items inserted so far, which numbers them
    moves,
    decided    \* history: the movable builds as the last reorder left them

queueVars == <<state, item, inserted, moves, decided>>

Queued == 1..MaxQueued
NoItem == [status |-> "none", priority |-> 0, id |-> 0]

QueueInit ==
    /\ state = [b \in Queued |-> "absent"]
    /\ item = [b \in Queued |-> NoItem]
    /\ inserted = 0
    /\ moves = 0
    /\ decided = <<>>

(***************************************************************************)
(* The orders.                                                             *)
(***************************************************************************)
\* ListPendingBuilds: ORDER BY COALESCE(priority, 0) DESC, builds.id ASC.
DispatchedBefore(a, b) ==
    item[a].priority > item[b].priority \/ (item[a].priority = item[b].priority /\ a < b)

\* The movable items: ORDER BY priority DESC, queued_at ASC, id ASC; queued_at never
\* decreases from one item to the next.
QueuedBefore(a, b) ==
    item[a].priority > item[b].priority \/ (item[a].priority = item[b].priority /\ item[a].id < item[b].id)

Movable == {b \in Queued : state[b] = "pending" /\ item[b].status = "queued"}
Ahead(b) == {a \in Movable : QueuedBefore(a, b)}
MovableOrder == [i \in 1..Cardinality(Movable) |-> CHOOSE b \in Movable : Cardinality(Ahead(b)) = i - 1]

\* The strategies, on positions that count from 0.
Resolve(operation, current, total) ==
    CASE operation = "move_up" -> current - 1
      [] operation = "move_down" -> current + 1
      [] operation = "move_top" -> 0
      [] operation = "move_bottom" -> total - 1

Clamp(target, total) == IF target < 0 THEN 0 ELSE IF target >= total THEN total - 1 ELSE target

\* Mutant of Moved: the item and the one at its place are exchanged.
MovedBySwap(order, current, target) ==
    [order EXCEPT ![current + 1] = order[target + 1], ![target + 1] = order[current + 1]]

Moved(order, current, target) == InsertAt(RemoveAt(order, current + 1), target + 1, order[current + 1])

Place(order, b) == CHOOSE i \in DOMAIN order : order[i] = b

\* The order an operation leaves.
Arranged(b, operation) ==
    LET order == MovableOrder
        current == Place(order, b) - 1
        target == Clamp(Resolve(operation, current, Len(order)), Len(order))
    IN  IF target = current THEN order ELSE Moved(order, current, target)

\* Positive, gap-free priorities are written even when nothing moves.
Priority(new, b) == Len(new) + 1 - Place(new, b)

(***************************************************************************)
(* Actions                                                                 *)
(***************************************************************************)
InsertRow(b) ==
    /\ state[b] = "absent"
    /\ \A a \in 1..(b - 1) : state[a] # "absent"
    /\ state' = [state EXCEPT ![b] = "pending"]
    /\ UNCHANGED <<item, inserted, moves, decided>>

\* CreateBuildQueueItem ignores a build that has an item; several callers race for it.
CreateBuildQueueItem(b) ==
    /\ state[b] # "absent"
    /\ item[b].status = "none"
    /\ inserted' = inserted + 1
    /\ item' = [item EXCEPT ![b] = [status |-> "queued", priority |-> 0, id |-> inserted + 1]]
    /\ UNCHANGED <<state, moves, decided>>

\* A build is held, and its item follows in a statement of its own.
HoldQueued(b) ==
    /\ \/ state[b] = "pending" /\ state' = [state EXCEPT ![b] = "pending_approval"] /\ UNCHANGED item
       \/ state[b] = "pending_approval" /\ item[b].status = "queued"
          /\ item' = [item EXCEPT ![b].status = "pending_approval"] /\ UNCHANGED state
    /\ UNCHANGED <<inserted, moves, decided>>

ReleaseQueued(b) ==
    /\ state[b] = "pending_approval"
    /\ state' = [state EXCEPT ![b] = "pending"]
    /\ item' = IF item[b].status = "none" THEN item ELSE [item EXCEPT ![b].status = "queued"]
    /\ UNCHANGED <<inserted, moves, decided>>

StartQueued(b) ==
    /\ state[b] = "pending"
    /\ item[b].status = "queued"
    /\ state' = [state EXCEPT ![b] = "running"]
    /\ item' = [item EXCEPT ![b].status = "running"]
    /\ UNCHANGED <<inserted, moves, decided>>

\* A crash sends the build back with the priority it had; else it ends.
EndQueued(b) ==
    /\ state[b] = "running"
    /\ \/ state' = [state EXCEPT ![b] = "done"] /\ item' = [item EXCEPT ![b].status = "done"]
       \/ state' = [state EXCEPT ![b] = "pending"] /\ item' = [item EXCEPT ![b].status = "queued"]
    /\ UNCHANGED <<inserted, moves, decided>>

\* ReorderQueuedBuildQueueItem, one transaction; the caller wakes the dispatcher.
ReorderQueuedBuildQueueItem(b, operation) ==
    /\ moves < MaxMoves
    /\ b \in Movable
    /\ LET new == Arranged(b, operation)
       IN  /\ item' = [a \in Queued |->
                IF a \in Movable THEN [item[a] EXCEPT !.priority = Priority(new, a)] ELSE item[a]]
           /\ decided' = new
    /\ moves' = moves + 1
    /\ UNCHANGED <<state, inserted>>

QueueNext ==
    \E b \in Queued :
        \/ InsertRow(b) \/ CreateBuildQueueItem(b) \/ HoldQueued(b) \/ ReleaseQueued(b)
        \/ StartQueued(b) \/ EndQueued(b)
        \/ \E operation \in Operations : ReorderQueuedBuildQueueItem(b, operation)

QueueSpec == QueueInit /\ [][QueueNext]_queueVars

(***************************************************************************)
(* Properties                                                              *)
(***************************************************************************)
Waiting == {b \in Queued : state[b] = "pending"}

\* What a reorder decided is what the dispatcher does, although it breaks ties another
\* way: of two builds that waited at the last reorder, the one it put first is offered
\* first whenever both wait, also after a crash sent one back.
ReorderIsObeyed ==
    \A i, j \in DOMAIN decided :
        i < j /\ {decided[i], decided[j]} \subseteq Waiting => DispatchedBefore(decided[i], decided[j])

\* A build that was queued after a reorder is offered after everything it arranged, even
\* if its row is older.
NewcomersGoLast ==
    \A a \in Range(decided) \cap Waiting, b \in Waiting :
        b \notin Range(decided) /\ item[b].priority = 0 => DispatchedBefore(a, b)

\* A reorder moves one build and keeps the others in their order.
OthersKeepTheirOrder ==
    [][moves' # moves =>
           /\ Range(decided') = Movable
           /\ \E b \in Queued : \A i, j \in DOMAIN decided' :
                 i < j /\ b \notin {decided'[i], decided'[j]} => QueuedBefore(decided'[i], decided'[j])]_queueVars

\* The queue runs as the last reorder arranged it, and a reorder changes the place of
\* one build only.
QueueRunsAsArranged ==
    /\ []ReorderIsObeyed
    /\ []NewcomersGoLast
    /\ OthersKeepTheirOrder
=============================================================================
