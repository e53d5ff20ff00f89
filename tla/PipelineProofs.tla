--------------------------- MODULE PipelineProofs ---------------------------
(***************************************************************************)
(* Proofs about what a pipeline means: conditions of any length, graphs of *)
(* any number of stages, and the three stage loops over any steps and      *)
(* conditions.                                                             *)
(***************************************************************************)
EXTENDS StageExecution, FiniteSetTheorems, SequenceTheorems, WellFoundedInduction, TLAPS

-----------------------------------------------------------------------------
\* Least elements, and induction as a statement about sets.
LEMMA LeastNatural ==
  ASSUME NEW S \in SUBSET Nat, S # {}
  PROVE  \E m \in S : \A n \in S : m <= n
<1>1. \A n, m \in Nat : n < m => <<n, m>> \in OpToRel(<, Nat)
  <2> TAKE n, m \in Nat
  <2> HAVE n < m
  <2>1. <<n, m>> \in Nat \X Nat /\ <<n, m>>[1] < <<n, m>>[2]
    OBVIOUS
  <2> QED BY <2>1, Zenon DEF OpToRel
<1>2. PICK m \in S : \A n \in S : <<n, m>> \notin OpToRel(<, Nat)
  BY NatLessThanWellFounded, WFMin
<1>3. \A n \in S : ~(n < m)
  BY <1>1, <1>2, Zenon
<1>4. \A a, b \in Nat : ~(a < b) => b <= a
  OBVIOUS
<1> QED BY <1>2, <1>3, <1>4, Zenon

LEMMA Upwards ==
  ASSUME NEW S, \A n \in Nat : (\A m \in 0 .. n - 1 : m \in S) => n \in S
  PROVE  \A n \in Nat : n \in S
<1>1. SUFFICES ASSUME Nat \ S # {} PROVE FALSE
  OBVIOUS
<1>2. PICK m \in Nat \ S : \A n \in Nat \ S : m <= n
  BY <1>1, LeastNatural
<1>3. \A k \in 0 .. m - 1 : k \in S
  BY <1>2
<1> QED BY <1>2, <1>3

LEMMA Downwards ==
  ASSUME NEW n \in Nat, NEW S,
         \A i \in 1..n : (\A j \in i + 1 .. n : j \in S) => i \in S
  PROVE  \A i \in 1..n : i \in S
<1> DEFINE T == {k \in Nat : k < n => n - k \in S}
<1>1. ASSUME NEW k \in Nat, \A m \in 0 .. k - 1 : m \in T PROVE k \in T
  <2>1. SUFFICES ASSUME k < n PROVE n - k \in S
    OBVIOUS
  <2>2. ASSUME NEW j \in n - k + 1 .. n PROVE j \in S
    <3>1. n - j \in 0 .. k - 1 /\ n - j < n /\ n - (n - j) = j
      BY <2>1
    <3>2. n - j \in T
      BY <1>1, <3>1
    <3> QED BY <3>1, <3>2
  <2>3. n - k \in 1..n
    BY <2>1
  <2> QED BY <2>2, <2>3
<1> HIDE DEF T
<1>2. \A k \in Nat : k \in T
  BY <1>1, Upwards
<1>3. ASSUME NEW i \in 1..n PROVE i \in S
  <2>1. n - i \in Nat /\ n - i < n /\ n - (n - i) = i
    OBVIOUS
  <2> QED BY <1>2, <2>1 DEF T
<1> QED BY <1>3

-----------------------------------------------------------------------------
(***************************************************************************)
(* Conditions.                                                             *)
(***************************************************************************)
States == [success : BOOLEAN, failure : BOOLEAN]

\* What may be read at a place: something that ends after it, or nothing.
IsResult(r, s, i) == r.ok \in BOOLEAN /\ r.value \in BOOLEAN /\ (r.ok => r.next \in i + 1 .. Len(s) + 1)
AreResults(later, s, i) ==
    \A k \in i .. Len(s) + 1 :
        IsResult(later[k].unary, s, k) /\ IsResult(later[k].and, s, k) /\ IsResult(later[k].or, s, k)

LEMMA TokenIs ==
  ASSUME NEW T, NEW s \in Seq(T), NEW i
  PROVE  TokenAt(s, i) # "end" => i \in 1..Len(s) /\ TokenAt(s, i) = s[i]
BY DEF TokenAt

LEMMA ReadIs == \A v, m : Read(v, m).ok = TRUE /\ Read(v, m).value = v /\ Read(v, m).next = m
BY DEF Read

LEMMA RejectedIs == Rejected.ok = FALSE /\ Rejected.value = FALSE
BY DEF Rejected

LEMMA ReadIsResult ==
  ASSUME NEW s, NEW i, NEW v \in BOOLEAN, NEW m \in i + 1 .. Len(s) + 1
  PROVE  IsResult(Read(v, m), s, i)
BY ReadIs, Zenon DEF IsResult

LEMMA PrimaryIsResult ==
  ASSUME NEW T, NEW s \in Seq(T), NEW state \in States, NEW i \in 1..Len(s) + 1, NEW later,
         AreResults(later, s, i + 1)
  PROVE  IsResult(ParsePrimary(s, state, i, later), s, i)
<1>1. Len(s) \in Nat
  OBVIOUS
<1>2. CASE TokenAt(s, i) = "("
  <2>1. i \in 1..Len(s) /\ i + 1 \in i + 1 .. Len(s) + 1
    BY <1>1, <1>2, TokenIs
  <2>2. IsResult(later[i + 1].or, s, i + 1)
    BY <2>1 DEF AreResults
  <2>3. CASE later[i + 1].or.ok /\ TokenAt(s, later[i + 1].or.next) = ")"
    <3>1. ParsePrimary(s, state, i, later) = Read(later[i + 1].or.value, later[i + 1].or.next + 1)
      BY <1>2, <2>3, Zenon DEF ParsePrimary
    <3>2. later[i + 1].or.next \in 1..Len(s)
      BY <2>3, TokenIs
    <3>3. later[i + 1].or.next \in i + 2 .. Len(s) + 1 /\ later[i + 1].or.value \in BOOLEAN
      BY <2>2, <2>3 DEF IsResult
    <3>4. later[i + 1].or.next + 1 \in i + 1 .. Len(s) + 1
      BY <1>1, <3>2, <3>3
    <3> QED BY <3>1, <3>3, <3>4, ReadIsResult, Zenon
  <2>4. CASE ~(later[i + 1].or.ok /\ TokenAt(s, later[i + 1].or.next) = ")")
    <3>1. ParsePrimary(s, state, i, later) = Rejected
      BY <1>2, <2>4, Zenon DEF ParsePrimary
    <3> QED BY <3>1, RejectedIs DEF IsResult
  <2> QED BY <2>3, <2>4
<1>3. CASE TokenAt(s, i) # "(" /\ TokenAt(s, i) \in {"true", "false"}
  <2>1. ParsePrimary(s, state, i, later) = Read(TokenAt(s, i) = "true", i + 1)
    BY <1>3, Zenon DEF ParsePrimary
  <2>2. i + 1 \in i + 1 .. Len(s) + 1
    BY <1>1, <1>3, TokenIs
  <2> QED BY <2>1, <2>2, ReadIsResult, Zenon
<1>4. CASE TokenAt(s, i) # "(" /\ TokenAt(s, i) \notin {"true", "false"}
  <2>1. CASE TokenAt(s, i) \in Predicates /\ TokenAt(s, i + 1) = "(" /\ TokenAt(s, i + 2) = ")"
    <3>1. ParsePrimary(s, state, i, later) = Read(Holds(TokenAt(s, i), state), i + 3)
      BY <1>4, <2>1, Zenon DEF ParsePrimary
    <3>2. i + 3 \in i + 1 .. Len(s) + 1
      BY <1>1, <2>1, TokenIs
    <3>3. Holds(TokenAt(s, i), state) \in BOOLEAN
      BY Zenon DEF Holds
    <3> QED BY <3>1, <3>2, <3>3, ReadIsResult, Zenon
  <2>2. CASE ~(TokenAt(s, i) \in Predicates /\ TokenAt(s, i + 1) = "(" /\ TokenAt(s, i + 2) = ")")
    <3>1. ParsePrimary(s, state, i, later) = Rejected
      BY <1>4, <2>2, Zenon DEF ParsePrimary
    <3> QED BY <3>1, RejectedIs DEF IsResult
  <2> QED BY <2>1, <2>2
<1> QED BY <1>2, <1>3, <1>4

LEMMA UnaryIsResult ==
  ASSUME NEW T, NEW s \in Seq(T), NEW state \in States, NEW i \in 1..Len(s) + 1, NEW later,
         AreResults(later, s, i + 1)
  PROVE  IsResult(ParseUnary(s, state, i, later), s, i)
<1>1. CASE TokenAt(s, i) = "!"
  <2>1. i \in 1..Len(s) /\ i + 1 \in i + 1 .. Len(s) + 1
    BY <1>1, TokenIs
  <2>2. IsResult(later[i + 1].unary, s, i + 1)
    BY <2>1 DEF AreResults
  <2>3. CASE later[i + 1].unary.ok
    <3>1. ParseUnary(s, state, i, later) = Read(~later[i + 1].unary.value, later[i + 1].unary.next)
      BY <1>1, <2>3, Zenon DEF ParseUnary
    <3>2. later[i + 1].unary.next \in i + 1 .. Len(s) + 1
      BY <2>1, <2>2, <2>3 DEF IsResult
    <3> QED BY <3>1, <3>2, ReadIsResult, Zenon
  <2>4. CASE ~later[i + 1].unary.ok
    <3>1. ParseUnary(s, state, i, later) = Rejected
      BY <1>1, <2>4, Zenon DEF ParseUnary
    <3> QED BY <3>1, RejectedIs DEF IsResult
  <2> QED BY <2>3, <2>4
<1>2. CASE TokenAt(s, i) # "!"
  <2>1. ParseUnary(s, state, i, later) = ParsePrimary(s, state, i, later)
    BY <1>2, Zenon DEF ParseUnary
  <2> QED BY <2>1, PrimaryIsResult
<1> QED BY <1>1, <1>2

LEMMA AndIsResult ==
  ASSUME NEW T, NEW s \in Seq(T), NEW state \in States, NEW i \in 1..Len(s) + 1, NEW later,
         AreResults(later, s, i + 1)
  PROVE  IsResult(ParseAnd(s, state, i, later), s, i)
<1>1. PICK left : left = ParseUnary(s, state, i, later)
  OBVIOUS
<1>2. IsResult(left, s, i)
  BY <1>1, UnaryIsResult
<1>3. CASE left.ok /\ TokenAt(s, left.next) = "&&"
  <2>1. left.next \in 1..Len(s) /\ left.next \in i + 1 .. Len(s) + 1
    BY <1>2, <1>3, TokenIs DEF IsResult
  <2>2. left.next + 1 \in i + 1 .. Len(s) + 1
    BY <2>1
  <2>3. IsResult(later[left.next + 1].and, s, left.next + 1)
    BY <2>2 DEF AreResults
  <2>4. CASE later[left.next + 1].and.ok
    <3>1. ParseAnd(s, state, i, later)
            = Read(left.value /\ later[left.next + 1].and.value, later[left.next + 1].and.next)
      BY <1>1, <1>3, <2>4, Zenon DEF ParseAnd
    <3>2. later[left.next + 1].and.next \in i + 1 .. Len(s) + 1
      BY <2>1, <2>2, <2>3, <2>4 DEF IsResult
    <3> QED BY <3>1, <3>2, ReadIsResult, Zenon
  <2>5. CASE ~later[left.next + 1].and.ok
    <3>1. ParseAnd(s, state, i, later) = Rejected
      BY <1>1, <1>3, <2>5, Zenon DEF ParseAnd
    <3> QED BY <3>1, RejectedIs DEF IsResult
  <2> QED BY <2>4, <2>5
<1>4. CASE ~(left.ok /\ TokenAt(s, left.next) = "&&")
  <2>1. ParseAnd(s, state, i, later) = left
    BY <1>1, <1>4, Zenon DEF ParseAnd
  <2> QED BY <1>2, <2>1
<1> QED BY <1>3, <1>4

LEMMA OrIsResult ==
  ASSUME NEW T, NEW s \in Seq(T), NEW state \in States, NEW i \in 1..Len(s) + 1, NEW later,
         AreResults(later, s, i + 1)
  PROVE  IsResult(ParseOr(s, state, i, later), s, i)
<1>1. PICK left : left = ParseAnd(s, state, i, later)
  OBVIOUS
<1>2. IsResult(left, s, i)
  BY <1>1, AndIsResult
<1>3. CASE left.ok /\ TokenAt(s, left.next) = "||"
  <2>1. left.next \in 1..Len(s) /\ left.next \in i + 1 .. Len(s) + 1
    BY <1>2, <1>3, TokenIs DEF IsResult
  <2>2. left.next + 1 \in i + 1 .. Len(s) + 1
    BY <2>1
  <2>3. IsResult(later[left.next + 1].or, s, left.next + 1)
    BY <2>2 DEF AreResults
  <2>4. CASE later[left.next + 1].or.ok
    <3>1. ParseOr(s, state, i, later)
            = Read(left.value \/ later[left.next + 1].or.value, later[left.next + 1].or.next)
      BY <1>1, <1>3, <2>4, Zenon DEF ParseOr
    <3>2. later[left.next + 1].or.next \in i + 1 .. Len(s) + 1
      BY <2>1, <2>2, <2>3, <2>4 DEF IsResult
    <3> QED BY <3>1, <3>2, ReadIsResult, Zenon
  <2>5. CASE ~later[left.next + 1].or.ok
    <3>1. ParseOr(s, state, i, later) = Rejected
      BY <1>1, <1>3, <2>5, Zenon DEF ParseOr
    <3> QED BY <3>1, RejectedIs DEF IsResult
  <2> QED BY <2>4, <2>5
<1>4. CASE ~(left.ok /\ TokenAt(s, left.next) = "||")
  <2>1. ParseOr(s, state, i, later) = left
    BY <1>1, <1>4, Zenon DEF ParseOr
  <2> QED BY <1>2, <2>1
<1> QED BY <1>3, <1>4

\* What is read at a place depends on what is read at the places after it alone.
LEMMA ParseAtAgrees ==
  ASSUME NEW T, NEW s \in Seq(T), NEW state \in States, NEW i \in 1..Len(s) + 1, NEW g, NEW h,
         AreResults(g, s, i + 1), \A k \in i + 1 .. Len(s) + 1 : g[k] = h[k]
  PROVE  ParseAt(s, state, i, g) = ParseAt(s, state, i, h)
<1>1. TokenAt(s, i) = "(" \/ TokenAt(s, i) = "!" => g[i + 1] = h[i + 1]
  <2>1. SUFFICES ASSUME TokenAt(s, i) = "(" \/ TokenAt(s, i) = "!" PROVE g[i + 1] = h[i + 1]
    OBVIOUS
  <2>2. i + 1 \in i + 1 .. Len(s) + 1
    BY <2>1, TokenIs
  <2> QED BY <2>2, Zenon
<1>2. ParsePrimary(s, state, i, g) = ParsePrimary(s, state, i, h)
  <2>1. CASE TokenAt(s, i) = "("
    <3>1. PICK inner : inner = g[i + 1].or /\ inner = h[i + 1].or
      BY <1>1, <2>1, Zenon
    <3>2. PICK r : r = IF inner.ok /\ TokenAt(s, inner.next) = ")"
                       THEN Read(inner.value, inner.next + 1) ELSE Rejected
      OBVIOUS
    <3>3. \A f : inner = f[i + 1].or => ParsePrimary(s, state, i, f) = r
      BY <2>1, <3>2, Zenon DEF ParsePrimary
    <3> QED BY <3>1, <3>3, Zenon
  <2>2. CASE TokenAt(s, i) # "("
    BY <2>2, Zenon DEF ParsePrimary
  <2> QED BY <2>1, <2>2
<1>3. ParseUnary(s, state, i, g) = ParseUnary(s, state, i, h)
  <2>1. CASE TokenAt(s, i) = "!"
    BY <1>1, <2>1, Zenon DEF ParseUnary
  <2>2. CASE TokenAt(s, i) # "!"
    BY <1>2, <2>2, Zenon DEF ParseUnary
  <2> QED BY <2>1, <2>2
<1>4. ASSUME NEW left, IsResult(left, s, i), left.ok, NEW token, token # "end", TokenAt(s, left.next) = token
      PROVE  g[left.next + 1] = h[left.next + 1]
  <2>1. left.next \in 1..Len(s) /\ left.next \in i + 1 .. Len(s) + 1
    BY <1>4, TokenIs DEF IsResult
  <2>2. left.next + 1 \in i + 1 .. Len(s) + 1
    BY <2>1
  <2> QED BY <2>2, Zenon
<1>5. ParseAnd(s, state, i, g) = ParseAnd(s, state, i, h)
  <2>1. PICK left : left = ParseUnary(s, state, i, g) /\ left = ParseUnary(s, state, i, h)
    BY <1>3
  <2>2. IsResult(left, s, i)
    BY <2>1, UnaryIsResult
  <2>3. CASE left.ok /\ TokenAt(s, left.next) = "&&"
    <3>1. g[left.next + 1] = h[left.next + 1]
      BY <1>4, <2>2, <2>3
    <3> QED BY <2>1, <2>3, <3>1, Zenon DEF ParseAnd
  <2>4. CASE ~(left.ok /\ TokenAt(s, left.next) = "&&")
    BY <2>1, <2>4, Zenon DEF ParseAnd
  <2> QED BY <2>3, <2>4
<1>6. ParseOr(s, state, i, g) = ParseOr(s, state, i, h)
  <2>1. PICK left : left = ParseAnd(s, state, i, g) /\ left = ParseAnd(s, state, i, h)
    BY <1>5
  <2>2. IsResult(left, s, i)
    BY <2>1, AndIsResult
  <2>3. CASE left.ok /\ TokenAt(s, left.next) = "||"
    <3>1. g[left.next + 1] = h[left.next + 1]
      BY <1>4, <2>2, <2>3
    <3> QED BY <2>1, <2>3, <3>1, Zenon DEF ParseOr
  <2>4. CASE ~(left.ok /\ TokenAt(s, left.next) = "||")
    BY <2>1, <2>4, Zenon DEF ParseOr
  <2> QED BY <2>3, <2>4
<1> QED BY <1>3, <1>5, <1>6, Zenon DEF ParseAt

LEMMA ParseAtIsResult ==
  ASSUME NEW T, NEW s \in Seq(T), NEW state \in States, NEW i \in 1..Len(s) + 1, NEW later,
         AreResults(later, s, i + 1)
  PROVE  /\ IsResult(ParseAt(s, state, i, later).unary, s, i)
         /\ IsResult(ParseAt(s, state, i, later).and, s, i)
         /\ IsResult(ParseAt(s, state, i, later).or, s, i)
BY UnaryIsResult, AndIsResult, OrIsResult DEF ParseAt

\* So there is a parser: a function that is at each place what it makes of its own
\* results at the places after it.
LEMMA ParsedIs ==
  ASSUME NEW T, NEW s \in Seq(T), NEW state \in States
  PROVE  /\ \A i \in 1..Len(s) + 1 : Parsed(s, state)[i] = ParseAt(s, state, i, Parsed(s, state))
         /\ AreResults(Parsed(s, state), s, 1)
<1> DEFINE n == Len(s) + 1
           Good(m, g) == g = [i \in m..n |-> ParseAt(s, state, i, g)] /\ AreResults(g, s, m)
           S == {m \in 1..n : \E g : Good(m, g)}
<1>1. n \in Nat /\ Len(s) \in Nat
  OBVIOUS
<1>2. ASSUME NEW i \in 1..n, \A j \in i + 1 .. n : j \in S PROVE i \in S
  <2>1. PICK g : AreResults(g, s, i + 1) /\ (i # n => Good(i + 1, g)) /\ (i = n => g = <<>>)
    <3>1. CASE i = n
      <4>1. AreResults(<<>>, s, i + 1)
        BY <1>1, <3>1 DEF AreResults
      <4> QED BY <3>1, <4>1
    <3>2. CASE i # n
      <4>1. i + 1 \in i + 1 .. n
        BY <1>1, <3>2
      <4> QED BY <1>2, <3>2, <4>1
    <3> QED BY <3>1, <3>2
  <2>2. PICK h : h = [k \in i..n |-> IF k = i THEN ParseAt(s, state, i, g) ELSE g[k]]
    OBVIOUS
  <2>3. \A k \in i + 1 .. n : k \in i..n /\ k # i
    BY <1>1
  <2>4. \A k \in i + 1 .. n : g[k] = h[k]
    BY <2>2, <2>3, Zenon
  <2>5. \A k \in i..n : \A l \in k + 1 .. n : l \in i + 1 .. n
    BY <1>1
  <2>6. ASSUME NEW k \in i..n PROVE h[k] = ParseAt(s, state, k, h)
    <3>1. k \in 1..n /\ AreResults(g, s, k + 1) /\ \A l \in k + 1 .. n : g[l] = h[l]
      BY <1>1, <2>1, <2>4, <2>5 DEF AreResults
    <3>2. ParseAt(s, state, k, g) = ParseAt(s, state, k, h)
      BY <3>1, ParseAtAgrees
    <3>3. CASE k = i
      BY <2>2, <3>2, <3>3, Zenon
    <3>4. CASE k # i
      <4>1. k \in i + 1 .. n /\ i # n
        BY <1>1, <3>4
      <4>2. g[k] = ParseAt(s, state, k, g)
        BY <2>1, <4>1, Zenon
      <4> QED BY <2>4, <3>2, <4>1, <4>2, Zenon
    <3> QED BY <3>3, <3>4
  <2>7. h = [k \in i..n |-> ParseAt(s, state, k, h)]
    <3>1. h = [k \in i..n |-> h[k]]
      BY <2>2, Zenon
    <3> QED BY <2>6, <3>1, Zenon
  <2>8. AreResults(h, s, i)
    <3> SUFFICES ASSUME NEW k \in i..n
                 PROVE  IsResult(h[k].unary, s, k) /\ IsResult(h[k].and, s, k) /\ IsResult(h[k].or, s, k)
      BY DEF AreResults
    <3>1. k \in 1..n /\ AreResults(g, s, k + 1)
      BY <1>1, <2>1, <2>5 DEF AreResults
    <3>2. AreResults(h, s, k + 1)
      BY <2>4, <2>5, <3>1, Zenon DEF AreResults
    <3> QED BY <2>6, <3>1, <3>2, ParseAtIsResult
  <2> QED BY <2>7, <2>8
<1> HIDE DEF S
<1>3. \A i \in 1..n : i \in S
  BY <1>1, <1>2, Downwards
<1>4. PICK g : Good(1, g)
  <2>1. 1 \in 1..n
    BY <1>1
  <2> QED BY <1>3, <2>1 DEF S
<1>5. Parsed(s, state) = CHOOSE h : h = [i \in 1..n |-> ParseAt(s, state, i, h)]
  BY Zenon DEF Parsed
<1>6. Parsed(s, state) = [i \in 1..n |-> ParseAt(s, state, i, Parsed(s, state))]
  BY <1>4, <1>5, Zenon
<1> DEFINE p == Parsed(s, state)
<1> HIDE DEF p
<1>7. p = [i \in 1..n |-> ParseAt(s, state, i, p)]
  BY <1>6, Zenon DEF p
<1>8. \A i \in 1..n : p[i] = ParseAt(s, state, i, p)
  BY <1>7, Zenon
<1> DEFINE R == {i \in 1..n : IsResult(p[i].unary, s, i) /\ IsResult(p[i].and, s, i) /\ IsResult(p[i].or, s, i)}
<1>9. ASSUME NEW i \in 1..n, \A j \in i + 1 .. n : j \in R PROVE i \in R
  <2>1. AreResults(p, s, i + 1)
    BY <1>9 DEF AreResults
  <2> QED BY <1>8, <2>1, ParseAtIsResult
<1>10. \A i \in 1..n : i \in R
  <2> HIDE DEF R
  <2> QED BY <1>1, <1>9, Downwards
<1>11. AreResults(p, s, 1)
  BY <1>10 DEF AreResults
<1> QED BY <1>8, <1>11, Zenon DEF p

-----------------------------------------------------------------------------
(***************************************************************************)
(* The grammar, and that there is a function that has the values of a part *)
(* from the values of the shorter ones.                                    *)
(***************************************************************************)
UnaryIs(s, state, length, i, shorter, v) ==
    \/ length = 1 /\ s[i] \in {"true", "false"} /\ v = (s[i] = "true")
    \/ length = 3 /\ s[i] \in Predicates /\ s[i + 1] = "(" /\ s[i + 2] = ")" /\ v = Holds(s[i], state)
    \/ length > 1 /\ s[i] = "!" /\ \E w \in shorter[length - 1][i + 1].unary : v = ~w
    \/ length > 1 /\ s[i] = "(" /\ s[i + length - 1] = ")" /\ v \in shorter[length - 2][i + 1].or

LEMMA UnaryValuesAre ==
  ASSUME NEW s, NEW state, NEW length, NEW i, NEW shorter
  PROVE  \A v : v \in UnaryValues(s, state, length, i, shorter) <=> UnaryIs(s, state, length, i, shorter, v)
<1> TAKE v
<1>1. v \in (IF length = 1 /\ s[i] \in {"true", "false"} THEN {s[i] = "true"} ELSE {}) <=>
          length = 1 /\ s[i] \in {"true", "false"} /\ v = (s[i] = "true")
  BY Zenon
<1>2. v \in (IF length = 3 /\ s[i] \in Predicates /\ s[i + 1] = "(" /\ s[i + 2] = ")"
             THEN {Holds(s[i], state)} ELSE {}) <=>
          length = 3 /\ s[i] \in Predicates /\ s[i + 1] = "(" /\ s[i + 2] = ")" /\ v = Holds(s[i], state)
  BY Zenon
<1>3. v \in (IF length > 1 /\ s[i] = "!" THEN {~w : w \in shorter[length - 1][i + 1].unary} ELSE {}) <=>
          length > 1 /\ s[i] = "!" /\ \E w \in shorter[length - 1][i + 1].unary : v = ~w
  BY Zenon
<1>4. v \in (IF length > 1 /\ s[i] = "(" /\ s[i + length - 1] = ")"
             THEN shorter[length - 2][i + 1].or ELSE {}) <=>
          length > 1 /\ s[i] = "(" /\ s[i + length - 1] = ")" /\ v \in shorter[length - 2][i + 1].or
  BY Zenon
<1> QED BY <1>1, <1>2, <1>3, <1>4, Zenon DEF UnaryValues, UnaryIs

\* The operators of conditions, closed.
Conj(a, b) == a /\ b
Disj(a, b) == a \/ b

LEMMA AndValuesAre ==
  ASSUME NEW s, NEW state, NEW length, NEW i, NEW shorter
  PROVE  \A v : v \in AndValues(s, state, length, i, shorter) <=>
             \/ v \in UnaryValues(s, state, length, i, shorter)
             \/ \E d \in Splits(s, length, i, "&&") :
                \E a \in shorter[d][i].and, b \in shorter[length - d - 1][i + d + 1].unary : v = Conj(a, b)
<1>1. ASSUME NEW x, NEW y, NEW w
      PROVE  w \in Both(x, y) <=> \E a \in x, b \in y : w = Conj(a, b)
  <2>1. Both(x, y) = UNION {{Conj(a, b) : b \in y} : a \in x}
    BY DEF Both, Conj
  <2>2. ASSUME w \in Both(x, y) PROVE \E a \in x, b \in y : w = Conj(a, b)
    <3>1. PICK z \in {{Conj(a, b) : b \in y} : a \in x} : w \in z
      BY <2>1, <2>2
    <3>2. PICK a \in x : z = {Conj(a, b) : b \in y}
      BY <3>1, Zenon
    <3> QED BY <3>1, <3>2, Zenon
  <2>3. ASSUME NEW a \in x, NEW b \in y, w = Conj(a, b) PROVE w \in Both(x, y)
    <3>1. {Conj(a, c) : c \in y} \in {{Conj(e, c) : c \in y} : e \in x}
      BY Zenon
    <3>2. w \in {Conj(a, c) : c \in y}
      BY <2>3, Zenon
    <3> QED BY <2>1, <3>1, <3>2, Zenon
  <2> QED BY <2>2, <2>3, Zenon
<1> QED BY <1>1 DEF AndValues

LEMMA OrValuesAre ==
  ASSUME NEW s, NEW state, NEW length, NEW i, NEW shorter
  PROVE  \A v : v \in OrValues(s, state, length, i, shorter) <=>
             \/ v \in AndValues(s, state, length, i, shorter)
             \/ \E d \in Splits(s, length, i, "||") :
                \E a \in shorter[d][i].or, b \in shorter[length - d - 1][i + d + 1].and : v = Disj(a, b)
<1>1. ASSUME NEW x, NEW y, NEW w
      PROVE  w \in Either(x, y) <=> \E a \in x, b \in y : w = Disj(a, b)
  <2>1. Either(x, y) = UNION {{Disj(a, b) : b \in y} : a \in x}
    BY DEF Either, Disj
  <2>2. ASSUME w \in Either(x, y) PROVE \E a \in x, b \in y : w = Disj(a, b)
    <3>1. PICK z \in {{Disj(a, b) : b \in y} : a \in x} : w \in z
      BY <2>1, <2>2
    <3>2. PICK a \in x : z = {Disj(a, b) : b \in y}
      BY <3>1, Zenon
    <3> QED BY <3>1, <3>2, Zenon
  <2>3. ASSUME NEW a \in x, NEW b \in y, w = Disj(a, b) PROVE w \in Either(x, y)
    <3>1. {Disj(a, c) : c \in y} \in {{Disj(e, c) : c \in y} : e \in x}
      BY Zenon
    <3>2. w \in {Disj(a, c) : c \in y}
      BY <2>3, Zenon
    <3> QED BY <2>1, <3>1, <3>2, Zenon
  <2> QED BY <2>2, <2>3, Zenon
<1> QED BY <1>1 DEF OrValues

LEMMA ValuesAtAgrees ==
  ASSUME NEW s, NEW state, NEW length \in Nat, NEW g, NEW h, \A d \in 0 .. length - 1 : g[d] = h[d]
  PROVE  ValuesAt(s, state, length, g) = ValuesAt(s, state, length, h)
<1>1. length > 1 => g[length - 1] = h[length - 1] /\ g[length - 2] = h[length - 2]
  <2>1. SUFFICES ASSUME length > 1 PROVE g[length - 1] = h[length - 1] /\ g[length - 2] = h[length - 2]
    OBVIOUS
  <2>2. length - 1 \in 0 .. length - 1 /\ length - 2 \in 0 .. length - 1
    BY <2>1
  <2> QED BY <2>2, Zenon
<1>2. \A i, operator : \A d \in Splits(s, length, i, operator) :
          g[d] = h[d] /\ g[length - d - 1] = h[length - d - 1]
  <2> TAKE i, operator
  <2> TAKE d \in Splits(s, length, i, operator)
  <2>1. d \in 0 .. length - 1 /\ length - d - 1 \in 0 .. length - 1
    BY DEF Splits
  <2> QED BY <2>1, Zenon
<1>3. ASSUME NEW i PROVE UnaryValues(s, state, length, i, g) = UnaryValues(s, state, length, i, h)
  <2>1. (IF length > 1 /\ s[i] = "!" THEN {~v : v \in g[length - 1][i + 1].unary} ELSE {})
         = (IF length > 1 /\ s[i] = "!" THEN {~v : v \in h[length - 1][i + 1].unary} ELSE {})
    BY <1>1, Zenon
  <2>2. (IF length > 1 /\ s[i] = "(" /\ s[i + length - 1] = ")" THEN g[length - 2][i + 1].or ELSE {})
         = (IF length > 1 /\ s[i] = "(" /\ s[i + length - 1] = ")" THEN h[length - 2][i + 1].or ELSE {})
    BY <1>1, Zenon
  <2> QED BY <2>1, <2>2, Zenon DEF UnaryValues
<1> DEFINE Agree(f, k) == \A i, operator : \A d \in Splits(s, length, i, operator) :
                              f[d] = k[d] /\ f[length - d - 1] = k[length - d - 1]
<1>4. Agree(g, h) /\ Agree(h, g)
  BY <1>2, Zenon
<1>5. ASSUME NEW i, NEW f, NEW k, Agree(f, k), NEW v \in AndValues(s, state, length, i, f),
             UnaryValues(s, state, length, i, f) = UnaryValues(s, state, length, i, k)
      PROVE  v \in AndValues(s, state, length, i, k)
  <2>1. CASE v \in UnaryValues(s, state, length, i, f)
    BY <1>5, <2>1, AndValuesAre, Zenon
  <2>2. CASE v \notin UnaryValues(s, state, length, i, f)
    <3>0. v \in AndValues(s, state, length, i, f)
      BY <1>5
    <3>1. PICK d \in Splits(s, length, i, "&&") :
              \E a \in f[d][i].and, b \in f[length - d - 1][i + d + 1].unary : v = Conj(a, b)
      BY <2>2, <3>0, AndValuesAre
    <3>2. \E a \in k[d][i].and, b \in k[length - d - 1][i + d + 1].unary : v = Conj(a, b)
      BY <1>5, <3>1, Zenon
    <3> QED BY <3>2, AndValuesAre, Zenon
  <2> QED BY <2>1, <2>2
<1>6. ASSUME NEW i PROVE AndValues(s, state, length, i, g) = AndValues(s, state, length, i, h)
  <2>1. \A v : v \in AndValues(s, state, length, i, g) <=> v \in AndValues(s, state, length, i, h)
    BY <1>3, <1>4, <1>5, Zenon
  <2> QED BY <2>1
<1>7. ASSUME NEW i, NEW f, NEW k, Agree(f, k), NEW v \in OrValues(s, state, length, i, f),
             AndValues(s, state, length, i, f) = AndValues(s, state, length, i, k)
      PROVE  v \in OrValues(s, state, length, i, k)
  <2>1. CASE v \in AndValues(s, state, length, i, f)
    BY <1>7, <2>1, OrValuesAre, Zenon
  <2>2. CASE v \notin AndValues(s, state, length, i, f)
    <3>0. v \in OrValues(s, state, length, i, f)
      BY <1>7
    <3>1. PICK d \in Splits(s, length, i, "||") :
              \E a \in f[d][i].or, b \in f[length - d - 1][i + d + 1].and : v = Disj(a, b)
      BY <2>2, <3>0, OrValuesAre
    <3>2. \E a \in k[d][i].or, b \in k[length - d - 1][i + d + 1].and : v = Disj(a, b)
      BY <1>7, <3>1, Zenon
    <3> QED BY <3>2, OrValuesAre, Zenon
  <2> QED BY <2>1, <2>2
<1>8. ASSUME NEW i PROVE OrValues(s, state, length, i, g) = OrValues(s, state, length, i, h)
  <2>1. \A v : v \in OrValues(s, state, length, i, g) <=> v \in OrValues(s, state, length, i, h)
    BY <1>4, <1>6, <1>7, Zenon
  <2> QED BY <2>1
<1> QED BY <1>3, <1>6, <1>8, Zenon DEF ValuesAt

LEMMA ValuesAre ==
  ASSUME NEW s, NEW state, Len(s) \in Nat
  PROVE  \A length \in 0..Len(s) : GrammarValues(s, state)[length] = ValuesAt(s, state, length, GrammarValues(s, state))
<1> DEFINE n == Len(s)
           S == {m \in Nat : \E g : g = [k \in 0..m |-> ValuesAt(s, state, k, g)]}
<1>1. ASSUME NEW m \in Nat, \A k \in 0 .. m - 1 : k \in S PROVE m \in S
  <2>1. PICK g : m # 0 => g = [k \in 0 .. m - 1 |-> ValuesAt(s, state, k, g)]
    <3>1. CASE m = 0
      BY <3>1
    <3>2. CASE m # 0
      <4>1. m - 1 \in 0 .. m - 1
        BY <3>2
      <4> QED BY <1>1, <4>1
    <3> QED BY <3>1, <3>2
  <2>2. PICK h : h = [k \in 0..m |-> IF k = m THEN ValuesAt(s, state, m, g) ELSE g[k]]
    OBVIOUS
  <2>3. \A k \in 0 .. m - 1 : k \in 0..m /\ k # m
    OBVIOUS
  <2>4. \A k \in 0 .. m - 1 : g[k] = h[k]
    BY <2>2, <2>3, Zenon
  <2>5. ASSUME NEW k \in 0..m PROVE h[k] = ValuesAt(s, state, k, h)
    <3>1. k \in Nat /\ \A d \in 0 .. k - 1 : d \in 0 .. m - 1
      OBVIOUS
    <3>2. \A d \in 0 .. k - 1 : g[d] = h[d]
      BY <2>4, <3>1
    <3>3. ValuesAt(s, state, k, g) = ValuesAt(s, state, k, h)
      BY <3>1, <3>2, ValuesAtAgrees
    <3>4. CASE k = m
      BY <2>2, <3>3, <3>4, Zenon
    <3>5. CASE k # m
      <4>1. k \in 0 .. m - 1 /\ m # 0
        BY <3>5
      <4>2. g[k] = ValuesAt(s, state, k, g)
        BY <2>1, <4>1, Zenon
      <4> QED BY <2>4, <3>3, <4>1, <4>2, Zenon
    <3> QED BY <3>4, <3>5
  <2>6. h = [k \in 0..m |-> h[k]]
    BY <2>2, Zenon
  <2>7. h = [k \in 0..m |-> ValuesAt(s, state, k, h)]
    BY <2>5, <2>6, Zenon
  <2> QED BY <2>7
<1> HIDE DEF S
<1>2. n \in S
  BY <1>1, Upwards
<1>3. PICK g : g = [k \in 0..n |-> ValuesAt(s, state, k, g)]
  BY <1>2 DEF S
<1>4. GrammarValues(s, state) = [k \in 0..n |-> ValuesAt(s, state, k, GrammarValues(s, state))]
  BY <1>3, Zenon DEF GrammarValues
<1> DEFINE p == GrammarValues(s, state)
<1> HIDE DEF p
<1>5. p = [k \in 0..n |-> ValuesAt(s, state, k, p)]
  BY <1>4, Zenon DEF p
<1>6. \A k \in 0..n : p[k] = ValuesAt(s, state, k, p)
  BY <1>5, Zenon
<1> QED BY <1>6 DEF p

-----------------------------------------------------------------------------
(***************************************************************************)
(* What the parser reads, as rules: the part from place i to before place  *)
(* k has the value v.                                                      *)
(***************************************************************************)
Neg(a) == ~a

Gives(r, v, k) == r.ok /\ r.value = v /\ r.next = k
IsUnary(s, state, i, v, k) == Gives(Parsed(s, state)[i].unary, v, k)
IsAnd(s, state, i, v, k) == Gives(Parsed(s, state)[i].and, v, k)
IsOr(s, state, i, v, k) == Gives(Parsed(s, state)[i].or, v, k)

LEMMA GivesOne == \A r, v, w, k, l : Gives(r, v, k) /\ Gives(r, w, l) => v = w /\ k = l
BY Zenon DEF Gives

LEMMA ReadGives == \A a, m, v, k : Gives(Read(a, m), v, k) <=> v = a /\ k = m
BY ReadIs, Zenon DEF Gives

LEMMA RejectedGives == \A v, k : ~Gives(Rejected, v, k)
BY RejectedIs, Zenon DEF Gives

LEMMA PartsAre ==
  ASSUME NEW T, NEW s \in Seq(T), NEW state \in States, NEW i \in 1..Len(s) + 1
  PROVE  /\ Parsed(s, state)[i].unary = ParseUnary(s, state, i, Parsed(s, state))
         /\ Parsed(s, state)[i].and = ParseAnd(s, state, i, Parsed(s, state))
         /\ Parsed(s, state)[i].or = ParseOr(s, state, i, Parsed(s, state))
<1>1. Parsed(s, state)[i] = ParseAt(s, state, i, Parsed(s, state))
  BY ParsedIs
<1> QED BY <1>1 DEF ParseAt

LEMMA PartsEnd ==
  ASSUME NEW T, NEW s \in Seq(T), NEW state \in States, NEW i \in 1..Len(s) + 1, NEW v, NEW k
  PROVE  /\ IsUnary(s, state, i, v, k) => k \in i + 1 .. Len(s) + 1
         /\ IsAnd(s, state, i, v, k) => k \in i + 1 .. Len(s) + 1
         /\ IsOr(s, state, i, v, k) => k \in i + 1 .. Len(s) + 1
<1>1. /\ IsResult(Parsed(s, state)[i].unary, s, i)
      /\ IsResult(Parsed(s, state)[i].and, s, i)
      /\ IsResult(Parsed(s, state)[i].or, s, i)
  BY ParsedIs DEF AreResults
<1> QED BY <1>1, Zenon DEF IsResult, IsUnary, IsAnd, IsOr, Gives

ReadsUnary(s, state, i, v, k) ==
    \/ TokenAt(s, i) \in {"true", "false"} /\ v = (TokenAt(s, i) = "true") /\ k = i + 1
    \/ /\ TokenAt(s, i) \in Predicates /\ TokenAt(s, i + 1) = "(" /\ TokenAt(s, i + 2) = ")"
       /\ v = Holds(TokenAt(s, i), state) /\ k = i + 3
    \/ TokenAt(s, i) = "!" /\ \E a : IsUnary(s, state, i + 1, a, k) /\ v = Neg(a)
    \/ TokenAt(s, i) = "(" /\ \E m : IsOr(s, state, i + 1, v, m) /\ TokenAt(s, m) = ")" /\ k = m + 1

LEMMA UnaryRule ==
  ASSUME NEW T, NEW s \in Seq(T), NEW state \in States, NEW i \in 1..Len(s) + 1, NEW v, NEW k
  PROVE  IsUnary(s, state, i, v, k) <=> ReadsUnary(s, state, i, v, k)
<1> DEFINE t == TokenAt(s, i)
           p == Parsed(s, state)
           Call == TokenAt(s, i + 1) = "(" /\ TokenAt(s, i + 2) = ")"
<1>1. p[i].unary = ParseUnary(s, state, i, p)
  BY PartsAre, Zenon
<1> HIDE DEF p
<1>2. CASE t = "!"
  <2>1. PICK o : o = p[i + 1].unary
    OBVIOUS
  <2>2. p[i].unary = IF o.ok THEN Read(Neg(o.value), o.next) ELSE Rejected
    BY <1>1, <1>2, <2>1, Zenon DEF ParseUnary, Neg
  <2>3. Gives(p[i].unary, v, k) <=> \E a : Gives(o, a, k) /\ v = Neg(a)
    <3>1. CASE o.ok
      <4>1. p[i].unary = Read(Neg(o.value), o.next)
        BY <2>2, <3>1, Zenon
      <4>2. \A a, m : Gives(o, a, m) <=> a = o.value /\ m = o.next
        BY <3>1, Zenon DEF Gives
      <4> QED BY <4>1, <4>2, ReadGives
    <3>2. CASE ~o.ok
      <4>1. p[i].unary = Rejected
        BY <2>2, <3>2, Zenon
      <4> QED BY <3>2, <4>1, RejectedGives, Zenon DEF Gives
    <3> QED BY <3>1, <3>2
  <2>4. t \notin {"true", "false"} /\ t \notin Predicates /\ t # "("
    BY <1>2 DEF Predicates
  <2> HIDE DEF t
  <2> QED BY <1>2, <2>1, <2>3, <2>4, Zenon DEF IsUnary, ReadsUnary, p, t
<1>3. CASE t = "("
  <2>1. PICK o : o = p[i + 1].or
    OBVIOUS
  <2>2. p[i].unary = IF o.ok /\ TokenAt(s, o.next) = ")" THEN Read(o.value, o.next + 1) ELSE Rejected
    <3>1. t # "!"
      BY <1>3
    <3> QED BY <1>1, <1>3, <2>1, <3>1, Zenon DEF ParseUnary, ParsePrimary
  <2>3. Gives(p[i].unary, v, k) <=> \E m : Gives(o, v, m) /\ TokenAt(s, m) = ")" /\ k = m + 1
    <3>1. CASE o.ok /\ TokenAt(s, o.next) = ")"
      <4>1. p[i].unary = Read(o.value, o.next + 1)
        BY <2>2, <3>1, Zenon
      <4>2. \A a, m : Gives(o, a, m) <=> a = o.value /\ m = o.next
        BY <3>1, Zenon DEF Gives
      <4> QED BY <3>1, <4>1, <4>2, ReadGives
    <3>2. CASE ~(o.ok /\ TokenAt(s, o.next) = ")")
      <4>1. p[i].unary = Rejected
        BY <2>2, <3>2, Zenon
      <4> QED BY <3>2, <4>1, RejectedGives, Zenon DEF Gives
    <3> QED BY <3>1, <3>2
  <2>4. t \notin {"true", "false"} /\ t \notin Predicates /\ t # "!"
    BY <1>3 DEF Predicates
  <2> HIDE DEF t
  <2> QED BY <1>3, <2>1, <2>3, <2>4, Zenon DEF IsUnary, IsOr, ReadsUnary, p, t
<1>4. CASE t \in {"true", "false"}
  <2>1. t \notin Predicates /\ t # "!" /\ t # "("
    BY <1>4 DEF Predicates
  <2>2. p[i].unary = Read(t = "true", i + 1)
    BY <1>1, <1>4, <2>1, Zenon DEF ParseUnary, ParsePrimary
  <2>3. Gives(p[i].unary, v, k) <=> v = (t = "true") /\ k = i + 1
    <3>1. PICK a : a = (t = "true")
      OBVIOUS
    <3>2. p[i].unary = Read(a, i + 1)
      BY <2>2, <3>1, Zenon
    <3>3. Gives(p[i].unary, v, k) <=> v = a /\ k = i + 1
      BY <3>2, ReadGives
    <3>4. v = a <=> v = (t = "true")
      BY <3>1, Zenon
    <3> HIDE DEF t
    <3> QED BY <3>3, <3>4, Zenon
  <2> HIDE DEF t
  <2> QED BY <1>4, <2>1, <2>3, Zenon DEF IsUnary, ReadsUnary, p, t
<1>5. CASE t \in Predicates
  <2>1. t \notin {"true", "false"} /\ t # "!" /\ t # "("
    BY <1>5 DEF Predicates
  <2>2. p[i].unary = IF Call THEN Read(Holds(t, state), i + 3) ELSE Rejected
    BY <1>1, <1>5, <2>1, Zenon DEF ParseUnary, ParsePrimary
  <2>3. Gives(p[i].unary, v, k) <=> Call /\ v = Holds(t, state) /\ k = i + 3
    <3>1. CASE Call
      <4>1. p[i].unary = Read(Holds(t, state), i + 3)
        BY <2>2, <3>1, Zenon
      <4> QED BY <3>1, <4>1, ReadGives
    <3>2. CASE ~Call
      BY <2>2, <3>2, RejectedGives, Zenon
    <3> QED BY <3>1, <3>2
  <2> HIDE DEF t
  <2> QED BY <1>5, <2>1, <2>3, Zenon DEF IsUnary, ReadsUnary, p, t
<1>6. CASE t \notin {"true", "false"} /\ t \notin Predicates /\ t # "!" /\ t # "("
  <2>1. p[i].unary = Rejected
    BY <1>1, <1>6, Zenon DEF ParseUnary, ParsePrimary
  <2> QED BY <1>6, <2>1, RejectedGives, Zenon DEF IsUnary, ReadsUnary, p
<1> HIDE DEF t
<1> QED BY <1>2, <1>3, <1>4, <1>5, <1>6, Zenon

LEMMA AndRule ==
  ASSUME NEW T, NEW s \in Seq(T), NEW state \in States, NEW i \in 1..Len(s) + 1, NEW v, NEW k
  PROVE  IsAnd(s, state, i, v, k) <=>
           \/ IsUnary(s, state, i, v, k) /\ TokenAt(s, k) # "&&"
           \/ \E a, b, m : /\ IsUnary(s, state, i, a, m) /\ TokenAt(s, m) = "&&"
                           /\ IsAnd(s, state, m + 1, b, k) /\ v = Conj(a, b)
<1> DEFINE p == Parsed(s, state)
<1>1. p[i].unary = ParseUnary(s, state, i, p) /\ p[i].and = ParseAnd(s, state, i, p)
  BY PartsAre, Zenon
<1> HIDE DEF p
<1>2. PICK left : left = p[i].unary
  OBVIOUS
<1>3. PICK right : right = p[left.next + 1].and
  OBVIOUS
<1>4. Gives(p[i].and, v, k) <=>
        \/ Gives(left, v, k) /\ TokenAt(s, k) # "&&"
        \/ \E a, b, m : /\ Gives(left, a, m) /\ TokenAt(s, m) = "&&"
                        /\ Gives(p[m + 1].and, b, k) /\ v = Conj(a, b)
  <2>1. CASE left.ok /\ TokenAt(s, left.next) = "&&"
    <3>1. p[i].and = IF right.ok THEN Read(Conj(left.value, right.value), right.next) ELSE Rejected
      BY <1>1, <1>2, <1>3, <2>1, Zenon DEF ParseAnd, Conj
    <3>2. Gives(p[i].and, v, k) <=> \E b : Gives(right, b, k) /\ v = Conj(left.value, b)
      <4>1. CASE right.ok
        <5>1. p[i].and = Read(Conj(left.value, right.value), right.next)
          BY <3>1, <4>1, Zenon
        <5>2. \A b, m : Gives(right, b, m) <=> b = right.value /\ m = right.next
          BY <4>1, Zenon DEF Gives
        <5> QED BY <5>1, <5>2, ReadGives
      <4>2. CASE ~right.ok
        <5>1. p[i].and = Rejected
          BY <3>1, <4>2, Zenon
        <5> QED BY <4>2, <5>1, RejectedGives, Zenon DEF Gives
      <4> QED BY <4>1, <4>2
    <3>3. \A a, m : Gives(left, a, m) <=> a = left.value /\ m = left.next
      BY <2>1, Zenon DEF Gives
    <3> QED BY <1>3, <2>1, <3>2, <3>3, Zenon
  <2>2. CASE ~(left.ok /\ TokenAt(s, left.next) = "&&")
    <3>1. p[i].and = left
      BY <1>1, <1>2, <2>2, Zenon DEF ParseAnd
    <3>2. \A a, m : Gives(left, a, m) => TokenAt(s, m) # "&&"
      BY <2>2, Zenon DEF Gives
    <3> QED BY <3>1, <3>2, Zenon
  <2> QED BY <2>1, <2>2
<1> QED BY <1>2, <1>4, Zenon DEF IsUnary, IsAnd, p

LEMMA OrRule ==
  ASSUME NEW T, NEW s \in Seq(T), NEW state \in States, NEW i \in 1..Len(s) + 1, NEW v, NEW k
  PROVE  IsOr(s, state, i, v, k) <=>
           \/ IsAnd(s, state, i, v, k) /\ TokenAt(s, k) # "||"
           \/ \E a, b, m : /\ IsAnd(s, state, i, a, m) /\ TokenAt(s, m) = "||"
                           /\ IsOr(s, state, m + 1, b, k) /\ v = Disj(a, b)
<1> DEFINE p == Parsed(s, state)
<1>1. p[i].and = ParseAnd(s, state, i, p) /\ p[i].or = ParseOr(s, state, i, p)
  BY PartsAre, Zenon
<1> HIDE DEF p
<1>2. PICK left : left = p[i].and
  OBVIOUS
<1>3. PICK right : right = p[left.next + 1].or
  OBVIOUS
<1>4. Gives(p[i].or, v, k) <=>
        \/ Gives(left, v, k) /\ TokenAt(s, k) # "||"
        \/ \E a, b, m : /\ Gives(left, a, m) /\ TokenAt(s, m) = "||"
                        /\ Gives(p[m + 1].or, b, k) /\ v = Disj(a, b)
  <2>1. CASE left.ok /\ TokenAt(s, left.next) = "||"
    <3>1. p[i].or = IF right.ok THEN Read(Disj(left.value, right.value), right.next) ELSE Rejected
      BY <1>1, <1>2, <1>3, <2>1, Zenon DEF ParseOr, Disj
    <3>2. Gives(p[i].or, v, k) <=> \E b : Gives(right, b, k) /\ v = Disj(left.value, b)
      <4>1. CASE right.ok
        <5>1. p[i].or = Read(Disj(left.value, right.value), right.next)
          BY <3>1, <4>1, Zenon
        <5>2. \A b, m : Gives(right, b, m) <=> b = right.value /\ m = right.next
          BY <4>1, Zenon DEF Gives
        <5> QED BY <5>1, <5>2, ReadGives
      <4>2. CASE ~right.ok
        <5>1. p[i].or = Rejected
          BY <3>1, <4>2, Zenon
        <5> QED BY <4>2, <5>1, RejectedGives, Zenon DEF Gives
      <4> QED BY <4>1, <4>2
    <3>3. \A a, m : Gives(left, a, m) <=> a = left.value /\ m = left.next
      BY <2>1, Zenon DEF Gives
    <3> QED BY <1>3, <2>1, <3>2, <3>3, Zenon
  <2>2. CASE ~(left.ok /\ TokenAt(s, left.next) = "||")
    <3>1. p[i].or = left
      BY <1>1, <1>2, <2>2, Zenon DEF ParseOr
    <3>2. \A a, m : Gives(left, a, m) => TokenAt(s, m) # "||"
      BY <2>2, Zenon DEF Gives
    <3> QED BY <3>1, <3>2, Zenon
  <2> QED BY <2>1, <2>2
<1> QED BY <1>2, <1>4, Zenon DEF IsAnd, IsOr, p

-----------------------------------------------------------------------------
(***************************************************************************)
(* What the grammar says, as rules: v is a value of the d tokens from      *)
(* place i on.                                                             *)
(***************************************************************************)
HasUnary(s, state, d, i, v) == v \in GrammarValues(s, state)[d][i].unary
HasAnd(s, state, d, i, v) == v \in GrammarValues(s, state)[d][i].and
HasOr(s, state, d, i, v) == v \in GrammarValues(s, state)[d][i].or

LEMMA PartValuesAre ==
  ASSUME NEW T, NEW s \in Seq(T), NEW state \in States, NEW d \in 0..Len(s), NEW i \in 1 .. Len(s) + 1 - d
  PROVE  /\ GrammarValues(s, state)[d][i].unary = UnaryValues(s, state, d, i, GrammarValues(s, state))
         /\ GrammarValues(s, state)[d][i].and = AndValues(s, state, d, i, GrammarValues(s, state))
         /\ GrammarValues(s, state)[d][i].or = OrValues(s, state, d, i, GrammarValues(s, state))
<1>1. GrammarValues(s, state)[d] = ValuesAt(s, state, d, GrammarValues(s, state))
  BY ValuesAre
<1> QED BY <1>1 DEF ValuesAt

LEMMA HasUnaryRule ==
  ASSUME NEW T, NEW s \in Seq(T), NEW state \in States, NEW d \in 0..Len(s), NEW i \in 1 .. Len(s) + 1 - d, NEW v
  PROVE  HasUnary(s, state, d, i, v) <=>
           \/ d = 1 /\ TokenAt(s, i) \in {"true", "false"} /\ v = (TokenAt(s, i) = "true")
           \/ /\ d = 3 /\ TokenAt(s, i) \in Predicates /\ TokenAt(s, i + 1) = "(" /\ TokenAt(s, i + 2) = ")"
              /\ v = Holds(TokenAt(s, i), state)
           \/ d > 1 /\ TokenAt(s, i) = "!" /\ \E w : HasUnary(s, state, d - 1, i + 1, w) /\ v = Neg(w)
           \/ d > 1 /\ TokenAt(s, i) = "(" /\ TokenAt(s, i + d - 1) = ")" /\ HasOr(s, state, d - 2, i + 1, v)
<1>1. v \in UnaryValues(s, state, d, i, GrammarValues(s, state)) <=>
             \/ d = 1 /\ s[i] \in {"true", "false"} /\ v = (s[i] = "true")
             \/ d = 3 /\ s[i] \in Predicates /\ s[i + 1] = "(" /\ s[i + 2] = ")" /\ v = Holds(s[i], state)
             \/ d > 1 /\ s[i] = "!" /\ \E w \in GrammarValues(s, state)[d - 1][i + 1].unary : v = ~w
             \/ d > 1 /\ s[i] = "(" /\ s[i + d - 1] = ")" /\ v \in GrammarValues(s, state)[d - 2][i + 1].or
  <2>1. v \in UnaryValues(s, state, d, i, GrammarValues(s, state)) <=> UnaryIs(s, state, d, i, GrammarValues(s, state), v)
    BY UnaryValuesAre
  <2> QED BY <2>1, Zenon DEF UnaryIs
<1>2. HasUnary(s, state, d, i, v) <=> v \in UnaryValues(s, state, d, i, GrammarValues(s, state))
  BY PartValuesAre, Zenon DEF HasUnary
<1>3. d >= 1 => TokenAt(s, i) = s[i] /\ TokenAt(s, i + d - 1) = s[i + d - 1]
  BY DEF TokenAt
<1>4. d = 3 => TokenAt(s, i + 1) = s[i + 1] /\ TokenAt(s, i + 2) = s[i + 2]
  BY DEF TokenAt
<1>5. (\E w \in GrammarValues(s, state)[d - 1][i + 1].unary : v = ~w)
        <=> \E w : HasUnary(s, state, d - 1, i + 1, w) /\ v = Neg(w)
  BY DEF HasUnary, Neg
<1>6. v \in GrammarValues(s, state)[d - 2][i + 1].or <=> HasOr(s, state, d - 2, i + 1, v)
  BY Zenon DEF HasOr
<1>7. CASE d = 0
  <2>1. ~(d = 1) /\ ~(d = 3) /\ ~(d > 1)
    BY <1>7
  <2> QED BY <1>1, <1>2, <2>1, Zenon
<1>8. CASE d >= 1
  <2>1. PICK t : t = s[i] /\ t = TokenAt(s, i)
    BY <1>3, <1>8
  <2>2. PICK u : u = s[i + d - 1] /\ u = TokenAt(s, i + d - 1)
    BY <1>3, <1>8
  <2>3. d = 3 /\ t \in Predicates /\ s[i + 1] = "(" /\ s[i + 2] = ")" <=>
        d = 3 /\ t \in Predicates /\ TokenAt(s, i + 1) = "(" /\ TokenAt(s, i + 2) = ")"
    BY <1>4
  <2>4. v = (s[i] = "true") <=> v = (TokenAt(s, i) = "true")
    BY <1>3, <1>8, Zenon
  <2>5. \/ d = 1 /\ s[i] \in {"true", "false"} /\ v = (s[i] = "true")
        \/ d = 3 /\ s[i] \in Predicates /\ s[i + 1] = "(" /\ s[i + 2] = ")" /\ v = Holds(s[i], state)
        <=>
        \/ d = 1 /\ TokenAt(s, i) \in {"true", "false"} /\ v = (TokenAt(s, i) = "true")
        \/ /\ d = 3 /\ TokenAt(s, i) \in Predicates /\ TokenAt(s, i + 1) = "(" /\ TokenAt(s, i + 2) = ")"
           /\ v = Holds(TokenAt(s, i), state)
    BY <2>1, <2>3, <2>4, Zenon
  <2>6. \/ d > 1 /\ s[i] = "!" /\ \E w \in GrammarValues(s, state)[d - 1][i + 1].unary : v = ~w
        \/ d > 1 /\ s[i] = "(" /\ s[i + d - 1] = ")" /\ v \in GrammarValues(s, state)[d - 2][i + 1].or
        <=>
        \/ d > 1 /\ TokenAt(s, i) = "!" /\ \E w : HasUnary(s, state, d - 1, i + 1, w) /\ v = Neg(w)
        \/ d > 1 /\ TokenAt(s, i) = "(" /\ TokenAt(s, i + d - 1) = ")" /\ HasOr(s, state, d - 2, i + 1, v)
    BY <1>5, <1>6, <2>1, <2>2, Zenon
  <2> QED BY <1>1, <1>2, <2>5, <2>6, Zenon
<1> QED BY <1>7, <1>8

LEMMA HasAndRule ==
  ASSUME NEW T, NEW s \in Seq(T), NEW state \in States, NEW d \in 0..Len(s), NEW i \in 1 .. Len(s) + 1 - d, NEW v
  PROVE  HasAnd(s, state, d, i, v) <=>
           \/ HasUnary(s, state, d, i, v)
           \/ \E e \in 0 .. d - 1 : \E a, b :
                 /\ TokenAt(s, i + e) = "&&" /\ HasAnd(s, state, e, i, a)
                 /\ HasUnary(s, state, d - e - 1, i + e + 1, b) /\ v = Conj(a, b)
<1>1. v \in AndValues(s, state, d, i, GrammarValues(s, state)) <=>
             \/ v \in UnaryValues(s, state, d, i, GrammarValues(s, state))
             \/ \E e \in Splits(s, d, i, "&&") :
                \E a \in GrammarValues(s, state)[e][i].and,
                   b \in GrammarValues(s, state)[d - e - 1][i + e + 1].unary : v = Conj(a, b)
  BY AndValuesAre
<1>2. \A e : e \in Splits(s, d, i, "&&") <=> e \in 0 .. d - 1 /\ TokenAt(s, i + e) = "&&"
  BY DEF Splits, TokenAt
<1>3. (\E e \in Splits(s, d, i, "&&") :
        \E a \in GrammarValues(s, state)[e][i].and,
           b \in GrammarValues(s, state)[d - e - 1][i + e + 1].unary : v = Conj(a, b))
      <=> \E e \in 0 .. d - 1 : \E a, b :
                 /\ TokenAt(s, i + e) = "&&" /\ HasAnd(s, state, e, i, a)
                 /\ HasUnary(s, state, d - e - 1, i + e + 1, b) /\ v = Conj(a, b)
  BY <1>2, Zenon DEF HasAnd, HasUnary
<1>4. /\ HasAnd(s, state, d, i, v) <=> v \in AndValues(s, state, d, i, GrammarValues(s, state))
      /\ HasUnary(s, state, d, i, v) <=> v \in UnaryValues(s, state, d, i, GrammarValues(s, state))
  BY PartValuesAre, Zenon DEF HasAnd, HasUnary
<1> QED BY <1>1, <1>3, <1>4, Zenon

LEMMA HasOrRule ==
  ASSUME NEW T, NEW s \in Seq(T), NEW state \in States, NEW d \in 0..Len(s), NEW i \in 1 .. Len(s) + 1 - d, NEW v
  PROVE  HasOr(s, state, d, i, v) <=>
           \/ HasAnd(s, state, d, i, v)
           \/ \E e \in 0 .. d - 1 : \E a, b :
                 /\ TokenAt(s, i + e) = "||" /\ HasOr(s, state, e, i, a)
                 /\ HasAnd(s, state, d - e - 1, i + e + 1, b) /\ v = Disj(a, b)
<1>1. v \in OrValues(s, state, d, i, GrammarValues(s, state)) <=>
             \/ v \in AndValues(s, state, d, i, GrammarValues(s, state))
             \/ \E e \in Splits(s, d, i, "||") :
                \E a \in GrammarValues(s, state)[e][i].or,
                   b \in GrammarValues(s, state)[d - e - 1][i + e + 1].and : v = Disj(a, b)
  BY OrValuesAre
<1>2. \A e : e \in Splits(s, d, i, "||") <=> e \in 0 .. d - 1 /\ TokenAt(s, i + e) = "||"
  BY DEF Splits, TokenAt
<1>3. (\E e \in Splits(s, d, i, "||") :
        \E a \in GrammarValues(s, state)[e][i].or,
           b \in GrammarValues(s, state)[d - e - 1][i + e + 1].and : v = Disj(a, b))
      <=> \E e \in 0 .. d - 1 : \E a, b :
                 /\ TokenAt(s, i + e) = "||" /\ HasOr(s, state, e, i, a)
                 /\ HasAnd(s, state, d - e - 1, i + e + 1, b) /\ v = Disj(a, b)
  BY <1>2, Zenon DEF HasOr, HasAnd
<1>4. /\ HasOr(s, state, d, i, v) <=> v \in OrValues(s, state, d, i, GrammarValues(s, state))
      /\ HasAnd(s, state, d, i, v) <=> v \in AndValues(s, state, d, i, GrammarValues(s, state))
  BY PartValuesAre, Zenon DEF HasOr, HasAnd
<1> QED BY <1>1, <1>3, <1>4, Zenon

-----------------------------------------------------------------------------
(***************************************************************************)
(* Every value the grammar gives is read.  What comes before && or || is   *)
(* read together with what follows it, so the statement about a part says  *)
(* what becomes of it in front of the operator.                            *)
(***************************************************************************)
AndThen(s, state, i, v, k) ==
    /\ TokenAt(s, k) # "&&" => IsAnd(s, state, i, v, k)
    /\ \A b, l : TokenAt(s, k) = "&&" /\ IsAnd(s, state, k + 1, b, l) => IsAnd(s, state, i, Conj(v, b), l)

OrThen(s, state, i, v, k) ==
    /\ TokenAt(s, k) \notin {"&&", "||"} => IsOr(s, state, i, v, k)
    /\ \A b, l : TokenAt(s, k) = "||" /\ IsOr(s, state, k + 1, b, l) => IsOr(s, state, i, Disj(v, b), l)

LEMMA Associative ==
  \A a, b, c : Conj(a, Conj(b, c)) = Conj(Conj(a, b), c) /\ Disj(a, Disj(b, c)) = Disj(Disj(a, b), c)
BY DEF Conj, Disj

LEMMA UnaryIsReadThen ==
  ASSUME NEW T, NEW s \in Seq(T), NEW state \in States, NEW i \in 1..Len(s) + 1, NEW v, NEW k,
         IsUnary(s, state, i, v, k)
  PROVE  AndThen(s, state, i, v, k)
<1>1. TokenAt(s, k) # "&&" => IsAnd(s, state, i, v, k)
  BY AndRule
<1>2. ASSUME NEW b, NEW l, TokenAt(s, k) = "&&", IsAnd(s, state, k + 1, b, l)
      PROVE  IsAnd(s, state, i, Conj(v, b), l)
  BY <1>2, AndRule
<1> QED BY <1>1, <1>2 DEF AndThen

LEMMA AndIsReadThen ==
  ASSUME NEW T, NEW s \in Seq(T), NEW state \in States, NEW i \in 1..Len(s) + 1, NEW v, NEW k,
         AndThen(s, state, i, v, k)
  PROVE  OrThen(s, state, i, v, k)
<1>1. TokenAt(s, k) \notin {"&&", "||"} => IsOr(s, state, i, v, k)
  BY OrRule DEF AndThen
<1>2. ASSUME NEW b, NEW l, TokenAt(s, k) = "||", IsOr(s, state, k + 1, b, l)
      PROVE  IsOr(s, state, i, Disj(v, b), l)
  <2>1. IsAnd(s, state, i, v, k)
    BY <1>2 DEF AndThen
  <2> QED BY <1>2, <2>1, OrRule
<1> QED BY <1>1, <1>2 DEF OrThen

LEMMA AndIsReadAfter ==
  ASSUME NEW T, NEW s \in Seq(T), NEW state \in States, NEW i \in 1..Len(s) + 1, NEW a, NEW m \in 1..Len(s),
         AndThen(s, state, i, a, m), TokenAt(s, m) = "&&", NEW b, NEW k, IsUnary(s, state, m + 1, b, k)
  PROVE  AndThen(s, state, i, Conj(a, b), k)
<1>1. m + 1 \in 1..Len(s) + 1
  OBVIOUS
<1>2. AndThen(s, state, m + 1, b, k)
  BY <1>1, UnaryIsReadThen
<1>3. ASSUME TokenAt(s, k) # "&&" PROVE IsAnd(s, state, i, Conj(a, b), k)
  <2>1. IsAnd(s, state, m + 1, b, k)
    BY <1>2, <1>3 DEF AndThen
  <2> QED BY <2>1 DEF AndThen
<1>4. ASSUME NEW c, NEW l, TokenAt(s, k) = "&&", IsAnd(s, state, k + 1, c, l)
      PROVE  IsAnd(s, state, i, Conj(Conj(a, b), c), l)
  <2>1. IsAnd(s, state, m + 1, Conj(b, c), l)
    BY <1>2, <1>4 DEF AndThen
  <2>2. IsAnd(s, state, i, Conj(a, Conj(b, c)), l)
    BY <2>1 DEF AndThen
  <2> QED BY <2>2, Associative
<1> QED BY <1>3, <1>4 DEF AndThen

LEMMA OrIsReadAfter ==
  ASSUME NEW T, NEW s \in Seq(T), NEW state \in States, NEW i \in 1..Len(s) + 1, NEW a, NEW m \in 1..Len(s),
         OrThen(s, state, i, a, m), TokenAt(s, m) = "||", NEW b, NEW k, AndThen(s, state, m + 1, b, k)
  PROVE  OrThen(s, state, i, Disj(a, b), k)
<1>1. m + 1 \in 1..Len(s) + 1
  OBVIOUS
<1>2. OrThen(s, state, m + 1, b, k)
  BY <1>1, AndIsReadThen
<1>3. ASSUME TokenAt(s, k) \notin {"&&", "||"} PROVE IsOr(s, state, i, Disj(a, b), k)
  <2>1. IsOr(s, state, m + 1, b, k)
    BY <1>2, <1>3 DEF OrThen
  <2> QED BY <2>1 DEF OrThen
<1>4. ASSUME NEW c, NEW l, TokenAt(s, k) = "||", IsOr(s, state, k + 1, c, l)
      PROVE  IsOr(s, state, i, Disj(Disj(a, b), c), l)
  <2>1. IsOr(s, state, m + 1, Disj(b, c), l)
    BY <1>2, <1>4 DEF OrThen
  <2>2. IsOr(s, state, i, Disj(a, Disj(b, c)), l)
    BY <2>1 DEF OrThen
  <2> QED BY <2>2, Associative
<1> QED BY <1>3, <1>4 DEF OrThen

LEMMA ValuesAreRead ==
  ASSUME NEW T, NEW s \in Seq(T), NEW state \in States, NEW d \in 0..Len(s), NEW i \in 1 .. Len(s) + 1 - d, NEW v
  PROVE  /\ HasUnary(s, state, d, i, v) => IsUnary(s, state, i, v, i + d)
         /\ HasAnd(s, state, d, i, v) => AndThen(s, state, i, v, i + d)
         /\ HasOr(s, state, d, i, v) => OrThen(s, state, i, v, i + d)
<1> DEFINE n == Len(s)
           Unaries(c) == \A j \in 1 .. n + 1 - c : \A w : HasUnary(s, state, c, j, w) => IsUnary(s, state, j, w, j + c)
           Ands(c) == \A j \in 1 .. n + 1 - c : \A w : HasAnd(s, state, c, j, w) => AndThen(s, state, j, w, j + c)
           Ors(c) == \A j \in 1 .. n + 1 - c : \A w : HasOr(s, state, c, j, w) => OrThen(s, state, j, w, j + c)
           S == {c \in Nat : c <= n => Unaries(c) /\ Ands(c) /\ Ors(c)}
<1>1. ASSUME NEW c \in Nat, \A e \in 0 .. c - 1 : e \in S PROVE c \in S
  <2>1. SUFFICES ASSUME c <= n PROVE Unaries(c) /\ Ands(c) /\ Ors(c)
    OBVIOUS
  <2>2. c \in 0..n /\ n \in Nat
    BY <2>1
  <2>3. ASSUME NEW e \in 0 .. c - 1 PROVE Unaries(e) /\ Ands(e) /\ Ors(e)
    BY <1>1, <2>1
  <2> HIDE DEF Unaries, Ands, Ors
  <2>4. Unaries(c)
    <3> SUFFICES ASSUME NEW j \in 1 .. n + 1 - c, NEW w, HasUnary(s, state, c, j, w)
                 PROVE  IsUnary(s, state, j, w, j + c)
      BY DEF Unaries
    <3>0. j \in 1..n + 1
      BY <2>2
    <3>1. \/ c = 1 /\ TokenAt(s, j) \in {"true", "false"} /\ w = (TokenAt(s, j) = "true")
          \/ /\ c = 3 /\ TokenAt(s, j) \in Predicates /\ TokenAt(s, j + 1) = "(" /\ TokenAt(s, j + 2) = ")"
             /\ w = Holds(TokenAt(s, j), state)
          \/ c > 1 /\ TokenAt(s, j) = "!" /\ \E u : HasUnary(s, state, c - 1, j + 1, u) /\ w = Neg(u)
          \/ c > 1 /\ TokenAt(s, j) = "(" /\ TokenAt(s, j + c - 1) = ")" /\ HasOr(s, state, c - 2, j + 1, w)
      BY <2>2, HasUnaryRule, Zenon
    <3>2. CASE c = 1 /\ TokenAt(s, j) \in {"true", "false"} /\ w = (TokenAt(s, j) = "true")
      BY <3>0, <3>2, UnaryRule, Zenon DEF ReadsUnary
    <3>3. CASE /\ c = 3 /\ TokenAt(s, j) \in Predicates /\ TokenAt(s, j + 1) = "(" /\ TokenAt(s, j + 2) = ")"
               /\ w = Holds(TokenAt(s, j), state)
      BY <3>0, <3>3, UnaryRule, Zenon DEF ReadsUnary
    <3>4. CASE c > 1 /\ TokenAt(s, j) = "!" /\ \E u : HasUnary(s, state, c - 1, j + 1, u) /\ w = Neg(u)
      <4>1. PICK u : HasUnary(s, state, c - 1, j + 1, u) /\ w = Neg(u)
        BY <3>4
      <4>2. c - 1 \in 0 .. c - 1 /\ j + 1 \in 1 .. n + 1 - (c - 1) /\ j + 1 + (c - 1) = j + c
        BY <2>2, <3>4
      <4>3. IsUnary(s, state, j + 1, u, j + c)
        BY <2>3, <4>1, <4>2 DEF Unaries
      <4> QED BY <3>0, <3>4, <4>1, <4>3, UnaryRule, Zenon DEF ReadsUnary
    <3>5. CASE c > 1 /\ TokenAt(s, j) = "(" /\ TokenAt(s, j + c - 1) = ")" /\ HasOr(s, state, c - 2, j + 1, w)
      <4>1. /\ c - 2 \in 0 .. c - 1 /\ j + 1 \in 1 .. n + 1 - (c - 2)
            /\ j + 1 + (c - 2) = j + c - 1 /\ j + c = (j + c - 1) + 1
        BY <2>2, <3>5
      <4>2. OrThen(s, state, j + 1, w, j + c - 1)
        BY <2>3, <3>5, <4>1 DEF Ors
      <4>3. IsOr(s, state, j + 1, w, j + c - 1)
        BY <3>5, <4>2 DEF OrThen
      <4>4. \E m : IsOr(s, state, j + 1, w, m) /\ TokenAt(s, m) = ")" /\ j + c = m + 1
        BY <3>5, <4>1, <4>3
      <4> QED BY <3>0, <3>5, <4>4, UnaryRule, Zenon DEF ReadsUnary
    <3> QED BY <3>1, <3>2, <3>3, <3>4, <3>5, Zenon
  <2>5. Ands(c)
    <3> SUFFICES ASSUME NEW j \in 1 .. n + 1 - c, NEW w, HasAnd(s, state, c, j, w)
                 PROVE  AndThen(s, state, j, w, j + c)
      BY DEF Ands
    <3>0. j \in 1..n + 1
      BY <2>2
    <3>1. CASE HasUnary(s, state, c, j, w)
      <4>1. IsUnary(s, state, j, w, j + c)
        BY <2>4, <3>1 DEF Unaries
      <4> QED BY <3>0, <4>1, UnaryIsReadThen
    <3>2. CASE \E e \in 0 .. c - 1 : \E a, b :
                 /\ TokenAt(s, j + e) = "&&" /\ HasAnd(s, state, e, j, a)
                 /\ HasUnary(s, state, c - e - 1, j + e + 1, b) /\ w = Conj(a, b)
      <4>1. PICK e, a, b :
                 /\ e \in 0 .. c - 1
                 /\ TokenAt(s, j + e) = "&&" /\ HasAnd(s, state, e, j, a)
                 /\ HasUnary(s, state, c - e - 1, j + e + 1, b) /\ w = Conj(a, b)
        BY <3>2
      <4>2. /\ j \in 1 .. n + 1 - e /\ c - e - 1 \in 0 .. c - 1 /\ j + e \in 1..n
            /\ j + e + 1 \in 1 .. n + 1 - (c - e - 1) /\ j + e + 1 + (c - e - 1) = j + c
        BY <2>2, <4>1
      <4>3. AndThen(s, state, j, a, j + e)
        BY <2>3, <4>1, <4>2 DEF Ands
      <4>4. IsUnary(s, state, j + e + 1, b, j + c)
        BY <2>3, <4>1, <4>2 DEF Unaries
      <4> QED BY <3>0, <4>1, <4>2, <4>3, <4>4, AndIsReadAfter
    <3> QED BY <2>2, <3>1, <3>2, HasAndRule
  <2>6. Ors(c)
    <3> SUFFICES ASSUME NEW j \in 1 .. n + 1 - c, NEW w, HasOr(s, state, c, j, w)
                 PROVE  OrThen(s, state, j, w, j + c)
      BY DEF Ors
    <3>0. j \in 1..n + 1
      BY <2>2
    <3>1. CASE HasAnd(s, state, c, j, w)
      <4>1. AndThen(s, state, j, w, j + c)
        BY <2>5, <3>1 DEF Ands
      <4> QED BY <3>0, <4>1, AndIsReadThen
    <3>2. CASE \E e \in 0 .. c - 1 : \E a, b :
                 /\ TokenAt(s, j + e) = "||" /\ HasOr(s, state, e, j, a)
                 /\ HasAnd(s, state, c - e - 1, j + e + 1, b) /\ w = Disj(a, b)
      <4>1. PICK e, a, b :
                 /\ e \in 0 .. c - 1
                 /\ TokenAt(s, j + e) = "||" /\ HasOr(s, state, e, j, a)
                 /\ HasAnd(s, state, c - e - 1, j + e + 1, b) /\ w = Disj(a, b)
        BY <3>2
      <4>2. /\ j \in 1 .. n + 1 - e /\ c - e - 1 \in 0 .. c - 1 /\ j + e \in 1..n
            /\ j + e + 1 \in 1 .. n + 1 - (c - e - 1) /\ j + e + 1 + (c - e - 1) = j + c
        BY <2>2, <4>1
      <4>3. OrThen(s, state, j, a, j + e)
        BY <2>3, <4>1, <4>2 DEF Ors
      <4>4. AndThen(s, state, j + e + 1, b, j + c)
        BY <2>3, <4>1, <4>2 DEF Ands
      <4> QED BY <3>0, <4>1, <4>2, <4>3, <4>4, OrIsReadAfter
    <3> QED BY <2>2, <3>1, <3>2, HasOrRule
  <2> QED BY <2>4, <2>5, <2>6
<1> HIDE DEF S
<1>2. d \in S
  BY <1>1, Upwards
<1> QED BY <1>2 DEF S

-----------------------------------------------------------------------------
(***************************************************************************)
(* And what is read is a value the grammar gives.                          *)
(***************************************************************************)
LEMMA ConjunctionsExtend ==
  ASSUME NEW T, NEW s \in Seq(T), NEW state \in States, NEW i \in 1..Len(s) + 1, NEW e \in Nat, NEW a,
         i + e \in 1..Len(s), HasAnd(s, state, e, i, a), TokenAt(s, i + e) = "&&"
  PROVE  \A f \in Nat : \A b : i + e + f <= Len(s) /\ HasAnd(s, state, f, i + e + 1, b) =>
            HasAnd(s, state, e + f + 1, i, Conj(a, b))
<1> DEFINE n == Len(s)
           Extends(f) == \A b : HasAnd(s, state, f, i + e + 1, b) => HasAnd(s, state, e + f + 1, i, Conj(a, b))
           S == {f \in Nat : i + e + f <= n => Extends(f)}
<1>1. ASSUME NEW f \in Nat, \A g \in 0 .. f - 1 : g \in S PROVE f \in S
  <2>1. SUFFICES ASSUME i + e + f <= n, NEW b, HasAnd(s, state, f, i + e + 1, b)
                 PROVE  HasAnd(s, state, e + f + 1, i, Conj(a, b))
    OBVIOUS
  <2>2. /\ n \in Nat /\ f \in 0..n /\ i + e + 1 \in 1 .. n + 1 - f
        /\ e + f + 1 \in 0..n /\ i \in 1 .. n + 1 - (e + f + 1)
    BY <2>1
  <2>3. CASE HasUnary(s, state, f, i + e + 1, b)
    <3>1. e \in 0 .. (e + f + 1) - 1 /\ (e + f + 1) - e - 1 = f
      BY <2>2
    <3> QED BY <2>2, <2>3, <3>1, HasAndRule
  <2>4. CASE \E g \in 0 .. f - 1 : \E c, d :
                 /\ TokenAt(s, i + e + 1 + g) = "&&" /\ HasAnd(s, state, g, i + e + 1, c)
                 /\ HasUnary(s, state, f - g - 1, i + e + 1 + g + 1, d) /\ b = Conj(c, d)
    <3>1. PICK g, c, d :
                 /\ g \in 0 .. f - 1
                 /\ TokenAt(s, i + e + 1 + g) = "&&" /\ HasAnd(s, state, g, i + e + 1, c)
                 /\ HasUnary(s, state, f - g - 1, i + e + 1 + g + 1, d) /\ b = Conj(c, d)
      BY <2>4
    <3>2. /\ g \in Nat /\ i + e + g <= n /\ i + (e + g + 1) = i + e + 1 + g
          /\ e + g + 1 \in 0 .. (e + f + 1) - 1 /\ (e + f + 1) - (e + g + 1) - 1 = f - g - 1
          /\ i + (e + g + 1) + 1 = i + e + 1 + g + 1
      BY <2>2, <3>1
    <3>3. HasAnd(s, state, e + g + 1, i, Conj(a, c))
      BY <1>1, <3>1, <3>2
    <3>4. HasAnd(s, state, e + f + 1, i, Conj(Conj(a, c), d))
      BY <2>2, <3>1, <3>2, <3>3, HasAndRule
    <3> QED BY <3>1, <3>4, Associative
  <2> QED BY <2>1, <2>2, <2>3, <2>4, HasAndRule
<1> HIDE DEF S
<1>2. \A f \in Nat : f \in S
  BY <1>1, Upwards
<1> QED BY <1>2 DEF S

LEMMA DisjunctionsExtend ==
  ASSUME NEW T, NEW s \in Seq(T), NEW state \in States, NEW i \in 1..Len(s) + 1, NEW e \in Nat, NEW a,
         i + e \in 1..Len(s), HasOr(s, state, e, i, a), TokenAt(s, i + e) = "||"
  PROVE  \A f \in Nat : \A b : i + e + f <= Len(s) /\ HasOr(s, state, f, i + e + 1, b) =>
            HasOr(s, state, e + f + 1, i, Disj(a, b))
<1> DEFINE n == Len(s)
           Extends(f) == \A b : HasOr(s, state, f, i + e + 1, b) => HasOr(s, state, e + f + 1, i, Disj(a, b))
           S == {f \in Nat : i + e + f <= n => Extends(f)}
<1>1. ASSUME NEW f \in Nat, \A g \in 0 .. f - 1 : g \in S PROVE f \in S
  <2>1. SUFFICES ASSUME i + e + f <= n, NEW b, HasOr(s, state, f, i + e + 1, b)
                 PROVE  HasOr(s, state, e + f + 1, i, Disj(a, b))
    OBVIOUS
  <2>2. /\ n \in Nat /\ f \in 0..n /\ i + e + 1 \in 1 .. n + 1 - f
        /\ e + f + 1 \in 0..n /\ i \in 1 .. n + 1 - (e + f + 1)
    BY <2>1
  <2>3. CASE HasAnd(s, state, f, i + e + 1, b)
    <3>1. e \in 0 .. (e + f + 1) - 1 /\ (e + f + 1) - e - 1 = f
      BY <2>2
    <3> QED BY <2>2, <2>3, <3>1, HasOrRule
  <2>4. CASE \E g \in 0 .. f - 1 : \E c, d :
                 /\ TokenAt(s, i + e + 1 + g) = "||" /\ HasOr(s, state, g, i + e + 1, c)
                 /\ HasAnd(s, state, f - g - 1, i + e + 1 + g + 1, d) /\ b = Disj(c, d)
    <3>1. PICK g, c, d :
                 /\ g \in 0 .. f - 1
                 /\ TokenAt(s, i + e + 1 + g) = "||" /\ HasOr(s, state, g, i + e + 1, c)
                 /\ HasAnd(s, state, f - g - 1, i + e + 1 + g + 1, d) /\ b = Disj(c, d)
      BY <2>4
    <3>2. /\ g \in Nat /\ i + e + g <= n /\ i + (e + g + 1) = i + e + 1 + g
          /\ e + g + 1 \in 0 .. (e + f + 1) - 1 /\ (e + f + 1) - (e + g + 1) - 1 = f - g - 1
          /\ i + (e + g + 1) + 1 = i + e + 1 + g + 1
      BY <2>2, <3>1
    <3>3. HasOr(s, state, e + g + 1, i, Disj(a, c))
      BY <1>1, <3>1, <3>2
    <3>4. HasOr(s, state, e + f + 1, i, Disj(Disj(a, c), d))
      BY <2>2, <3>1, <3>2, <3>3, HasOrRule
    <3> QED BY <3>1, <3>4, Associative
  <2> QED BY <2>1, <2>2, <2>3, <2>4, HasOrRule
<1> HIDE DEF S
<1>2. \A f \in Nat : f \in S
  BY <1>1, Upwards
<1> QED BY <1>2 DEF S

LEMMA ReadIsAValue ==
  ASSUME NEW T, NEW s \in Seq(T), NEW state \in States, NEW i \in 1..Len(s) + 1, NEW v, NEW k
  PROVE  /\ IsUnary(s, state, i, v, k) => HasUnary(s, state, k - i, i, v)
         /\ IsAnd(s, state, i, v, k) => HasAnd(s, state, k - i, i, v)
         /\ IsOr(s, state, i, v, k) => HasOr(s, state, k - i, i, v)
<1> DEFINE n == Len(s)
           Unaries(j) == \A w, l : IsUnary(s, state, j, w, l) => HasUnary(s, state, l - j, j, w)
           Ands(j) == \A w, l : IsAnd(s, state, j, w, l) => HasAnd(s, state, l - j, j, w)
           Ors(j) == \A w, l : IsOr(s, state, j, w, l) => HasOr(s, state, l - j, j, w)
           S == {j \in 1 .. n + 1 : Unaries(j) /\ Ands(j) /\ Ors(j)}
<1>0. n \in Nat /\ n + 1 \in Nat
  OBVIOUS
<1>1. ASSUME NEW j \in 1 .. n + 1, \A m \in j + 1 .. n + 1 : m \in S PROVE j \in S
  <2>1. ASSUME NEW m \in j + 1 .. n + 1 PROVE Unaries(m) /\ Ands(m) /\ Ors(m)
    BY <1>1
  <2> HIDE DEF Unaries, Ands, Ors
  <2>2. Unaries(j)
    <3> SUFFICES ASSUME NEW w, NEW l, IsUnary(s, state, j, w, l) PROVE HasUnary(s, state, l - j, j, w)
      BY DEF Unaries
    <3>1. l \in j + 1 .. n + 1
      BY PartsEnd
    <3>2. l - j \in 0..n /\ j \in 1 .. n + 1 - (l - j)
      BY <1>0, <3>1
    <3>3. \/ TokenAt(s, j) \in {"true", "false"} /\ w = (TokenAt(s, j) = "true") /\ l = j + 1
          \/ /\ TokenAt(s, j) \in Predicates /\ TokenAt(s, j + 1) = "(" /\ TokenAt(s, j + 2) = ")"
             /\ w = Holds(TokenAt(s, j), state) /\ l = j + 3
          \/ TokenAt(s, j) = "!" /\ \E a : IsUnary(s, state, j + 1, a, l) /\ w = Neg(a)
          \/ TokenAt(s, j) = "(" /\ \E m : IsOr(s, state, j + 1, w, m) /\ TokenAt(s, m) = ")" /\ l = m + 1
      <4>1. IsUnary(s, state, j, w, l)
        OBVIOUS
      <4> HIDE DEF S, n
      <4>2. j \in 1 .. Len(s) + 1
        BY DEF n
      <4>3. ReadsUnary(s, state, j, w, l)
        BY <4>1, <4>2, UnaryRule
      <4> QED BY <4>3, Zenon DEF ReadsUnary
    <3>4. CASE TokenAt(s, j) \in {"true", "false"} /\ w = (TokenAt(s, j) = "true") /\ l = j + 1
      <4>1. l - j = 1
        BY <3>4
      <4> QED BY <3>2, <3>4, <4>1, HasUnaryRule, Zenon
    <3>5. CASE /\ TokenAt(s, j) \in Predicates /\ TokenAt(s, j + 1) = "(" /\ TokenAt(s, j + 2) = ")"
               /\ w = Holds(TokenAt(s, j), state) /\ l = j + 3
      <4>1. l - j = 3
        BY <3>5
      <4> QED BY <3>2, <3>5, <4>1, HasUnaryRule, Zenon
    <3>6. CASE TokenAt(s, j) = "!" /\ \E a : IsUnary(s, state, j + 1, a, l) /\ w = Neg(a)
      <4>1. PICK a : IsUnary(s, state, j + 1, a, l) /\ w = Neg(a)
        BY <3>6
      <4>2. j \in 1..n
        BY <3>6, TokenIs
      <4>3. j + 1 \in j + 1 .. n + 1 /\ j + 1 \in 1 .. n + 1
        BY <4>2
      <4>4. l \in j + 2 .. n + 1
        BY <4>1, <4>3, PartsEnd
      <4>5. l - (j + 1) = l - j - 1 /\ l - j > 1
        BY <4>4
      <4>6. HasUnary(s, state, l - j - 1, j + 1, a)
        BY <2>1, <4>1, <4>3, <4>5 DEF Unaries
      <4> QED BY <3>2, <3>6, <4>1, <4>5, <4>6, HasUnaryRule, Zenon
    <3>7. CASE TokenAt(s, j) = "(" /\ \E m : IsOr(s, state, j + 1, w, m) /\ TokenAt(s, m) = ")" /\ l = m + 1
      <4>1. PICK m : IsOr(s, state, j + 1, w, m) /\ TokenAt(s, m) = ")" /\ l = m + 1
        BY <3>7
      <4>2. j \in 1..n
        BY <3>7, TokenIs
      <4>3. j + 1 \in j + 1 .. n + 1 /\ j + 1 \in 1 .. n + 1
        BY <4>2
      <4>4. m \in j + 2 .. n + 1
        BY <4>1, <4>3, PartsEnd
      <4>5. m - (j + 1) = l - j - 2 /\ l - j > 1 /\ j + (l - j) - 1 = m
        BY <4>1, <4>4
      <4>6. HasOr(s, state, l - j - 2, j + 1, w)
        BY <2>1, <4>1, <4>3, <4>5 DEF Ors
      <4>7. TokenAt(s, j + (l - j) - 1) = ")"
        BY <4>1, <4>5
      <4> QED BY <3>2, <3>7, <4>5, <4>6, <4>7, HasUnaryRule, Zenon
    <3> QED BY <3>3, <3>4, <3>5, <3>6, <3>7, Zenon
  <2>3. Ands(j)
    <3> SUFFICES ASSUME NEW w, NEW l, IsAnd(s, state, j, w, l) PROVE HasAnd(s, state, l - j, j, w)
      BY DEF Ands
    <3>1. l \in j + 1 .. n + 1
      BY PartsEnd
    <3>2. l - j \in 0..n /\ j \in 1 .. n + 1 - (l - j)
      BY <1>0, <3>1
    <3>3. CASE IsUnary(s, state, j, w, l)
      <4>1. HasUnary(s, state, l - j, j, w)
        BY <2>2, <3>3 DEF Unaries
      <4> QED BY <3>2, <4>1, HasAndRule
    <3>4. CASE \E a, b, m : /\ IsUnary(s, state, j, a, m) /\ TokenAt(s, m) = "&&"
                           /\ IsAnd(s, state, m + 1, b, l) /\ w = Conj(a, b)
      <4>1. PICK a, b, m : /\ IsUnary(s, state, j, a, m) /\ TokenAt(s, m) = "&&"
                           /\ IsAnd(s, state, m + 1, b, l) /\ w = Conj(a, b)
        BY <3>4
      <4>2. m \in j + 1 .. n + 1 /\ m \in 1..n
        BY <4>1, PartsEnd, TokenIs
      <4>3. m + 1 \in j + 1 .. n + 1 /\ m + 1 \in 1 .. n + 1
        BY <4>2
      <4>4. l \in m + 2 .. n + 1
        BY <4>1, <4>3, PartsEnd
      <4>5. HasUnary(s, state, m - j, j, a)
        BY <2>2, <4>1 DEF Unaries
      <4>6. m - j \in Nat /\ m - j \in 0..n /\ j \in 1 .. n + 1 - (m - j) /\ j + (m - j) = m
        BY <4>2
      <4>7. HasAnd(s, state, m - j, j, a)
        BY <4>5, <4>6, HasAndRule
      <4>8. HasAnd(s, state, l - (m + 1), m + 1, b)
        BY <2>1, <4>1, <4>3 DEF Ands
      <4>9. /\ l - (m + 1) \in Nat /\ j + (m - j) + (l - (m + 1)) <= n /\ j + (m - j) + 1 = m + 1
            /\ (m - j) + (l - (m + 1)) + 1 = l - j
        BY <4>2, <4>4
      <4>10. TokenAt(s, j + (m - j)) = "&&" /\ j + (m - j) \in 1..n
        BY <4>1, <4>2, <4>6
      <4>11. HasAnd(s, state, (m - j) + (l - (m + 1)) + 1, j, Conj(a, b))
        BY <4>6, <4>7, <4>8, <4>9, <4>10, ConjunctionsExtend
      <4> QED BY <4>1, <4>9, <4>11
    <3> QED BY <3>3, <3>4, AndRule
  <2>4. Ors(j)
    <3> SUFFICES ASSUME NEW w, NEW l, IsOr(s, state, j, w, l) PROVE HasOr(s, state, l - j, j, w)
      BY DEF Ors
    <3>1. l \in j + 1 .. n + 1
      BY PartsEnd
    <3>2. l - j \in 0..n /\ j \in 1 .. n + 1 - (l - j)
      BY <1>0, <3>1
    <3>3. CASE IsAnd(s, state, j, w, l)
      <4>1. HasAnd(s, state, l - j, j, w)
        BY <2>3, <3>3 DEF Ands
      <4> QED BY <3>2, <4>1, HasOrRule
    <3>4. CASE \E a, b, m : /\ IsAnd(s, state, j, a, m) /\ TokenAt(s, m) = "||"
                           /\ IsOr(s, state, m + 1, b, l) /\ w = Disj(a, b)
      <4>1. PICK a, b, m : /\ IsAnd(s, state, j, a, m) /\ TokenAt(s, m) = "||"
                           /\ IsOr(s, state, m + 1, b, l) /\ w = Disj(a, b)
        BY <3>4
      <4>2. m \in j + 1 .. n + 1 /\ m \in 1..n
        BY <4>1, PartsEnd, TokenIs
      <4>3. m + 1 \in j + 1 .. n + 1 /\ m + 1 \in 1 .. n + 1
        BY <4>2
      <4>4. l \in m + 2 .. n + 1
        BY <4>1, <4>3, PartsEnd
      <4>5. HasAnd(s, state, m - j, j, a)
        BY <2>3, <4>1 DEF Ands
      <4>6. m - j \in Nat /\ m - j \in 0..n /\ j \in 1 .. n + 1 - (m - j) /\ j + (m - j) = m
        BY <4>2
      <4>7. HasOr(s, state, m - j, j, a)
        BY <4>5, <4>6, HasOrRule
      <4>8. HasOr(s, state, l - (m + 1), m + 1, b)
        BY <2>1, <4>1, <4>3 DEF Ors
      <4>9. /\ l - (m + 1) \in Nat /\ j + (m - j) + (l - (m + 1)) <= n /\ j + (m - j) + 1 = m + 1
            /\ (m - j) + (l - (m + 1)) + 1 = l - j
        BY <4>2, <4>4
      <4>10. TokenAt(s, j + (m - j)) = "||" /\ j + (m - j) \in 1..n
        BY <4>1, <4>2, <4>6
      <4>11. HasOr(s, state, (m - j) + (l - (m + 1)) + 1, j, Disj(a, b))
        BY <4>6, <4>7, <4>8, <4>9, <4>10, DisjunctionsExtend
      <4> QED BY <4>1, <4>9, <4>11
    <3> QED BY <3>3, <3>4, OrRule
  <2> QED BY <2>2, <2>3, <2>4
<1> HIDE DEF S
<1>2. \A j \in 1 .. n + 1 : j \in S
  BY <1>0, <1>1, Downwards
<1> QED BY <1>2 DEF S

-----------------------------------------------------------------------------
\* The end of what is read does not depend on the state it is read in.
LEMMA StateChangesNoEnd ==
  ASSUME NEW T, NEW s \in Seq(T), NEW state \in States, NEW other \in States,
         NEW i \in 1..Len(s) + 1, NEW v, NEW k, IsOr(s, state, i, v, k)
  PROVE  \E w : IsOr(s, other, i, w, k)
<1> DEFINE n == Len(s)
           Unaries(j) == \A w, l : IsUnary(s, state, j, w, l) => \E u : IsUnary(s, other, j, u, l)
           Ands(j) == \A w, l : IsAnd(s, state, j, w, l) => \E u : IsAnd(s, other, j, u, l)
           Ors(j) == \A w, l : IsOr(s, state, j, w, l) => \E u : IsOr(s, other, j, u, l)
           S == {j \in 1 .. n + 1 : Unaries(j) /\ Ands(j) /\ Ors(j)}
<1>0. n \in Nat /\ n + 1 \in Nat
  OBVIOUS
<1>1. ASSUME NEW j \in 1 .. n + 1, \A m \in j + 1 .. n + 1 : m \in S PROVE j \in S
  <2>1. ASSUME NEW m \in j + 1 .. n + 1 PROVE Unaries(m) /\ Ands(m) /\ Ors(m)
    BY <1>1
  <2> HIDE DEF S, Unaries, Ands, Ors
  <2>2. Unaries(j)
    <3> SUFFICES ASSUME NEW w, NEW l, IsUnary(s, state, j, w, l) PROVE \E u : IsUnary(s, other, j, u, l)
      BY DEF Unaries
    <3>1. ReadsUnary(s, state, j, w, l)
      BY UnaryRule
    <3>2. \E u : ReadsUnary(s, other, j, u, l)
      <4>1. CASE TokenAt(s, j) \in {"true", "false"} /\ w = (TokenAt(s, j) = "true") /\ l = j + 1
        BY <4>1, Zenon DEF ReadsUnary
      <4>2. CASE /\ TokenAt(s, j) \in Predicates /\ TokenAt(s, j + 1) = "(" /\ TokenAt(s, j + 2) = ")"
                 /\ w = Holds(TokenAt(s, j), state) /\ l = j + 3
        BY <4>2, Zenon DEF ReadsUnary
      <4>3. CASE TokenAt(s, j) = "!" /\ \E a : IsUnary(s, state, j + 1, a, l) /\ w = Neg(a)
        <5>1. j + 1 \in j + 1 .. n + 1
          BY <4>3, TokenIs
        <5>2. \E a : IsUnary(s, other, j + 1, a, l)
          BY <2>1, <4>3, <5>1 DEF Unaries
        <5> QED BY <4>3, <5>2, Zenon DEF ReadsUnary
      <4>4. CASE TokenAt(s, j) = "(" /\ \E m : IsOr(s, state, j + 1, w, m) /\ TokenAt(s, m) = ")" /\ l = m + 1
        <5>1. j + 1 \in j + 1 .. n + 1
          BY <4>4, TokenIs
        <5>2. PICK m : IsOr(s, state, j + 1, w, m) /\ TokenAt(s, m) = ")" /\ l = m + 1
          BY <4>4
        <5>3. \E a : IsOr(s, other, j + 1, a, m)
          BY <2>1, <5>1, <5>2 DEF Ors
        <5> QED BY <4>4, <5>2, <5>3, Zenon DEF ReadsUnary
      <4> QED BY <3>1, <4>1, <4>2, <4>3, <4>4, Zenon DEF ReadsUnary
    <3> QED BY <3>2, UnaryRule
  <2>3. Ands(j)
    <3> SUFFICES ASSUME NEW w, NEW l, IsAnd(s, state, j, w, l) PROVE \E u : IsAnd(s, other, j, u, l)
      BY DEF Ands
    <3>1. CASE IsUnary(s, state, j, w, l) /\ TokenAt(s, l) # "&&"
      <4>1. \E u : IsUnary(s, other, j, u, l)
        BY <2>2, <3>1 DEF Unaries
      <4> QED BY <3>1, <4>1, AndRule
    <3>2. CASE \E a, b, m : /\ IsUnary(s, state, j, a, m) /\ TokenAt(s, m) = "&&"
                            /\ IsAnd(s, state, m + 1, b, l) /\ w = Conj(a, b)
      <4>1. PICK a, b, m : /\ IsUnary(s, state, j, a, m) /\ TokenAt(s, m) = "&&"
                           /\ IsAnd(s, state, m + 1, b, l) /\ w = Conj(a, b)
        BY <3>2
      <4>2. m \in j + 1 .. n + 1 /\ m \in 1..n
        BY <4>1, PartsEnd, TokenIs
      <4>3. m + 1 \in j + 1 .. n + 1
        BY <4>2
      <4>4. PICK c, d : IsUnary(s, other, j, c, m) /\ IsAnd(s, other, m + 1, d, l)
        BY <2>1, <2>2, <4>1, <4>3 DEF Unaries, Ands
      <4>5. IsAnd(s, other, j, Conj(c, d), l)
        BY <4>1, <4>4, AndRule
      <4> QED BY <4>5
    <3> QED BY <3>1, <3>2, AndRule
  <2>4. Ors(j)
    <3> SUFFICES ASSUME NEW w, NEW l, IsOr(s, state, j, w, l) PROVE \E u : IsOr(s, other, j, u, l)
      BY DEF Ors
    <3>1. CASE IsAnd(s, state, j, w, l) /\ TokenAt(s, l) # "||"
      <4>1. \E u : IsAnd(s, other, j, u, l)
        BY <2>3, <3>1 DEF Ands
      <4> QED BY <3>1, <4>1, OrRule
    <3>2. CASE \E a, b, m : /\ IsAnd(s, state, j, a, m) /\ TokenAt(s, m) = "||"
                            /\ IsOr(s, state, m + 1, b, l) /\ w = Disj(a, b)
      <4>1. PICK a, b, m : /\ IsAnd(s, state, j, a, m) /\ TokenAt(s, m) = "||"
                           /\ IsOr(s, state, m + 1, b, l) /\ w = Disj(a, b)
        BY <3>2
      <4>2. m \in j + 1 .. n + 1 /\ m \in 1..n
        BY <4>1, PartsEnd, TokenIs
      <4>3. m + 1 \in j + 1 .. n + 1
        BY <4>2
      <4>4. PICK c, d : IsAnd(s, other, j, c, m) /\ IsOr(s, other, m + 1, d, l)
        BY <2>1, <2>3, <4>1, <4>3 DEF Ands, Ors
      <4>5. IsOr(s, other, j, Disj(c, d), l)
        BY <4>1, <4>4, OrRule
      <4> QED BY <4>5
    <3> QED BY <3>1, <3>2, OrRule
  <2> QED BY <2>2, <2>3, <2>4 DEF S
<1> HIDE DEF S
<1>2. \A j \in 1 .. n + 1 : j \in S
  BY <1>0, <1>1, Downwards
<1> QED BY <1>2 DEF S

\* A condition is accepted when all of it is read as one expression.
LEMMA AcceptedIs ==
  ASSUME NEW T, NEW s \in Seq(T), s # <<>>, NEW state \in States
  PROVE  /\ EvaluatePipelineCondition(s, state).ok \in BOOLEAN
         /\ EvaluatePipelineCondition(s, state).ok <=> \E v : IsOr(s, state, 1, v, Len(s) + 1)
         /\ EvaluatePipelineCondition(s, state).ok =>
               IsOr(s, state, 1, EvaluatePipelineCondition(s, state).value, Len(s) + 1)
<1>1. PICK r : r = Parsed(s, state)[1].or
  OBVIOUS
<1>2. 1 \in 1..Len(s) + 1
  OBVIOUS
<1>3. r.ok \in BOOLEAN
  BY <1>1, <1>2, ParsedIs DEF AreResults, IsResult
<1>4. EvaluatePipelineCondition(s, state) = IF r.ok /\ r.next = Len(s) + 1 THEN r ELSE Rejected
  BY <1>1, Zenon DEF EvaluatePipelineCondition, Normalized
<1>5. \A v, k : IsOr(s, state, 1, v, k) <=> r.ok /\ r.value = v /\ r.next = k
  BY <1>1, Zenon DEF IsOr, Gives
<1>6. CASE r.ok /\ r.next = Len(s) + 1
  BY <1>3, <1>4, <1>5, <1>6, Zenon
<1>7. CASE ~(r.ok /\ r.next = Len(s) + 1)
  <2>1. EvaluatePipelineCondition(s, state).ok = FALSE
    BY <1>4, <1>7, RejectedIs, Zenon
  <2> QED BY <1>5, <1>7, <2>1, Zenon
<1> QED BY <1>6, <1>7

LEMMA ConditionParses ==
  ASSUME NEW T, NEW s \in Seq(T), s # <<>>, NEW state \in States
  PROVE  /\ GrammarValues(s, state)[Len(s)][1].or =
               (IF EvaluatePipelineCondition(s, state).ok
                THEN {EvaluatePipelineCondition(s, state).value} ELSE {})
         /\ ValidatePipelineCondition(s) = EvaluatePipelineCondition(s, state).ok
<1> DEFINE n == Len(s)
<1>1. PICK result : result = EvaluatePipelineCondition(s, state)
  OBVIOUS
<1>2. n \in 0..Len(s) /\ 1 \in 1 .. Len(s) + 1 - n /\ 1 \in 1 .. Len(s) + 1 /\ 1 + n = n + 1 /\ (n + 1) - 1 = n
  OBVIOUS
<1>3. TokenAt(s, n + 1) \notin {"&&", "||"}
  BY DEF TokenAt
<1>4. ASSUME NEW v PROVE v \in GrammarValues(s, state)[n][1].or <=> IsOr(s, state, 1, v, n + 1)
  <2>1. ASSUME v \in GrammarValues(s, state)[n][1].or PROVE IsOr(s, state, 1, v, n + 1)
    <3>1. HasOr(s, state, n, 1, v)
      BY <2>1 DEF HasOr
    <3>2. OrThen(s, state, 1, v, 1 + n)
      BY <1>2, <3>1, ValuesAreRead
    <3> QED BY <1>2, <1>3, <3>2 DEF OrThen
  <2>2. ASSUME IsOr(s, state, 1, v, n + 1) PROVE v \in GrammarValues(s, state)[n][1].or
    <3>1. HasOr(s, state, (n + 1) - 1, 1, v)
      BY <1>2, <2>2, ReadIsAValue
    <3> QED BY <1>2, <3>1 DEF HasOr
  <2> QED BY <2>1, <2>2, Zenon
<1>5. GrammarValues(s, state)[n][1].or = (IF result.ok THEN {result.value} ELSE {})
  <2>1. CASE result.ok
    <3>1. IsOr(s, state, 1, result.value, n + 1)
      BY <1>1, <2>1, AcceptedIs
    <3>2. \A v : IsOr(s, state, 1, v, n + 1) => v = result.value
      BY <3>1, GivesOne DEF IsOr
    <3>3. GrammarValues(s, state)[n][1].or = {result.value}
      BY <1>4, <3>1, <3>2
    <3> QED BY <2>1, <3>3, Zenon
  <2>2. CASE ~result.ok
    <3>1. \A v : ~IsOr(s, state, 1, v, n + 1)
      BY <1>1, <2>2, AcceptedIs
    <3>2. GrammarValues(s, state)[n][1].or = {}
      BY <1>4, <3>1
    <3> QED BY <2>2, <3>2, Zenon
  <2> QED BY <2>1, <2>2
<1>6. ValidatePipelineCondition(s) = result.ok
  <2> DEFINE other == [success |-> TRUE, failure |-> FALSE]
  <2>1. other \in States
    BY DEF States
  <2>2. PICK tried : tried = EvaluatePipelineCondition(s, other)
    OBVIOUS
  <2>3. (\E v : IsOr(s, state, 1, v, n + 1)) <=> \E v : IsOr(s, other, 1, v, n + 1)
    <3> HIDE DEF other
    <3> QED BY <1>2, <2>1, StateChangesNoEnd
  <2>4. ValidatePipelineCondition(s) = tried.ok
    BY <2>2, Zenon DEF ValidatePipelineCondition
  <2> HIDE DEF other
  <2>5. /\ tried.ok \in BOOLEAN /\ result.ok \in BOOLEAN
        /\ tried.ok <=> \E v : IsOr(s, other, 1, v, n + 1)
        /\ result.ok <=> \E v : IsOr(s, state, 1, v, n + 1)
    BY <1>1, <2>1, <2>2, AcceptedIs
  <2>6. tried.ok = result.ok
    <3>1. tried.ok <=> result.ok
      BY <2>3, <2>5, Zenon
    <3> QED BY <2>5, <3>1
  <2> QED BY <2>4, <2>6
<1> QED BY <1>1, <1>5, <1>6, Zenon

-----------------------------------------------------------------------------
(***************************************************************************)
(* The order of the stages.                                                *)
(***************************************************************************)
AfterPlacing(deps, after, k) == IF k = 0 THEN <<>> ELSE PlaceNext(deps, after[k - 1])

\* The stages are placed one after the other.
LEMMA PlacedIs ==
  ASSUME NEW deps, Len(deps) \in Nat
  PROVE  \A k \in 0..Len(deps) : Placed(deps)[k] = AfterPlacing(deps, Placed(deps), k)
<1> DEFINE n == Len(deps)
           S == {m \in Nat : \E g : g = [k \in 0..m |-> AfterPlacing(deps, g, k)]}
<1>1. \A g, h, k : k = 0 \/ g[k - 1] = h[k - 1] => AfterPlacing(deps, g, k) = AfterPlacing(deps, h, k)
  BY Zenon DEF AfterPlacing
<1>2. ASSUME NEW m \in Nat, \A k \in 0 .. m - 1 : k \in S PROVE m \in S
  <2>1. PICK g : m # 0 => g = [k \in 0 .. m - 1 |-> AfterPlacing(deps, g, k)]
    <3>1. CASE m = 0
      BY <3>1
    <3>2. CASE m # 0
      <4>1. m - 1 \in 0 .. m - 1
        BY <3>2
      <4> QED BY <1>2, <4>1
    <3> QED BY <3>1, <3>2
  <2>2. PICK h : h = [k \in 0..m |-> IF k = m THEN AfterPlacing(deps, g, m) ELSE g[k]]
    OBVIOUS
  <2>3. \A k \in 0 .. m - 1 : k \in 0..m /\ k # m
    OBVIOUS
  <2>4. \A k \in 0 .. m - 1 : g[k] = h[k]
    BY <2>2, <2>3, Zenon
  <2>5. ASSUME NEW k \in 0..m PROVE h[k] = AfterPlacing(deps, h, k)
    <3>1. k = 0 \/ k - 1 \in 0 .. m - 1
      OBVIOUS
    <3>2. AfterPlacing(deps, g, k) = AfterPlacing(deps, h, k)
      BY <1>1, <2>4, <3>1, Zenon
    <3>3. CASE k = m
      BY <2>2, <3>2, <3>3, Zenon
    <3>4. CASE k # m
      <4>1. k \in 0 .. m - 1 /\ m # 0
        BY <3>4
      <4>2. g[k] = AfterPlacing(deps, g, k)
        BY <2>1, <4>1, Zenon
      <4> QED BY <2>4, <3>2, <4>1, <4>2, Zenon
    <3> QED BY <3>3, <3>4
  <2>6. h = [k \in 0..m |-> h[k]]
    BY <2>2, Zenon
  <2>7. h = [k \in 0..m |-> AfterPlacing(deps, h, k)]
    BY <2>5, <2>6, Zenon
  <2> QED BY <2>7
<1> HIDE DEF S
<1>3. n \in S
  BY <1>2, Upwards
<1>4. PICK g : g = [k \in 0..n |-> AfterPlacing(deps, g, k)]
  BY <1>3 DEF S
<1>5. Placed(deps) = [k \in 0..n |-> AfterPlacing(deps, Placed(deps), k)]
  BY <1>4, Zenon DEF Placed, AfterPlacing
<1> DEFINE p == Placed(deps)
<1> HIDE DEF p
<1>6. p = [k \in 0..n |-> AfterPlacing(deps, p, k)]
  BY <1>5, Zenon DEF p
<1>7. \A k \in 0..n : p[k] = AfterPlacing(deps, p, k)
  BY <1>6, Zenon
<1> QED BY <1>7 DEF p

PlacedIn(seq, m) == {seq[j] : j \in 1..m}
Ready(deps, done) == {s \in DOMAIN deps : s \notin done /\ Dependencies(deps, s) \subseteq done}

LEMMA NextStageIs ==
  ASSUME NEW T, NEW deps \in Seq(T), NEW done
  PROVE  \/ NextStage(deps, done) = 0 /\ Ready(deps, done) = {}
         \/ /\ NextStage(deps, done) \in Ready(deps, done)
            /\ \A t \in Ready(deps, done) : NextStage(deps, done) <= t
<1>1. CASE Ready(deps, done) = {}
  BY <1>1 DEF NextStage, Ready
<1>2. CASE Ready(deps, done) # {}
  <2>1. Ready(deps, done) \in SUBSET Nat
    BY DEF Ready
  <2>2. \E s \in Ready(deps, done) : \A t \in Ready(deps, done) : s <= t
    BY <1>2, <2>1, LeastNatural
  <2>3. NextStage(deps, done) = CHOOSE s \in Ready(deps, done) : \A t \in Ready(deps, done) : s <= t
    BY <1>2 DEF NextStage, Ready
  <2> QED BY <2>2, <2>3
<1> QED BY <1>1, <1>2

\* A sequence of stages each of which was the first one that was ready.
IsPlacement(deps, seq) ==
    /\ seq \in Seq(DOMAIN deps)
    /\ \A i \in 1..Len(seq) :
          /\ seq[i] = NextStage(deps, PlacedIn(seq, i - 1))
          /\ seq[i] \in Ready(deps, PlacedIn(seq, i - 1))

LEMMA PlaceNextPlaces ==
  ASSUME NEW T, NEW deps \in Seq(T), NEW seq, IsPlacement(deps, seq)
  PROVE  /\ IsPlacement(deps, PlaceNext(deps, seq))
         /\ \/ Len(PlaceNext(deps, seq)) = Len(seq) + 1
            \/ PlaceNext(deps, seq) = seq /\ NextStage(deps, PlacedIn(seq, Len(seq))) = 0
<1> DEFINE m == Len(seq)
           next == NextStage(deps, PlacedIn(seq, m))
<1>1. seq \in Seq(DOMAIN deps) /\ m \in Nat /\ DOMAIN seq = 1..m
  BY DEF IsPlacement
<1>2. PlaceNext(deps, seq) = IF next = 0 THEN seq ELSE Append(seq, next)
  BY <1>1 DEF PlaceNext, PlacedIn
<1>3. CASE next = 0
  BY <1>2, <1>3
<1>4. CASE next # 0
  <2>1. next \in Ready(deps, PlacedIn(seq, m))
    BY <1>4, NextStageIs
  <2>2. next \in DOMAIN deps
    BY <2>1 DEF Ready
  <2>3. PICK new : new = Append(seq, next)
    OBVIOUS
  <2> HIDE DEF next
  <2>4. /\ new \in Seq(DOMAIN deps) /\ Len(new) = m + 1
        /\ new[m + 1] = next /\ \A j \in 1..m : new[j] = seq[j]
    BY <1>1, <2>2, <2>3
  <2>5. \A i \in 1 .. m + 1 : PlacedIn(new, i - 1) = PlacedIn(seq, i - 1)
    <3> TAKE i \in 1 .. m + 1
    <3>1. \A j \in 1 .. i - 1 : j \in 1..m
      BY <1>1
    <3> QED BY <2>4, <3>1 DEF PlacedIn
  <2>6. ASSUME NEW i \in 1 .. m + 1
        PROVE  /\ new[i] = NextStage(deps, PlacedIn(new, i - 1))
               /\ new[i] \in Ready(deps, PlacedIn(new, i - 1))
    <3>1. CASE i = m + 1
      <4>1. i - 1 = m
        BY <1>1, <3>1
      <4> QED BY <2>1, <2>4, <2>5, <3>1, <4>1 DEF next
    <3>2. CASE i # m + 1
      <4>1. i \in 1..m
        BY <1>1, <3>2
      <4> QED BY <2>4, <2>5, <4>1 DEF IsPlacement
    <3> QED BY <3>1, <3>2
  <2>7. IsPlacement(deps, new)
    BY <2>4, <2>6 DEF IsPlacement
  <2>8. PlaceNext(deps, seq) = new
    BY <1>2, <1>4, <2>3 DEF next
  <2> QED BY <2>4, <2>7, <2>8
<1> QED BY <1>3, <1>4

\* All the stages are placed, or none of those that are left is ready.
LEMMA PlacedIsPlacement ==
  ASSUME NEW T, NEW deps \in Seq(T)
  PROVE  /\ IsPlacement(deps, Placed(deps)[Len(deps)])
         /\ \/ Len(Placed(deps)[Len(deps)]) = Len(deps)
            \/ /\ Len(Placed(deps)[Len(deps)]) < Len(deps)
               /\ Ready(deps, PlacedIn(Placed(deps)[Len(deps)], Len(Placed(deps)[Len(deps)]))) = {}
<1> DEFINE n == Len(deps)
           p == Placed(deps)
           Good(k) == /\ IsPlacement(deps, p[k])
                      /\ \/ Len(p[k]) = k
                         \/ Len(p[k]) < k /\ NextStage(deps, PlacedIn(p[k], Len(p[k]))) = 0
           S == {k \in Nat : k <= n => Good(k)}
<1>1. \A k \in 0..n : p[k] = AfterPlacing(deps, p, k)
  BY PlacedIs
<1> HIDE DEF p
<1>2. ASSUME NEW k \in Nat, \A j \in 0 .. k - 1 : j \in S PROVE k \in S
  <2>1. SUFFICES ASSUME k <= n PROVE Good(k)
    OBVIOUS
  <2>2. CASE k = 0
    <3>1. p[k] = <<>>
      BY <1>1, <2>2 DEF AfterPlacing
    <3> QED BY <2>2, <3>1 DEF IsPlacement
  <2>3. CASE k # 0
    <3>1. Good(k - 1)
      BY <1>2, <2>1, <2>3
    <3>2. p[k] = PlaceNext(deps, p[k - 1])
      BY <1>1, <2>1, <2>3 DEF AfterPlacing
    <3>3. Len(p[k - 1]) \in Nat
      BY <3>1 DEF IsPlacement
    <3>4. /\ IsPlacement(deps, p[k])
          /\ \/ Len(p[k]) = Len(p[k - 1]) + 1
             \/ p[k] = p[k - 1] /\ NextStage(deps, PlacedIn(p[k - 1], Len(p[k - 1]))) = 0
      BY <3>1, <3>2, PlaceNextPlaces
    <3>5. CASE p[k] = p[k - 1] /\ NextStage(deps, PlacedIn(p[k - 1], Len(p[k - 1]))) = 0
      BY <3>1, <3>3, <3>4, <3>5
    <3>6. CASE Len(p[k]) = Len(p[k - 1]) + 1 /\ p[k] # p[k - 1]
      <4>1. NextStage(deps, PlacedIn(p[k - 1], Len(p[k - 1]))) # 0
        <5>1. DOMAIN p[k - 1] = 1..Len(p[k - 1])
          BY <3>1 DEF IsPlacement
        <5> QED BY <3>2, <3>6, <5>1 DEF PlaceNext, PlacedIn
      <4> QED BY <3>1, <3>3, <3>4, <3>6, <4>1
    <3>7. CASE Len(p[k]) = Len(p[k - 1]) + 1 /\ p[k] = p[k - 1]
      BY <3>3, <3>7
    <3> QED BY <3>4, <3>5, <3>6, <3>7
  <2> QED BY <2>2, <2>3
<1> HIDE DEF S
<1>3. n \in S
  BY <1>2, Upwards
<1>4. Good(n)
  BY <1>3 DEF S
<1>5. NextStage(deps, PlacedIn(p[n], Len(p[n]))) = 0 => Ready(deps, PlacedIn(p[n], Len(p[n]))) = {}
  <2>1. \A s \in Ready(deps, PlacedIn(p[n], Len(p[n]))) : s # 0
    BY DEF Ready
  <2> QED BY <2>1, NextStageIs
<1> QED BY <1>4, <1>5 DEF p

Orders(deps) ==
    {o \in [DOMAIN deps -> DOMAIN deps] :
        /\ \A i, j \in DOMAIN deps : o[i] = o[j] => i = j
        /\ \A i \in DOMAIN deps : Dependencies(deps, o[i]) \subseteq {o[j] : j \in 1..(i - 1)}}
Precedes(deps, p, q) == \E i \in DOMAIN deps : p[i] < q[i] /\ \A j \in 1..(i - 1) : p[j] = q[j]

LEMMA PlacementIsOrder ==
  ASSUME NEW T, NEW deps \in Seq(T), NEW seq, IsPlacement(deps, seq), Len(seq) = Len(deps)
  PROVE  seq \in Orders(deps)
<1>1. seq \in [DOMAIN deps -> DOMAIN deps] /\ DOMAIN deps = 1..Len(seq) /\ Len(seq) \in Nat
  BY DEF IsPlacement
<1>2. \A i \in DOMAIN deps : seq[i] \in Ready(deps, PlacedIn(seq, i - 1))
  BY <1>1 DEF IsPlacement
<1>3. ASSUME NEW i \in DOMAIN deps, NEW j \in DOMAIN deps, i < j PROVE seq[i] # seq[j]
  <2>1. i \in 1 .. j - 1
    BY <1>1, <1>3
  <2> QED BY <1>2, <2>1 DEF Ready, PlacedIn
<1>4. ASSUME NEW i \in DOMAIN deps, NEW j \in DOMAIN deps, seq[i] = seq[j] PROVE i = j
  <2>1. i < j \/ j < i \/ i = j
    BY <1>1
  <2> QED BY <1>3, <1>4, <2>1
<1>5. \A i \in DOMAIN deps : Dependencies(deps, seq[i]) \subseteq {seq[j] : j \in 1..(i - 1)}
  BY <1>2 DEF Ready, PlacedIn
<1> QED BY <1>1, <1>4, <1>5 DEF Orders

\* An order visits every stage, so its dependencies are stages.
LEMMA OrderVisitsAll ==
  ASSUME NEW T, NEW deps \in Seq(T), NEW o \in Orders(deps), NEW s \in DOMAIN deps
  PROVE  /\ \E i \in DOMAIN deps : o[i] = s
         /\ Dependencies(deps, s) \subseteq DOMAIN deps
<1>1. /\ o \in [DOMAIN deps -> DOMAIN deps]
      /\ \A i, j \in DOMAIN deps : o[i] = o[j] => i = j
      /\ \A i \in DOMAIN deps : Dependencies(deps, o[i]) \subseteq {o[j] : j \in 1..(i - 1)}
  BY DEF Orders
<1>2. o \in Injection(DOMAIN deps, DOMAIN deps)
  BY <1>1 DEF Injection, IsInjective
<1>3. DOMAIN deps = 1..Len(deps) /\ Len(deps) \in Nat
  OBVIOUS
<1>4. IsFiniteSet(DOMAIN deps)
  BY <1>3, FS_Interval
<1>5. o \in Surjection(DOMAIN deps, DOMAIN deps)
  BY <1>2, <1>4, FS_Injection
<1>6. PICK i \in DOMAIN deps : o[i] = s
  BY <1>5 DEF Surjection
<1>7. \A j \in 1 .. i - 1 : j \in DOMAIN deps
  BY <1>3
<1> QED BY <1>1, <1>6, <1>7

LEMMA IntervalHas == \A k \in Nat : IsFiniteSet(1..k) /\ Cardinality(1..k) = k
<1> TAKE k \in Nat
<1>1. IsFiniteSet(1..k) /\ Cardinality(1..k) = IF 1 > k THEN 0 ELSE k - 1 + 1
  BY FS_Interval
<1> QED BY <1>1

LEMMA OrderedStagesArePlaced ==
  ASSUME NEW T, NEW deps \in Seq(T), NEW o \in Orders(deps), NEW seq, IsPlacement(deps, seq),
         Ready(deps, PlacedIn(seq, Len(seq))) = {}
  PROVE  ~(Len(seq) < Len(deps))
<1> SUFFICES ASSUME Len(seq) < Len(deps) PROVE FALSE
  OBVIOUS
<1> DEFINE n == Len(deps)
           m == Len(seq)
           done == PlacedIn(seq, m)
<1>1. n \in Nat /\ m \in Nat /\ m < n /\ DOMAIN deps = 1..n
  BY DEF IsPlacement
<1>2. /\ o \in [1..n -> 1..n] /\ \A i, j \in 1..n : o[i] = o[j] => i = j
      /\ \A i \in 1..n : Dependencies(deps, o[i]) \subseteq PlacedIn(o, i - 1)
  BY <1>1 DEF Orders, PlacedIn
<1> DEFINE Left == {i \in 1..n : o[i] \notin done}
<1>3. Left # {}
  <2>1. SUFFICES ASSUME \A i \in 1..n : o[i] \in done PROVE FALSE
    OBVIOUS
  <2>2. \A i \in 1..n : \E j \in 1..m : seq[j] = o[i]
    BY <2>1 DEF PlacedIn
  <2>3. PICK f : f = [i \in 1..n |-> CHOOSE j \in 1..m : seq[j] = o[i]]
    OBVIOUS
  <2>4. \A i \in 1..n : f[i] \in 1..m /\ seq[f[i]] = o[i]
    BY <2>2, <2>3
  <2>5. f \in [1..n -> 1..m]
    BY <2>3, <2>4
  <2>6. /\ IsFiniteSet(1..n) /\ IsFiniteSet(1..m)
        /\ Cardinality(1..n) = n /\ Cardinality(1..m) = m
    BY <1>1, IntervalHas
  <2>7. PICK i, j \in 1..n : i # j /\ f[i] = f[j]
    <3>1. Cardinality(1..m) < Cardinality(1..n)
      BY <1>1, <2>6
    <3> HIDE DEF n, m
    <3>2. PICK A, B : A = 1..n /\ B = 1..m
      OBVIOUS
    <3>3. IsFiniteSet(A) /\ IsFiniteSet(B) /\ Cardinality(B) < Cardinality(A) /\ f \in [A -> B]
      BY <2>5, <2>6, <3>1, <3>2
    <3>4. \E i, j \in A : i # j /\ f[i] = f[j]
      BY <3>3, FS_PigeonHole
    <3> QED BY <3>2, <3>4
  <2> QED BY <1>2, <2>4, <2>7
<1>4. PICK i \in Left : \A j \in Left : i <= j
  <2>1. Left \in SUBSET Nat
    BY <1>1
  <2> QED BY <1>3, <2>1, LeastNatural
<1>5. i \in 1..n /\ o[i] \notin done
  BY <1>4
<1>6. \A j \in 1 .. i - 1 : o[j] \in done
  <2> TAKE j \in 1 .. i - 1
  <2>1. j \in 1..n /\ ~(i <= j)
    BY <1>1, <1>5
  <2> QED BY <1>4, <2>1
<1>7. Dependencies(deps, o[i]) \subseteq done
  <2>1. PlacedIn(o, i - 1) \subseteq done
    <3> HIDE DEF done
    <3> QED BY <1>6 DEF PlacedIn
  <2> QED BY <1>2, <1>5, <2>1
<1>8. o[i] \in Ready(deps, done)
  <2> HIDE DEF done
  <2> QED BY <1>1, <1>2, <1>5, <1>7 DEF Ready
<1> QED BY <1>8

LEMMA PlacementIsFirst ==
  ASSUME NEW T, NEW deps \in Seq(T), NEW o \in Orders(deps), NEW seq, IsPlacement(deps, seq),
         Len(seq) = Len(deps), o # seq
  PROVE  Precedes(deps, seq, o)
<1> DEFINE n == Len(deps)
           Differ == {i \in 1..n : o[i] # seq[i]}
<1>1. n \in Nat /\ DOMAIN deps = 1..n
  OBVIOUS
<1>2. o \in [1..n -> 1..n] /\ seq \in [1..n -> 1..n] /\ \A i, j \in 1..n : o[i] = o[j] => i = j
  <2>1. seq \in Orders(deps)
    BY PlacementIsOrder
  <2> HIDE DEF n
  <2> QED BY <1>1, <2>1 DEF Orders
<1>3. Differ # {}
  <2>1. SUFFICES ASSUME \A i \in 1..n : o[i] = seq[i] PROVE FALSE
    OBVIOUS
  <2>2. o = [i \in 1..n |-> o[i]] /\ seq = [i \in 1..n |-> seq[i]]
    BY <1>2
  <2> QED BY <2>1, <2>2
<1>4. PICK i \in Differ : \A j \in Differ : i <= j
  <2>1. Differ \in SUBSET Nat
    BY <1>1
  <2> QED BY <1>3, <2>1, LeastNatural
<1>5. i \in 1..n /\ o[i] # seq[i]
  BY <1>4
<1>6. ASSUME NEW j \in 1 .. i - 1 PROVE o[j] = seq[j] /\ j \in 1..n
  <2>1. j \in 1..n /\ ~(i <= j)
    BY <1>1, <1>5
  <2> QED BY <1>4, <2>1
<1>7. PlacedIn(o, i - 1) = PlacedIn(seq, i - 1)
  BY <1>6 DEF PlacedIn
<1>8. o[i] \notin PlacedIn(o, i - 1)
  <2>1. \A j \in 1 .. i - 1 : j # i
    BY <1>5
  <2> QED BY <1>2, <1>5, <1>6, <2>1 DEF PlacedIn
<1>9. o[i] \in Ready(deps, PlacedIn(seq, i - 1))
  <2>1. Dependencies(deps, o[i]) \subseteq PlacedIn(o, i - 1)
    BY <1>1, <1>5 DEF Orders, PlacedIn
  <2> QED BY <1>1, <1>2, <1>5, <1>7, <1>8, <2>1 DEF Ready
<1>10. seq[i] <= o[i]
  <2>1. seq[i] = NextStage(deps, PlacedIn(seq, i - 1))
    BY <1>5 DEF IsPlacement
  <2> QED BY <1>9, <2>1, NextStageIs
<1>11. seq[i] < o[i]
  BY <1>2, <1>5, <1>10
<1> QED BY <1>1, <1>5, <1>6, <1>11 DEF Precedes

\* The order is refused when there is none, and is the first one otherwise.
LEMMA StagesOrder ==
  ASSUME NEW T, NEW deps \in Seq(T), deps # <<>>
  PROVE  IF \/ ~(\A s \in DOMAIN deps : ~Repeats(deps[s]) /\ Dependencies(deps, s) \subseteq DOMAIN deps)
            \/ Orders(deps) = {}
         THEN OrderPipelineStages(deps) = <<>>
         ELSE /\ OrderPipelineStages(deps) \in Orders(deps)
              /\ \A o \in Orders(deps) \ {OrderPipelineStages(deps)} :
                    Precedes(deps, OrderPipelineStages(deps), o)
<1> DEFINE n == Len(deps)
           Formed == \A s \in DOMAIN deps : ~Repeats(deps[s]) /\ Dependencies(deps, s) \subseteq DOMAIN deps
           Wrong == \E s \in DOMAIN deps : 0 \in Dependencies(deps, s) \/ Repeats(deps[s])
<1>1. PICK seq : seq = Placed(deps)[n]
  OBVIOUS
<1>2. /\ IsPlacement(deps, seq)
      /\ \/ Len(seq) = n
         \/ Len(seq) < n /\ Ready(deps, PlacedIn(seq, Len(seq))) = {}
  BY <1>1, PlacedIsPlacement
<1>3. OrderPipelineStages(deps) = IF Wrong \/ Len(seq) < n THEN <<>> ELSE seq
  BY <1>1 DEF OrderPipelineStages
<1>4. n \in Nat /\ DOMAIN deps = 1..n /\ Len(seq) \in Nat
  BY <1>2 DEF IsPlacement
<1>5. CASE Wrong \/ Len(seq) < n
  <2>1. ~Formed \/ Orders(deps) = {}
    <3>1. CASE Wrong
      BY <1>4, <3>1
    <3>2. CASE Len(seq) < n
      BY <1>2, <1>4, <3>2, OrderedStagesArePlaced
    <3> QED BY <1>5, <3>1, <3>2
  <2> QED BY <1>3, <1>5, <2>1
<1>6. CASE ~Wrong /\ ~(Len(seq) < n)
  <2>1. Len(seq) = n
    BY <1>2, <1>6
  <2>2. seq \in Orders(deps)
    BY <1>2, <2>1, PlacementIsOrder
  <2>3. Formed
    BY <1>6, <2>2, OrderVisitsAll
  <2>4. \A o \in Orders(deps) \ {seq} : Precedes(deps, seq, o)
    BY <1>2, <2>1, PlacementIsFirst
  <2>5. OrderPipelineStages(deps) = seq
    BY <1>3, <1>6
  <2> QED BY <2>2, <2>3, <2>4, <2>5
<1> QED BY <1>5, <1>6

-----------------------------------------------------------------------------
(***************************************************************************)
(* The stage loops.  Without a condition a stage needs the success of what *)
(* it depends on.                                                          *)
(***************************************************************************)
LEMMA EmptyConditionIs ==
  ASSUME NEW state \in States
  PROVE  EvaluatePipelineCondition(<<>>, state).value <=> state.success
<1> DEFINE s == <<"success", "(", ")">>
<1>1. s \in Seq({"success", "(", ")"}) /\ s # <<>> /\ Len(s) = 3 /\ 1 \in 1..Len(s) + 1 /\ 1 + 3 = 4 /\ 3 + 1 = 4
  <2>1. s \in Seq({"success", "(", ")"})
    OBVIOUS
  <2>2. Len(s) = 3
    OBVIOUS
  <2>3. s # <<>>
    BY <2>2
  <2> HIDE DEF s
  <2> QED BY <2>1, <2>2, <2>3
<1>2. /\ TokenAt(s, 1) = "success" /\ TokenAt(s, 1 + 1) = "(" /\ TokenAt(s, 1 + 2) = ")" /\ TokenAt(s, 4) = "end"
  BY DEF TokenAt
<1>3. EvaluatePipelineCondition(<<>>, state) = EvaluatePipelineCondition(s, state)
  <2>1. Normalized(<<>>) = s /\ Normalized(s) = s
    BY DEF Normalized
  <2> HIDE DEF s
  <2> QED BY <2>1, Zenon DEF EvaluatePipelineCondition
<1> HIDE DEF s
<1>4. PICK v : v = Holds("success", state)
  OBVIOUS
<1>5. ReadsUnary(s, state, 1, v, 4)
  <2>1. TokenAt(s, 1) \in Predicates
    BY <1>2 DEF Predicates
  <2>2. v = Holds(TokenAt(s, 1), state)
    BY <1>2, <1>4, Zenon
  <2>3. 4 = 1 + 3
    OBVIOUS
  <2> QED BY <1>2, <2>1, <2>2, <2>3, Zenon DEF ReadsUnary
<1>6. IsUnary(s, state, 1, v, 4)
  BY <1>1, <1>5, UnaryRule
<1>7. IsAnd(s, state, 1, v, 4)
  BY <1>1, <1>2, <1>6, AndRule
<1>8. IsOr(s, state, 1, v, 4)
  BY <1>1, <1>2, <1>7, OrRule
<1>9. PICK r : r = EvaluatePipelineCondition(s, state)
  OBVIOUS
<1>10. r.ok
  BY <1>1, <1>8, <1>9, AcceptedIs
<1>11. IsOr(s, state, 1, r.value, Len(s) + 1)
  BY <1>1, <1>9, <1>10, AcceptedIs
<1>12. r.value = v
  BY <1>8, <1>11, GivesOne DEF IsOr
<1>13. Holds("success", state) <=> state.success
  BY DEF Holds
<1> QED BY <1>3, <1>4, <1>9, <1>12, <1>13, Zenon

LEMMA UnconditionalStageNeedsSuccess ==
  ASSUME NEW needs, NEW outcomes
  PROVE  ShouldRunStage(<<>>, needs, outcomes) <=> \A d \in needs : outcomes[d] = "success"
<1> DEFINE state == DependencyState(needs, outcomes)
<1>1. state \in States
  BY DEF DependencyState, States
<1>2. state.success <=> \A d \in needs : outcomes[d] = "success"
  BY DEF DependencyState
<1> HIDE DEF state
<1>3. EvaluatePipelineCondition(<<>>, state).value <=> state.success
  BY <1>1, EmptyConditionIs
<1> QED BY <1>2, <1>3, Zenon DEF ShouldRunStage, state

(***************************************************************************)
(* The steps a build executes as long as none has failed are the same in   *)
(* the three loops.  A step is <<stage, number>>.                          *)
(***************************************************************************)
IsJob(j) ==
    /\ Len(j) \in Nat /\ DOMAIN j = 1..Len(j)
    /\ \A s \in 1..Len(j) :
          /\ j[s].needs \subseteq 1 .. s - 1
          /\ Len(j[s].steps) \in Nat /\ DOMAIN j[s].steps = 1..Len(j[s].steps)
          /\ \A k \in 1..Len(j[s].steps) : j[s].steps[k].result \in {"ok", "fail", "slow"}

\* What the loops make of a stage when the outcomes before it are f and none is a failure.
Enters(j, s, f) == j[s].matches /\ ShouldRunStage(j[s].if, j[s].needs, f)
OutcomeAfter(j, s, f) == IF Enters(j, s, f) THEN "success" ELSE "skipped"

CleanStatuses(j) ==
    CHOOSE f \in [1..Len(j) -> {"success", "skipped"}] : \A s \in 1..Len(j) : f[s] = OutcomeAfter(j, s, f)

EntersClean(j, s) == Enters(j, s, CleanStatuses(j))

LEMMA NeedsDecide ==
  ASSUME NEW j, NEW s, NEW f, NEW g, \A d \in j[s].needs : f[d] = g[d]
  PROVE  (Enters(j, s, f) <=> Enters(j, s, g)) /\ OutcomeAfter(j, s, f) = OutcomeAfter(j, s, g)
<1>1. DependencyState(j[s].needs, f) = DependencyState(j[s].needs, g)
  BY DEF DependencyState
<1>2. Enters(j, s, f) <=> Enters(j, s, g)
  BY <1>1, Zenon DEF Enters, ShouldRunStage
<1> QED BY <1>2, Zenon DEF OutcomeAfter

LEMMA CleanStatusesAre ==
  ASSUME NEW j, IsJob(j)
  PROVE  /\ CleanStatuses(j) \in [1..Len(j) -> {"success", "skipped"}]
         /\ \A s \in 1..Len(j) : CleanStatuses(j)[s] = OutcomeAfter(j, s, CleanStatuses(j))
<1> DEFINE Clean(n, f) == \A s \in 1..n : f[s] = OutcomeAfter(j, s, f)
           S == {n \in Nat : n <= Len(j) => \E f \in [1..n -> {"success", "skipped"}] : Clean(n, f)}
<1>1. ASSUME NEW n \in Nat, \A m \in 0 .. n - 1 : m \in S PROVE n \in S
  <2>1. SUFFICES ASSUME n <= Len(j) PROVE \E f \in [1..n -> {"success", "skipped"}] : Clean(n, f)
    OBVIOUS
  <2>2. CASE n = 0
    <3>1. [k \in 1..n |-> "success"] \in [1..n -> {"success", "skipped"}] /\ 1..n = {}
      BY <2>2
    <3> QED BY <3>1
  <2>3. CASE n # 0
    <3>1. n - 1 \in 0 .. n - 1 /\ n - 1 <= Len(j)
      BY <2>1, <2>3 DEF IsJob
    <3>2. PICK f \in [1 .. n - 1 -> {"success", "skipped"}] : Clean(n - 1, f)
      BY <1>1, <3>1
    <3>3. PICK g : g = [k \in 1..n |-> IF k = n THEN OutcomeAfter(j, n, f) ELSE f[k]]
      OBVIOUS
    <3>4. OutcomeAfter(j, n, f) \in {"success", "skipped"}
      BY DEF OutcomeAfter
    <3>5. g \in [1..n -> {"success", "skipped"}]
      BY <2>3, <3>3, <3>4
    <3>6. \A k \in 1 .. n - 1 : g[k] = f[k]
      BY <3>3
    <3>7. ASSUME NEW k \in 1..n PROVE g[k] = OutcomeAfter(j, k, g)
      <4>1. k \in 1..Len(j) /\ j[k].needs \subseteq 1 .. n - 1
        <5>1. k \in 1..Len(j)
          BY <2>1 DEF IsJob
        <5>2. j[k].needs \subseteq 1 .. k - 1
          BY <5>1 DEF IsJob
        <5> QED BY <5>1, <5>2
      <4>2. \A d \in j[k].needs : g[d] = f[d]
        BY <3>6, <4>1
      <4>3. OutcomeAfter(j, k, g) = OutcomeAfter(j, k, f)
        BY <4>2, NeedsDecide
      <4>4. CASE k = n
        BY <3>3, <4>3, <4>4
      <4>5. CASE k # n
        <5>1. k \in 1 .. n - 1
          BY <4>5
        <5> QED BY <3>2, <3>6, <4>3, <5>1
      <4> QED BY <4>4, <4>5
    <3> QED BY <3>5, <3>7
  <2> QED BY <2>2, <2>3
<1> HIDE DEF S
<1>2. Len(j) \in S
  BY <1>1, Upwards DEF IsJob
<1>3. \E f \in [1..Len(j) -> {"success", "skipped"}] : \A s \in 1..Len(j) : f[s] = OutcomeAfter(j, s, f)
  BY <1>2 DEF S, IsJob
<1> QED BY <1>3, Zenon DEF CleanStatuses

RunsClean(step) ==
    step.if = <<>> \/ EvaluatePipelineCondition(step.if, [success |-> TRUE, failure |-> FALSE]).value

CleanSteps(j) ==
    {c \in Nat \X Nat : /\ c[1] \in 1..Len(j) /\ c[2] \in 1..Len(j[c[1]].steps)
                        /\ EntersClean(j, c[1]) /\ RunsClean(j[c[1]].steps[c[2]])}

Before(c, d) == c[1] < d[1] \/ (c[1] = d[1] /\ c[2] < d[2])
NoneBetween(j, c, d) == \A e \in CleanSteps(j) : ~(Before(c, e) /\ Before(e, d))
Prev(r, i) == IF i = 1 THEN <<0, 0>> ELSE r[i - 1]
Succeeds(j, c) == j[c[1]].steps[c[2]].result = "ok"

\* The first n steps of r are the first n clean steps.
Chain(j, r, n) ==
    \A i \in 1..n : /\ r[i] \in CleanSteps(j)
                    /\ Before(Prev(r, i), r[i]) /\ NoneBetween(j, Prev(r, i), r[i])

\* All of r are, they succeeded, and no other one comes before `at`.
CleanUntil(j, r, at) ==
    /\ Chain(j, r, Len(r)) /\ \A i \in 1..Len(r) : Succeeds(j, r[i])
    /\ Before(Prev(r, Len(r) + 1), at) /\ NoneBetween(j, Prev(r, Len(r) + 1), at)

\* The n-th step of r is the first one that failed.
FailsAt(j, r, n) ==
    /\ n \in 1..Len(r) /\ Chain(j, r, n)
    /\ \A i \in 1 .. n - 1 : Succeeds(j, r[i])
    /\ ~Succeeds(j, r[n])

LEMMA CleanAtStart == \A j : CleanUntil(j, <<>>, <<1, 0>>)
<1> TAKE j
<1>1. \A c \in CleanSteps(j) : c[1] \in Nat \ {0} /\ c[2] \in Nat
  BY DEF CleanSteps
<1> QED BY <1>1 DEF CleanUntil, Chain, Prev, Before, NoneBetween

LEMMA CleanMoves ==
  ASSUME NEW j, NEW r, NEW at \in Nat \X Nat, NEW to \in Nat \X Nat, Before(at, to),
         r \in Seq(Nat \X Nat), CleanUntil(j, r, at), \A c \in CleanSteps(j) : Before(c, at) \/ ~Before(c, to)
  PROVE  CleanUntil(j, r, to)
<1>1. PICK last : last = Prev(r, Len(r) + 1)
  OBVIOUS
<1>2. last \in Nat \X Nat
  <2>1. CASE Len(r) = 0
    BY <1>1, <2>1 DEF Prev
  <2>2. CASE Len(r) # 0
    BY <1>1, <2>2 DEF Prev
  <2> QED BY <2>1, <2>2
<1>3. Before(last, at) /\ NoneBetween(j, last, at)
  BY <1>1 DEF CleanUntil
<1>4. Before(last, to)
  BY <1>2, <1>3 DEF Before
<1>5. NoneBetween(j, last, to)
  BY <1>3 DEF NoneBetween
<1> QED BY <1>1, <1>4, <1>5 DEF CleanUntil

LEMMA PrevIsKept ==
  ASSUME NEW r \in Seq(Nat \X Nat), NEW c \in Nat \X Nat, NEW i \in 1 .. Len(r) + 1
  PROVE  /\ Prev(Append(r, c), i) = Prev(r, i)
         /\ i <= Len(r) => Append(r, c)[i] = r[i]
BY DEF Prev

LEMMA ChainIsKept ==
  ASSUME NEW j, NEW r \in Seq(Nat \X Nat), NEW c \in Nat \X Nat, NEW n \in 0..Len(r), Chain(j, r, n)
  PROVE  Chain(j, Append(r, c), n)
<1>1. \A i \in 1..n : i \in 1 .. Len(r) + 1 /\ i <= Len(r)
  OBVIOUS
<1> QED BY <1>1, PrevIsKept DEF Chain

LEMMA ChainGrows ==
  ASSUME NEW j, NEW r \in Seq(Nat \X Nat), NEW at \in CleanSteps(j), CleanUntil(j, r, at)
  PROVE  /\ at \in Nat \X Nat
         /\ Chain(j, Append(r, at), Len(r) + 1)
         /\ \A i \in 1..Len(r) : Succeeds(j, Append(r, at)[i])
         /\ Append(r, at)[Len(r) + 1] = at
<1>1. at \in Nat \X Nat
  BY DEF CleanSteps
<1>2. Chain(j, Append(r, at), Len(r))
  BY <1>1, ChainIsKept DEF CleanUntil
<1>3. Append(r, at)[Len(r) + 1] = at /\ Prev(Append(r, at), Len(r) + 1) = Prev(r, Len(r) + 1)
  BY <1>1, PrevIsKept
<1>4. ASSUME NEW i \in 1 .. Len(r) + 1
      PROVE  /\ Append(r, at)[i] \in CleanSteps(j)
             /\ Before(Prev(Append(r, at), i), Append(r, at)[i])
             /\ NoneBetween(j, Prev(Append(r, at), i), Append(r, at)[i])
  <2>1. CASE i \in 1..Len(r)
    BY <1>2, <2>1 DEF Chain
  <2>2. CASE i = Len(r) + 1
    BY <1>3, <2>2 DEF CleanUntil
  <2> QED BY <2>1, <2>2
<1>5. \A i \in 1..Len(r) : Succeeds(j, Append(r, at)[i])
  <2>1. \A i \in 1..Len(r) : Append(r, at)[i] = r[i]
    BY <1>1, PrevIsKept
  <2> QED BY <2>1 DEF CleanUntil
<1> QED BY <1>1, <1>3, <1>4, <1>5 DEF Chain

LEMMA CleanStepSucceeds ==
  ASSUME NEW j, NEW r \in Seq(Nat \X Nat), NEW s \in Nat, NEW k \in Nat, <<s, k>> \in CleanSteps(j),
         CleanUntil(j, r, <<s, k>>), Succeeds(j, <<s, k>>)
  PROVE  CleanUntil(j, Append(r, <<s, k>>), <<s, k + 1>>)
<1>1. PICK at, q : at = <<s, k>> /\ q = Append(r, at)
  OBVIOUS
<1>2. /\ at \in Nat \X Nat /\ Chain(j, q, Len(r) + 1)
      /\ \A i \in 1..Len(r) : Succeeds(j, q[i])
      /\ q[Len(r) + 1] = at /\ Len(q) = Len(r) + 1 /\ Len(r) \in Nat
  BY <1>1, ChainGrows
<1>3. Prev(q, Len(q) + 1) = at
  BY <1>2 DEF Prev
<1>4. Before(at, <<s, k + 1>>)
  BY <1>1 DEF Before
<1>5. NoneBetween(j, at, <<s, k + 1>>)
  <2>1. \A e \in CleanSteps(j) : e \in Nat \X Nat
    BY DEF CleanSteps
  <2> QED BY <1>1, <2>1 DEF NoneBetween, Before
<1>6. \A i \in 1..Len(q) : Succeeds(j, q[i])
  <2> TAKE i \in 1..Len(q)
  <2>1. i \in 1..Len(r) \/ i = Len(r) + 1
    BY <1>2
  <2> QED BY <1>1, <1>2, <2>1
<1> QED BY <1>1, <1>2, <1>3, <1>4, <1>5, <1>6 DEF CleanUntil

LEMMA CleanStepFails ==
  ASSUME NEW j, NEW r \in Seq(Nat \X Nat), NEW at \in CleanSteps(j), CleanUntil(j, r, at), ~Succeeds(j, at)
  PROVE  FailsAt(j, Append(r, at), Len(r) + 1)
<1>1. /\ at \in Nat \X Nat
      /\ Chain(j, Append(r, at), Len(r) + 1)
      /\ \A i \in 1..Len(r) : Succeeds(j, Append(r, at)[i])
      /\ Append(r, at)[Len(r) + 1] = at
  BY ChainGrows
<1>2. Len(r) + 1 \in 1..Len(Append(r, at)) /\ (Len(r) + 1) - 1 = Len(r)
  BY <1>1
<1> QED BY <1>1, <1>2 DEF FailsAt

LEMMA FailureIsKept ==
  ASSUME NEW j, NEW r \in Seq(Nat \X Nat), NEW c \in Nat \X Nat, NEW n, FailsAt(j, r, n)
  PROVE  FailsAt(j, Append(r, c), n)
<1>1. n \in 1..Len(r) /\ n \in 0..Len(r)
  BY DEF FailsAt
<1>2. Chain(j, Append(r, c), n)
  BY <1>1, ChainIsKept DEF FailsAt
<1>3. \A i \in 1..n : Append(r, c)[i] = r[i]
  BY <1>1, PrevIsKept
<1>4. n \in 1..Len(Append(r, c))
  BY <1>1
<1> QED BY <1>1, <1>2, <1>3, <1>4 DEF FailsAt

LEMMA ChainsAgree ==
  ASSUME NEW j, NEW r, NEW q, NEW n \in Nat, NEW m \in Nat, Chain(j, r, n), Chain(j, q, m)
  PROVE  \A i \in 1..n : i <= m => r[i] = q[i]
<1> DEFINE S == {i \in Nat : i \in 1..n /\ i <= m => r[i] = q[i]}
<1>1. ASSUME NEW i \in Nat, \A k \in 0 .. i - 1 : k \in S PROVE i \in S
  <2>1. SUFFICES ASSUME i \in 1..n, i <= m PROVE r[i] = q[i]
    OBVIOUS
  <2>2. PICK p : p = Prev(r, i) /\ p = Prev(q, i)
    <3>1. CASE i = 1
      BY <3>1 DEF Prev
    <3>2. CASE i # 1
      <4>1. i - 1 \in 0 .. i - 1 /\ i - 1 \in 1..n /\ i - 1 <= m
        BY <2>1, <3>2
      <4>2. r[i - 1] = q[i - 1]
        BY <1>1, <4>1
      <4> QED BY <3>2, <4>2 DEF Prev
    <3> QED BY <3>1, <3>2
  <2>3. /\ r[i] \in CleanSteps(j) /\ Before(p, r[i]) /\ NoneBetween(j, p, r[i])
        /\ q[i] \in CleanSteps(j) /\ Before(p, q[i]) /\ NoneBetween(j, p, q[i])
    <3>1. i \in 1..n /\ i \in 1..m
      BY <2>1
    <3> QED BY <2>2, <3>1 DEF Chain
  <2>4. ~Before(r[i], q[i]) /\ ~Before(q[i], r[i])
    BY <2>3 DEF NoneBetween
  <2>5. r[i] \in Nat \X Nat /\ q[i] \in Nat \X Nat
    BY <2>3 DEF CleanSteps
  <2> QED BY <2>4, <2>5 DEF Before
<1> HIDE DEF S
<1>2. \A i \in Nat : i \in S
  BY <1>1, Upwards
<1> QED BY <1>2 DEF S

\* A loop that ended executed n clean steps before it was over or one of them failed.
Ended(j, v, r, n) ==
    \/ v = "success" /\ n = Len(r) /\ CleanUntil(j, r, <<Len(j) + 1, 0>>)
    \/ v = "failed" /\ FailsAt(j, r, n)

LEMMA EndedIs ==
  ASSUME NEW j, NEW v, NEW r \in Seq(Nat \X Nat), NEW n, Ended(j, v, r, n)
  PROVE  n \in 0..Len(r) /\ Chain(j, r, n) /\ \A i \in 1 .. n - 1 : Succeeds(j, r[i])
<1>1. CASE v = "success" /\ n = Len(r) /\ CleanUntil(j, r, <<Len(j) + 1, 0>>)
  BY <1>1 DEF CleanUntil
<1>2. CASE v = "failed" /\ FailsAt(j, r, n)
  BY <1>2 DEF FailsAt
<1> QED BY <1>1, <1>2 DEF Ended

LEMMA NoneStopsBefore ==
  ASSUME NEW j, Len(j) \in Nat, NEW v, NEW r \in Seq(Nat \X Nat), NEW n, Ended(j, v, r, n),
         NEW w, NEW q \in Seq(Nat \X Nat), NEW m, Ended(j, w, q, m)
  PROVE  n <= m
<1>1. /\ n \in 0..Len(r) /\ m \in 0..Len(q) /\ Chain(j, r, n) /\ Chain(j, q, m)
      /\ \A i \in 1 .. n - 1 : Succeeds(j, r[i])
  BY EndedIs
<1>2. \A i \in 1..n : i <= m => r[i] = q[i]
  BY <1>1, ChainsAgree
<1>3. SUFFICES ASSUME m < n PROVE FALSE
  BY <1>1
<1>4. CASE w = "success" /\ m = Len(q) /\ CleanUntil(j, q, <<Len(j) + 1, 0>>)
  <2>1. Prev(r, m + 1) = Prev(q, m + 1)
    BY <1>1, <1>2, <1>3 DEF Prev
  <2>2. r[m + 1] \in CleanSteps(j) /\ Before(Prev(r, m + 1), r[m + 1])
    <3>1. m + 1 \in 1..n
      BY <1>1, <1>3
    <3> QED BY <1>1, <3>1 DEF Chain
  <2>3. Before(r[m + 1], <<Len(j) + 1, 0>>)
    BY <2>2 DEF Before, CleanSteps
  <2>4. NoneBetween(j, Prev(q, m + 1), <<Len(j) + 1, 0>>)
    BY <1>4 DEF CleanUntil
  <2> QED BY <2>1, <2>2, <2>3, <2>4 DEF NoneBetween
<1>5. CASE w = "failed" /\ FailsAt(j, q, m)
  <2>1. m \in 1..Len(q) /\ ~Succeeds(j, q[m])
    BY <1>5 DEF FailsAt
  <2>2. m \in 1 .. n - 1 /\ m \in 1..n
    BY <1>1, <1>3, <2>1
  <2> QED BY <1>1, <1>2, <2>1, <2>2
<1> QED BY <1>4, <1>5 DEF Ended

LEMMA EndsAgree ==
  ASSUME NEW j, Len(j) \in Nat, NEW v, NEW r \in Seq(Nat \X Nat), NEW n, Ended(j, v, r, n),
         NEW w, NEW q \in Seq(Nat \X Nat), NEW m, Ended(j, w, q, m)
  PROVE  v = w /\ n = m /\ n <= Len(q) /\ \A i \in 1..n : r[i] = q[i]
<1>1. /\ n \in 0..Len(r) /\ m \in 0..Len(q) /\ Chain(j, r, n) /\ Chain(j, q, m)
  BY EndedIs
<1>2. n <= m /\ m <= n
  BY NoneStopsBefore
<1>3. n = m
  BY <1>1, <1>2
<1>4. \A i \in 1..n : r[i] = q[i]
  BY <1>1, <1>3, ChainsAgree
<1>5. ASSUME NEW a, NEW b, Ended(j, "success", a, n), Ended(j, "failed", b, n), \A i \in 1..n : a[i] = b[i]
      PROVE  FALSE
  <2>1. n = Len(a) /\ \A i \in 1..Len(a) : Succeeds(j, a[i])
    BY <1>5 DEF Ended, CleanUntil
  <2>2. n \in 1..Len(b) /\ ~Succeeds(j, b[n])
    BY <1>5 DEF Ended, FailsAt
  <2>3. n \in 1..n
    BY <2>2
  <2> QED BY <1>5, <2>1, <2>2, <2>3
<1>6. v \in {"success", "failed"} /\ w \in {"success", "failed"}
  BY DEF Ended
<1>7. \A i \in 1..n : q[i] = r[i]
  BY <1>4
<1> QED BY <1>1, <1>3, <1>4, <1>5, <1>6, <1>7

(***************************************************************************)
(* The invariant of the loops, in parts.                                   *)
(***************************************************************************)
Three == {"failFast", "keepGoing", "remote"}
StepSeq == Seq(Nat \X Nat)
Endings == [verdict : {"success", "failed", "cancelled", "interrupted"}, ran : StepSeq]

StageTypes ==
    /\ loop \in Three \cup {"none", "compared"}
    /\ loop = "none" => job = <<>>
    /\ loop # "none" => IsJob(job) /\ statuses \in [1..Len(job) -> {"none", "success", "failed", "skipped"}]
    /\ loop = "none" => statuses = <<>>
    /\ place \in [stage : Nat \ {0}, step : Nat] /\ (loop # "none" => place.stage <= Len(job) + 1)
    /\ failing \in BOOLEAN /\ failures \in BOOLEAN
    /\ ran \in StepSeq
    /\ context \in {"live", "cancelled", "expired", "shutdown"}
    /\ verdict \in {"none", "success", "failed", "cancelled", "interrupted"}
    /\ verdicts \in Seq(Endings)

Phases ==
    /\ verdict # "none" => loop \in Three
    /\ loop = "none" => verdicts = <<>>
    /\ loop = "failFast" => Len(verdicts) = 0 /\ ~failing /\ ~failures
    /\ loop = "keepGoing" => Len(verdicts) = 1
    /\ loop = "remote" => Len(verdicts) = 2
    /\ loop \notin Three => place = [stage |-> 1, step |-> 0] /\ ran = <<>>
    /\ place.stage > Len(job) => place.step = 0
    /\ place.step = 0 => ~failing
    /\ place.step = 0 /\ place.stage = 1 => ~failures

Honest ==
    /\ verdict = "none" => (Failed(ran) <=> failing \/ failures)
    /\ VerdictIsHonest

Needed ==
    /\ NeedsSucceeded
    /\ loop # "none" =>
          /\ \A s \in 1..Len(job) : s >= place.stage => statuses[s] = "none"
          /\ place.step > 0 /\ job[place.stage].if = <<>> =>
                \A d \in job[place.stage].needs : statuses[d] = "success"

Posted == (verdict = "none" => posts = <<>>) /\ PostStepsRunOnce

\* As long as nothing has failed, the loops are in the same places.
Tracked ==
    /\ ~failing /\ ~failures /\ loop # "none" =>
          /\ \A d \in 1..Len(job) : d < place.stage => statuses[d] = CleanStatuses(job)[d]
          /\ place.step > 0 => EntersClean(job, place.stage)
    /\ verdict = "none" /\ ~failing /\ ~failures /\ loop # "none" /\ Live =>
          CleanUntil(job, ran, <<place.stage, place.step>>)
    /\ verdict = "none" /\ (failing \/ failures) => \E n : FailsAt(job, ran, n)
    /\ verdict \in {"success", "failed"} /\ Live =>
          \E n : Ended(job, verdict, ran, n) /\ (loop = "failFast" => n = Len(ran))

Recorded ==
    \A i \in DOMAIN verdicts :
        \E n : Ended(job, verdicts[i].verdict, verdicts[i].ran, n) /\ (i = 1 => n = Len(verdicts[1].ran))

StageInv == StageTypes /\ Phases /\ Honest /\ Needed /\ Posted /\ Tracked /\ Recorded

LEMMA StageInitInv == StageInit => StageInv
<1> SUFFICES ASSUME StageInit PROVE StageInv
  OBVIOUS
<1>1. StageTypes
  <2>1. ran \in StepSeq /\ verdicts \in Seq(Endings)
    BY DEF StageInit, StepSeq
  <2>2. place \in [stage : Nat \ {0}, step : Nat]
    BY DEF StageInit
  <2> QED BY <2>1, <2>2 DEF StageInit, StageTypes, Three
<1>2. Phases
  BY DEF StageInit, Phases, Three
<1>3. Honest
  BY DEF StageInit, Honest, VerdictIsHonest, Failed
<1>4. Needed
  BY DEF StageInit, Needed, NeedsSucceeded, Stages
<1>5. Posted
  BY DEF StageInit, Posted, PostStepsRunOnce
<1>6. Tracked
  BY DEF StageInit, Tracked
<1>7. Recorded
  BY DEF StageInit, Recorded
<1> QED BY <1>1, <1>2, <1>3, <1>4, <1>5, <1>6, <1>7 DEF StageInv

LEMMA RecordedAgree == StageInv => LoopsAgree
<1> SUFFICES ASSUME StageInv, loop = "compared" PROVE LoopsAgree!2
  BY DEF LoopsAgree
<1>1. ASSUME NEW i \in DOMAIN verdicts
      PROVE  /\ verdicts[i].verdict = verdicts[1].verdict
             /\ Len(verdicts[i].ran) >= Len(verdicts[1].ran)
             /\ SubSeq(verdicts[i].ran, 1, Len(verdicts[1].ran)) = verdicts[1].ran
  <2>1. 1 \in DOMAIN verdicts
    BY <1>1 DEF StageInv, StageTypes
  <2>2. PICK r, q, v, w : /\ r = verdicts[1].ran /\ q = verdicts[i].ran
                          /\ v = verdicts[1].verdict /\ w = verdicts[i].verdict
    OBVIOUS
  <2>3. r \in Seq(Nat \X Nat) /\ q \in Seq(Nat \X Nat)
    <3>1. verdicts \in Seq(Endings)
      BY DEF StageInv, StageTypes
    <3>2. \A k \in DOMAIN verdicts : verdicts[k] \in Endings
      BY <3>1
    <3> QED BY <1>1, <2>1, <2>2, <3>2 DEF StepSeq, Endings
  <2>4. PICK n : Ended(job, v, r, n) /\ n = Len(r)
    BY <2>1, <2>2 DEF StageInv, Recorded
  <2>5. PICK m : Ended(job, w, q, m)
    BY <1>1, <2>2 DEF StageInv, Recorded
  <2>6. /\ v = w /\ n <= Len(q)
        /\ \A k \in 1..n : r[k] = q[k]
    <3>1. Len(job) \in Nat
      BY <1>1 DEF StageInv, StageTypes, IsJob
    <3> QED BY <2>3, <2>4, <2>5, <3>1, EndsAgree
  <2>7. Len(r) <= Len(q) /\ \A k \in 1..Len(r) : q[k] = r[k]
    BY <2>4, <2>6
  <2>8. SubSeq(q, 1, Len(r)) = r
    <3>1. SubSeq(q, 1, Len(r)) = [k \in 1..Len(r) |-> q[k]]
      BY <2>3, <2>7
    <3>2. r = [k \in 1..Len(r) |-> r[k]]
      BY <2>3
    <3> QED BY <2>7, <3>1, <3>2
  <2> QED BY <2>2, <2>3, <2>6, <2>7, <2>8
<1> QED BY <1>1

\* What a loop decides on the way into a stage and in front of a step.
LEMMA StageRunsAs ==
  ASSUME StageInv, loop \in Three, place.step = 0, place.stage \in Stages
  PROVE  /\ place.stage \in 1..Len(job)
         /\ StageRuns(place.stage) /\ job[place.stage].if = <<>> =>
               \A d \in job[place.stage].needs : statuses[d] = "success"
         /\ ~failures => (StageRuns(place.stage) <=> EntersClean(job, place.stage))
<1> DEFINE s == place.stage
<1>1. IsJob(job) /\ s \in 1..Len(job) /\ statuses \in [1..Len(job) -> {"none", "success", "failed", "skipped"}]
  BY DEF StageInv, StageTypes, Stages, Three, IsJob
<1>2. StageRuns(s) => job[s].matches /\ (~failures \/ job[s].if = <<>> => ShouldRunStage(job[s].if, job[s].needs, statuses))
  BY DEF StageRuns, RemoteRuns
<1>3. ~failures => (StageRuns(s) <=> job[s].matches /\ ShouldRunStage(job[s].if, job[s].needs, statuses))
  BY DEF StageRuns, RemoteRuns
<1>4. StageRuns(s) /\ job[s].if = <<>> => \A d \in job[s].needs : statuses[d] = "success"
  BY <1>2, UnconditionalStageNeedsSuccess
<1>5. ASSUME ~failures PROVE StageRuns(s) <=> EntersClean(job, s)
  <2>1. \A d \in job[s].needs : d \in 1..Len(job) /\ d < s
    BY <1>1 DEF IsJob
  <2>2. \A d \in job[s].needs : statuses[d] = CleanStatuses(job)[d]
    BY <1>5, <2>1 DEF StageInv, Tracked, Phases, Three
  <2>3. Enters(job, s, statuses) <=> EntersClean(job, s)
    BY <2>2, NeedsDecide DEF EntersClean
  <2> QED BY <1>3, <1>5, <2>3 DEF Enters
<1> QED BY <1>1, <1>4, <1>5

LEMMA StepRunsAs ==
  ASSUME StageInv, InStage, place.step \in DOMAIN Steps(place.stage)
  PROVE  /\ place.stage \in 1..Len(job) /\ place.step \in 1..Len(job[place.stage].steps)
         /\ Current = job[place.stage].steps[place.step]
         /\ ~failing /\ ~failures =>
               (StepRuns <=> <<place.stage, place.step>> \in CleanSteps(job))
<1>1. loop # "none" /\ IsJob(job) /\ place.stage \in 1..Len(job)
  BY DEF StageInv, StageTypes, InStage, Stages, IsJob
<1>2. place.step \in 1..Len(job[place.stage].steps) /\ Current = job[place.stage].steps[place.step]
  BY <1>1 DEF IsJob, Steps, Current
<1>3. ASSUME ~failing, ~failures PROVE StepRuns <=> <<place.stage, place.step>> \in CleanSteps(job)
  <2>1. EntersClean(job, place.stage)
    BY <1>1, <1>3 DEF StageInv, Tracked, InStage
  <2>2. place.stage \in Nat /\ place.step \in Nat
    BY DEF StageInv, StageTypes
  <2>3. <<place.stage, place.step>> \in CleanSteps(job) <=> RunsClean(Current)
    BY <1>1, <1>2, <2>1, <2>2 DEF CleanSteps
  <2>4. [success |-> ~failing, failure |-> failing] = [success |-> TRUE, failure |-> FALSE]
    BY <1>3 DEF StageInv, StageTypes
  <2>5. StepRuns <=> RunsClean(Current)
    BY <1>3, <2>4, Zenon DEF StepRuns, RunsClean
  <2> QED BY <2>3, <2>5
<1> QED BY <1>1, <1>2, <1>3

LEMMA ChooseJobInv == StageInv /\ ChooseJob => StageInv'
<1> SUFFICES ASSUME StageInv, ChooseJob PROVE StageInv'
  OBVIOUS
<1>1. /\ loop = "none" /\ loop' = "failFast" /\ statuses' = [s \in DOMAIN job' |-> "none"]
      /\ place' = place /\ failing' = failing /\ failures' = failures /\ ran' = ran /\ context' = context
      /\ posts' = posts /\ verdict' = verdict /\ verdicts' = verdicts
  BY DEF ChooseJob, StageInv, StageTypes
<1>2. IsJob(job')
  <2>1. IsPipeline(job')
    BY StageAssumption DEF ChooseJob
  <2>2. PICK j : j = job'
    OBVIOUS
  <2>3. j \in Seq(Stage) /\ \A s \in DOMAIN j : j[s].needs \subseteq 1 .. s - 1
    BY <2>1, <2>2 DEF IsPipeline
  <2>4. ASSUME NEW s \in DOMAIN j
        PROVE  /\ Len(j[s].steps) \in Nat /\ DOMAIN j[s].steps = 1..Len(j[s].steps)
               /\ \A k \in 1..Len(j[s].steps) : j[s].steps[k].result \in {"ok", "fail", "slow"}
    <3>1. j[s] \in Stage
      BY <2>3
    <3>2. j[s].steps \in Seq(Step)
      BY <3>1 DEF Stage
    <3>3. \A k \in DOMAIN j[s].steps : j[s].steps[k] \in Step
      BY <3>2
    <3>4. \A k \in DOMAIN j[s].steps : j[s].steps[k].result \in {"ok", "fail", "slow"}
      BY <3>3 DEF Step
    <3> QED BY <3>2, <3>4
  <2>5. Len(j) \in Nat /\ DOMAIN j = 1..Len(j)
    BY <2>3
  <2> QED BY <2>2, <2>3, <2>4, <2>5 DEF IsJob
<1>3. /\ place = [stage |-> 1, step |-> 0] /\ verdicts = <<>> /\ verdict = "none"
      /\ ~failing /\ ~failures /\ ran = <<>> /\ posts = <<>>
  BY <1>1 DEF StageInv, Phases, Posted, StageTypes, Three
<1>4. StageTypes'
  <2>1. statuses' \in [1..Len(job') -> {"none", "success", "failed", "skipped"}]
    BY <1>1, <1>2 DEF IsJob
  <2>2. Len(job') \in Nat
    BY <1>2 DEF IsJob
  <2>3. place'.stage <= Len(job') + 1
    BY <1>1, <1>3, <2>2
  <2> QED BY <1>1, <1>2, <2>1, <2>3 DEF StageInv, StageTypes, Three
<1>5. Phases'
  <2>1. Len(verdicts') = 0 /\ place'.stage = 1 /\ place'.step = 0
    BY <1>1, <1>3
  <2> QED BY <1>1, <1>3, <2>1 DEF Phases, Three
<1>6. Honest'
  BY <1>1, <1>3 DEF Honest, VerdictIsHonest, Failed
<1>7. Needed'
  BY <1>1, <1>2, <1>3 DEF Needed, NeedsSucceeded, Stages, IsJob
<1>8. Posted'
  BY <1>1, <1>3 DEF Posted, PostStepsRunOnce
<1>9. Tracked'
  <2>1. CleanUntil(job', ran', <<place'.stage, place'.step>>)
    <3>1. ran' = <<>> /\ <<place'.stage, place'.step>> = <<1, 0>>
      BY <1>1, <1>3
    <3>2. PICK j : j = job'
      OBVIOUS
    <3> QED BY <3>1, <3>2, CleanAtStart
  <2>2. place'.stage = 1 /\ place'.step = 0
    BY <1>1, <1>3
  <2> QED BY <1>1, <1>3, <2>1, <2>2 DEF Tracked
<1>10. Recorded'
  BY <1>1, <1>3 DEF Recorded
<1> QED BY <1>4, <1>5, <1>6, <1>7, <1>8, <1>9, <1>10 DEF StageInv

LEMMA EnterStageInv == StageInv /\ EnterStage => StageInv'
<1> SUFFICES ASSUME StageInv, EnterStage PROVE StageInv'
  OBVIOUS
<1> DEFINE s == place.stage
<1>1. /\ loop \in Three /\ verdict = "none" /\ place.step = 0 /\ s \in Stages
      /\ job' = job /\ loop' = loop /\ failing' = failing /\ failures' = failures /\ ran' = ran
      /\ context' = context /\ posts' = posts /\ verdict' = verdict /\ verdicts' = verdicts
  BY DEF EnterStage, Three
<1>2. /\ s \in 1..Len(job)
      /\ StageRuns(s) /\ job[s].if = <<>> => \A d \in job[s].needs : statuses[d] = "success"
      /\ ~failures => (StageRuns(s) <=> EntersClean(job, s))
  BY <1>1, StageRunsAs
<1>3. /\ place \in [stage : Nat \ {0}, step : Nat] /\ place = [stage |-> s, step |-> 0]
      /\ ~failing /\ (s = 1 => ~failures)
  BY <1>1 DEF StageInv, StageTypes, Phases
<1>4. \/ StageRuns(s) /\ place' = [stage |-> s, step |-> 1] /\ statuses' = statuses
      \/ /\ ~StageRuns(s) /\ place' = [stage |-> s + 1, step |-> 0]
         /\ statuses' = [statuses EXCEPT ![s] = "skipped"]
  BY <1>3 DEF EnterStage
<1>5. /\ loop # "none" /\ IsJob(job) /\ statuses \in [1..Len(job) -> {"none", "success", "failed", "skipped"}]
      /\ \A d \in 1..Len(job) : d >= s => statuses[d] = "none"
  BY <1>1 DEF StageInv, StageTypes, Needed, Three
<1>6. StageTypes'
  BY <1>1, <1>2, <1>4, <1>5 DEF StageInv, StageTypes
<1>7. Phases'
  BY <1>1, <1>2, <1>3, <1>4 DEF StageInv, Phases
<1>8. Honest'
  BY <1>1 DEF StageInv, Honest, VerdictIsHonest, Failed
<1>9. Needed'
  <2>1. \A d \in 1..Len(job) : statuses'[d] \in {"success", "failed"} => statuses'[d] = statuses[d]
    BY <1>2, <1>4, <1>5
  <2>2. \A d \in 1..Len(job) : statuses[d] = "success" => statuses'[d] = statuses[d]
    BY <1>2, <1>4, <1>5
  <2>3. \A d \in 1..Len(job) : job[d].needs \subseteq 1..Len(job)
    BY <1>5 DEF IsJob
  <2>4. NeedsSucceeded'
    <3>1. Stages = 1..Len(job) /\ Stages' = 1..Len(job)
      BY <1>1, <1>5 DEF Stages, IsJob
    <3>2. ASSUME NEW t \in 1..Len(job), statuses'[t] \in {"success", "failed"}, job[t].if = <<>>, NEW d \in job[t].needs
          PROVE  statuses'[d] = "success"
      <4>1. statuses[t] \in {"success", "failed"}
        BY <2>1, <3>2
      <4>2. statuses[d] = "success"
        BY <3>1, <3>2, <4>1 DEF StageInv, Needed, NeedsSucceeded
      <4> QED BY <2>2, <2>3, <3>2, <4>2
    <3> QED BY <1>1, <3>1, <3>2 DEF NeedsSucceeded
  <2>5. \A d \in 1..Len(job) : d >= place'.stage => statuses'[d] = "none"
    BY <1>2, <1>4, <1>5
  <2>6. place'.step > 0 /\ job[place'.stage].if = <<>> => \A d \in job[place'.stage].needs : statuses'[d] = "success"
    BY <1>2, <1>4
  <2> QED BY <1>1, <2>4, <2>5, <2>6 DEF Needed
<1>10. Posted'
  BY <1>1 DEF StageInv, Posted, PostStepsRunOnce
<1>11. Tracked'
  <2>1. ASSUME ~failures
        PROVE  /\ \A d \in 1..Len(job) : d < place'.stage => statuses'[d] = CleanStatuses(job)[d]
               /\ place'.step > 0 => EntersClean(job, place'.stage)
    <3>1. \A d \in 1..Len(job) : d < s => statuses[d] = CleanStatuses(job)[d]
      BY <1>3, <1>5, <2>1 DEF StageInv, Tracked
    <3>2. CASE StageRuns(s)
      BY <1>2, <1>4, <2>1, <3>1, <3>2
    <3>3. CASE ~StageRuns(s)
      <4>1. ~EntersClean(job, s)
        BY <1>2, <2>1, <3>3
      <4>2. CleanStatuses(job)[s] = "skipped"
        BY <1>2, <1>5, <4>1, CleanStatusesAre DEF EntersClean, OutcomeAfter
      <4>3. \A d \in 1..Len(job) : statuses'[d] = IF d = s THEN "skipped" ELSE statuses[d]
        BY <1>4, <1>5, <3>3
      <4>4. place'.stage = s + 1 /\ place'.step = 0
        BY <1>4, <3>3
      <4>5. \A d \in 1..Len(job) : d < s + 1 => d < s \/ d = s
        BY <1>2
      <4> QED BY <3>1, <4>2, <4>3, <4>4, <4>5
    <3> QED BY <3>2, <3>3
  <2>2. ASSUME ~failures, Live PROVE CleanUntil(job, ran, <<place'.stage, place'.step>>)
    <3>1. CleanUntil(job, ran, <<s, 0>>)
      BY <1>1, <1>3, <1>5, <2>2 DEF StageInv, Tracked
    <3>2. PICK at, to : at = <<s, 0>> /\ to = <<place'.stage, place'.step>>
      OBVIOUS
    <3>3. at \in Nat \X Nat /\ to \in Nat \X Nat /\ Before(at, to)
      BY <1>2, <1>4, <3>2 DEF Before
    <3>4. ASSUME NEW c \in CleanSteps(job) PROVE Before(c, at) \/ ~Before(c, to)
      <4>1. c \in Nat \X Nat /\ c[2] >= 1 /\ EntersClean(job, c[1])
        BY DEF CleanSteps
      <4>2. CASE StageRuns(s)
        BY <1>2, <1>4, <3>2, <4>1, <4>2 DEF Before
      <4>3. CASE ~StageRuns(s)
        <5>1. c[1] # s
          BY <1>2, <2>2, <4>1, <4>3
        <5> QED BY <1>2, <1>4, <3>2, <4>1, <4>3, <5>1 DEF Before
      <4> QED BY <4>2, <4>3
    <3>5. ran \in Seq(Nat \X Nat)
      BY DEF StageInv, StageTypes, StepSeq
    <3>6. CleanUntil(job, ran, to)
      BY <3>1, <3>2, <3>3, <3>4, <3>5, CleanMoves
    <3> QED BY <3>2, <3>6
  <2>3. Live' <=> Live
    BY <1>1 DEF Live
  <2>4. failures => \E n : FailsAt(job, ran, n)
    BY <1>1 DEF StageInv, Tracked
  <2> QED BY <1>1, <1>3, <2>1, <2>2, <2>3, <2>4 DEF Tracked
<1>12. Recorded'
  BY <1>1 DEF StageInv, Recorded
<1> QED BY <1>6, <1>7, <1>8, <1>9, <1>10, <1>11, <1>12 DEF StageInv

LEMMA SkipStepInv == StageInv /\ SkipStep => StageInv'
<1> SUFFICES ASSUME StageInv, SkipStep PROVE StageInv'
  OBVIOUS
<1> DEFINE s == place.stage
           k == place.step
<1>1. /\ InStage /\ verdict = "none" /\ k > 0 /\ k \in DOMAIN Steps(s) /\ ~StepRuns
      /\ job' = job /\ loop' = loop /\ statuses' = statuses /\ failing' = failing /\ failures' = failures
      /\ ran' = ran /\ context' = context /\ posts' = posts /\ verdict' = verdict /\ verdicts' = verdicts
  BY DEF SkipStep, InStage
<1>2. s \in 1..Len(job) /\ (~failing /\ ~failures => <<s, k>> \notin CleanSteps(job))
  BY <1>1, StepRunsAs
<1>3. place \in [stage : Nat \ {0}, step : Nat] /\ place' = [stage |-> s, step |-> k + 1] /\ loop \in Three
  <2>1. place \in [stage : Nat \ {0}, step : Nat]
    BY DEF StageInv, StageTypes
  <2> QED BY <1>1, <2>1 DEF SkipStep, NextStep, StageInv, Phases
<1>4. StageTypes'
  BY <1>1, <1>2, <1>3 DEF StageInv, StageTypes
<1>5. Phases'
  BY <1>1, <1>2, <1>3 DEF StageInv, Phases
<1>6. Honest'
  BY <1>1 DEF StageInv, Honest, VerdictIsHonest, Failed
<1>7. Needed'
  BY <1>1, <1>3 DEF StageInv, Needed, NeedsSucceeded, Stages
<1>8. Posted'
  BY <1>1 DEF StageInv, Posted, PostStepsRunOnce
<1>9. Tracked'
  <2>1. ASSUME ~failing, ~failures, Live PROVE CleanUntil(job, ran, <<place'.stage, place'.step>>)
    <3>1. PICK at, to : at = <<s, k>> /\ to = <<place'.stage, place'.step>>
      OBVIOUS
    <3>2. CleanUntil(job, ran, at)
      BY <1>1, <1>3, <2>1, <3>1 DEF StageInv, Tracked, Three
    <3>3. at \in Nat \X Nat /\ to \in Nat \X Nat /\ Before(at, to)
      BY <1>3, <3>1 DEF Before
    <3>4. ASSUME NEW c \in CleanSteps(job) PROVE Before(c, at) \/ ~Before(c, to)
      <4>1. c \in Nat \X Nat /\ c # at
        BY <1>2, <2>1, <3>1 DEF CleanSteps
      <4> QED BY <1>3, <3>1, <4>1 DEF Before
    <3>5. ran \in Seq(Nat \X Nat)
      BY DEF StageInv, StageTypes, StepSeq
    <3>6. CleanUntil(job, ran, to)
      BY <3>2, <3>3, <3>4, <3>5, CleanMoves
    <3> QED BY <3>1, <3>6
  <2>2. Live' <=> Live
    BY <1>1 DEF Live
  <2> QED BY <1>1, <1>3, <2>1, <2>2 DEF StageInv, Tracked
<1>10. Recorded'
  BY <1>1 DEF StageInv, Recorded
<1> QED BY <1>4, <1>5, <1>6, <1>7, <1>8, <1>9, <1>10 DEF StageInv

FailedIn(j, r) == \E i \in 1..Len(r) : ~Succeeds(j, r[i])

LEMMA FailedIs == StageTypes => (Failed(ran) <=> FailedIn(job, ran))
<1> SUFFICES ASSUME StageTypes PROVE Failed(ran) <=> FailedIn(job, ran)
  OBVIOUS
<1>1. DOMAIN ran = 1..Len(ran)
  BY DEF StageTypes, StepSeq
<1> QED BY <1>1 DEF Failed, FailedIn, Succeeds

LEMMA FailedAfter ==
  ASSUME NEW j, NEW r \in StepSeq, NEW c \in Nat \X Nat
  PROVE  FailedIn(j, Append(r, c)) <=> FailedIn(j, r) \/ ~Succeeds(j, c)
<1>1. r \in Seq(Nat \X Nat)
  BY DEF StepSeq
<1>2. PICK q : q = Append(r, c)
  OBVIOUS
<1>3. Len(q) = Len(r) + 1 /\ q[Len(r) + 1] = c /\ \A i \in 1..Len(r) : q[i] = r[i]
  BY <1>1, <1>2
<1>4. \A i : i \in 1..Len(q) <=> i \in 1..Len(r) \/ i = Len(r) + 1
  BY <1>1, <1>3
<1> QED BY <1>2, <1>3, <1>4 DEF FailedIn

\* The step a loop executes next, and what it knows of the steps it has executed.
LEMMA StepIsRun ==
  ASSUME StageInv, RunsStep
  PROVE  /\ verdict = "none" /\ loop \in Three /\ place.step > 0 /\ place.stage \in 1..Len(job)
         /\ place \in [stage : Nat \ {0}, step : Nat]
         /\ place.step \in 1..Len(job[place.stage].steps) /\ Len(job[place.stage].steps) \in Nat
         /\ Steps(place.stage) = job[place.stage].steps
         /\ ran' = Append(ran, <<place.stage, place.step>>) /\ ran \in Seq(Nat \X Nat) /\ ran' \in StepSeq
         /\ (Current.result = "ok" <=> Succeeds(job, <<place.stage, place.step>>))
         /\ Current.result \in {"ok", "fail", "slow"}
         /\ FailedIn(job, ran) <=> failing \/ failures
         /\ FailedIn(job, ran') <=> failing \/ failures \/ ~Succeeds(job, <<place.stage, place.step>>)
         /\ ~failing /\ ~failures /\ Live => /\ <<place.stage, place.step>> \in CleanSteps(job)
                                             /\ CleanUntil(job, ran, <<place.stage, place.step>>)
<1>1. InStage /\ place.step \in DOMAIN Steps(place.stage) /\ StepRuns /\ ran' = Append(ran, <<place.stage, place.step>>)
  BY DEF RunsStep
<1>2. verdict = "none" /\ place.step > 0
  BY <1>1 DEF InStage
<1>3. place \in [stage : Nat \ {0}, step : Nat] /\ ran \in StepSeq /\ ran \in Seq(Nat \X Nat)
  BY DEF StageInv, StageTypes, StepSeq
<1>4. loop \in Three /\ IsJob(job)
  BY <1>2 DEF StageInv, StageTypes, Phases, Three
<1>5. /\ place.stage \in 1..Len(job) /\ place.step \in 1..Len(job[place.stage].steps)
      /\ Current = job[place.stage].steps[place.step]
      /\ ~failing /\ ~failures => <<place.stage, place.step>> \in CleanSteps(job)
  BY <1>1, StepRunsAs
<1>6. <<place.stage, place.step>> \in Nat \X Nat
  BY <1>3
<1>7. ran' \in StepSeq
  BY <1>1, <1>3, <1>6 DEF StepSeq
<1>8. /\ Current.result = "ok" <=> Succeeds(job, <<place.stage, place.step>>)
      /\ Current.result \in {"ok", "fail", "slow"}
  BY <1>4, <1>5 DEF Succeeds, IsJob
<1>9. FailedIn(job, ran) <=> failing \/ failures
  BY <1>2, FailedIs DEF StageInv, Honest
<1>10. FailedIn(job, ran') <=> failing \/ failures \/ ~Succeeds(job, <<place.stage, place.step>>)
  BY <1>1, <1>3, <1>6, <1>9, FailedAfter
<1>11. ~failing /\ ~failures /\ Live => CleanUntil(job, ran, <<place.stage, place.step>>)
  BY <1>2, <1>4 DEF StageInv, Tracked, Three
<1>12. Len(job[place.stage].steps) \in Nat /\ Steps(place.stage) = job[place.stage].steps
  BY <1>4, <1>5 DEF IsJob, Steps
<1> QED BY <1>1, <1>2, <1>3, <1>4, <1>5, <1>7, <1>8, <1>9, <1>10, <1>11, <1>12

LEMMA StepSucceedsInv == StageInv /\ StepSucceeds => StageInv'
<1> SUFFICES ASSUME StageInv, StepSucceeds PROVE StageInv'
  OBVIOUS
<1> DEFINE s == place.stage
           k == place.step
<1>1. /\ RunsStep /\ Current.result = "ok" /\ Live
      /\ job' = job /\ loop' = loop /\ statuses' = statuses /\ failing' = failing /\ failures' = failures
      /\ context' = context /\ posts' = posts /\ verdict' = verdict /\ verdicts' = verdicts
  BY DEF StepSucceeds, CompletedStepError
<1>2. /\ verdict = "none" /\ loop \in Three /\ k > 0 /\ s \in 1..Len(job) /\ place \in [stage : Nat \ {0}, step : Nat]
      /\ ran' = Append(ran, <<s, k>>) /\ ran \in Seq(Nat \X Nat) /\ ran' \in StepSeq
      /\ Succeeds(job, <<s, k>>)
      /\ FailedIn(job, ran') <=> failing \/ failures
      /\ ~failing /\ ~failures => <<s, k>> \in CleanSteps(job) /\ CleanUntil(job, ran, <<s, k>>)
  BY <1>1, StepIsRun
<1>3. place' = [stage |-> s, step |-> k + 1]
  BY <1>2 DEF StepSucceeds, NextStep
<1>4. StageTypes'
  BY <1>1, <1>2, <1>3 DEF StageInv, StageTypes
<1>5. Phases'
  BY <1>1, <1>2, <1>3 DEF StageInv, Phases
<1>6. Honest'
  <2>1. (Failed(ran) <=> FailedIn(job, ran))'
    BY <1>4, FailedIs, PTL
  <2> QED BY <1>1, <1>2, <2>1 DEF Honest, VerdictIsHonest
<1>7. Needed'
  BY <1>1, <1>2, <1>3 DEF StageInv, Needed, NeedsSucceeded, Stages
<1>8. Posted'
  BY <1>1 DEF StageInv, Posted, PostStepsRunOnce
<1>9. Tracked'
  <2>1. ASSUME ~failing, ~failures PROVE CleanUntil(job, ran', <<place'.stage, place'.step>>)
    <3>1. CleanUntil(job, Append(ran, <<s, k>>), <<s, k + 1>>)
      BY <1>2, <2>1, CleanStepSucceeds
    <3>2. <<place'.stage, place'.step>> = <<s, k + 1>>
      BY <1>3
    <3> QED BY <1>2, <3>1, <3>2
  <2>2. ASSUME failing \/ failures PROVE \E n : FailsAt(job, ran', n)
    <3>1. PICK n : FailsAt(job, ran, n)
      BY <1>2, <2>2 DEF StageInv, Tracked
    <3>2. FailsAt(job, ran', n)
      BY <1>2, <3>1, FailureIsKept
    <3> QED BY <3>2
  <2> QED BY <1>1, <1>2, <1>3, <2>1, <2>2 DEF StageInv, Tracked
<1>10. Recorded'
  BY <1>1 DEF StageInv, Recorded
<1> QED BY <1>4, <1>5, <1>6, <1>7, <1>8, <1>9, <1>10 DEF StageInv

LEMMA StepFailsInv == StageInv /\ StepFails => StageInv'
<1> SUFFICES ASSUME StageInv, StepFails PROVE StageInv'
  OBVIOUS
<1> DEFINE s == place.stage
           k == place.step
<1>1. /\ RunsStep /\ Current.result # "ok" /\ Live
      /\ job' = job /\ loop' = loop /\ statuses' = statuses /\ context' = context /\ verdicts' = verdicts
  BY DEF StepFails, CompletedStepError
<1>2. /\ verdict = "none" /\ loop \in Three /\ k > 0 /\ s \in 1..Len(job) /\ place \in [stage : Nat \ {0}, step : Nat]
      /\ Len(Steps(s)) \in Nat
      /\ ran' = Append(ran, <<s, k>>) /\ ran \in Seq(Nat \X Nat) /\ ran' \in StepSeq
      /\ ~Succeeds(job, <<s, k>>) /\ FailedIn(job, ran')
      /\ ~failing /\ ~failures => <<s, k>> \in CleanSteps(job) /\ CleanUntil(job, ran, <<s, k>>)
  BY <1>1, StepIsRun
<1>3. \/ /\ loop = "failFast" /\ verdict' = "failed" /\ posts' = Append(posts, "failure")
         /\ place' = place /\ failing' = failing /\ failures' = failures
      \/ /\ loop # "failFast" /\ verdict' = verdict /\ posts' = posts
         /\ failing' = TRUE /\ failures' \in BOOLEAN
         /\ place'.stage = s /\ place'.step > 0 /\ place' \in [stage : Nat \ {0}, step : Nat]
  <2>1. CASE loop = "failFast"
    BY <1>1, <2>1 DEF StepFails, RunPostSteps, EndsAs, Live
  <2>2. CASE loop # "failFast"
    <3>1. PICK m : m = IF Current.result = "slow" THEN Len(Steps(s)) + 1 ELSE k + 1
      OBVIOUS
    <3>2. m \in Nat /\ m > 0
      BY <1>2, <3>1
    <3>3. place' = [stage |-> s, step |-> m]
      BY <1>2, <2>2, <3>1 DEF StepFails
    <3>4. verdict' = verdict /\ posts' = posts /\ failing' = TRUE /\ failures' \in BOOLEAN
      BY <2>2 DEF StepFails
    <3> QED BY <1>2, <2>2, <3>2, <3>3, <3>4
  <2> QED BY <2>1, <2>2
<1>4. StageTypes'
  BY <1>1, <1>2, <1>3 DEF StageInv, StageTypes
<1>5. Phases'
  BY <1>1, <1>2, <1>3 DEF StageInv, Phases
<1>6. Honest'
  <2>1. (Failed(ran) <=> FailedIn(job, ran))'
    BY <1>4, FailedIs, PTL
  <2> QED BY <1>1, <1>2, <1>3, <2>1 DEF Honest, VerdictIsHonest
<1>7. Needed'
  BY <1>1, <1>2, <1>3 DEF StageInv, Needed, NeedsSucceeded, Stages
<1>8. Posted'
  BY <1>1, <1>2, <1>3 DEF StageInv, Posted, PostStepsRunOnce
<1>9. Tracked'
  <2>1. ASSUME ~failing, ~failures PROVE FailsAt(job, ran', Len(ran'))
    <3>1. FailsAt(job, Append(ran, <<s, k>>), Len(ran) + 1)
      BY <1>2, <2>1, CleanStepFails
    <3>2. Len(ran') = Len(ran) + 1
      BY <1>2
    <3> QED BY <1>2, <3>1, <3>2
  <2>2. \E n : FailsAt(job, ran', n)
    <3>1. CASE ~failing /\ ~failures
      BY <2>1, <3>1
    <3>2. CASE failing \/ failures
      <4>1. PICK n : FailsAt(job, ran, n)
        BY <1>2, <3>2 DEF StageInv, Tracked
      <4>2. <<s, k>> \in Nat \X Nat
        BY <1>2
      <4>3. FailsAt(job, ran', n)
        BY <1>2, <4>1, <4>2, FailureIsKept
      <4> QED BY <4>3
    <3> QED BY <3>1, <3>2
  <2>3. CASE loop = "failFast"
    <3>1. ~failing /\ ~failures
      BY <2>3 DEF StageInv, Phases
    <3>2. Ended(job, "failed", ran', Len(ran'))
      BY <2>1, <3>1 DEF Ended
    <3> QED BY <1>1, <1>2, <1>3, <2>3, <3>1, <3>2 DEF StageInv, Tracked
  <2>4. CASE loop # "failFast"
    BY <1>1, <1>2, <1>3, <2>2, <2>4 DEF Tracked
  <2> QED BY <2>3, <2>4
<1>10. Recorded'
  BY <1>1 DEF StageInv, Recorded
<1> QED BY <1>4, <1>5, <1>6, <1>7, <1>8, <1>9, <1>10 DEF StageInv

LEMMA StepInterruptedInv == StageInv /\ StepInterrupted => StageInv'
<1> SUFFICES ASSUME StageInv, StepInterrupted PROVE StageInv'
  OBVIOUS
<1>1. /\ RunsStep
      /\ job' = job /\ loop' = loop /\ statuses' = statuses /\ context' = context /\ verdicts' = verdicts
      /\ place' = place /\ failing' = failing /\ failures' = failures
  BY DEF StepInterrupted
<1>2. verdict = "none" /\ loop \in Three /\ ran' \in StepSeq /\ Current.result \in {"ok", "fail", "slow"}
  BY <1>1, StepIsRun
<1>3. ~Live /\ ~Live'
  BY <1>1, <1>2 DEF StepInterrupted, CompletedStepError, Live
<1>4. /\ verdict' \in {"cancelled", "failed", "interrupted"}
      /\ verdict' = "interrupted" => posts' = posts
      /\ verdict' # "interrupted" => posts' = Append(posts, "failure")
  BY <1>3 DEF StepInterrupted, RunPostSteps, EndsAs, StageInv, StageTypes, Live
<1>5. StageTypes'
  BY <1>1, <1>2, <1>4 DEF StageInv, StageTypes
<1>6. Phases'
  BY <1>1, <1>2, <1>4 DEF StageInv, Phases
<1>7. Honest'
  BY <1>3, <1>4 DEF Honest, VerdictIsHonest
<1>8. Needed'
  BY <1>1 DEF StageInv, Needed, NeedsSucceeded, Stages
<1>9. Posted'
  BY <1>2, <1>4 DEF StageInv, Posted, PostStepsRunOnce
<1>10. Tracked'
  BY <1>1, <1>3, <1>4 DEF StageInv, Tracked
<1>11. Recorded'
  BY <1>1 DEF StageInv, Recorded
<1> QED BY <1>5, <1>6, <1>7, <1>8, <1>9, <1>10, <1>11 DEF StageInv

LEMMA LeaveStageInv == StageInv /\ LeaveStage => StageInv'
<1> SUFFICES ASSUME StageInv, LeaveStage PROVE StageInv'
  OBVIOUS
<1> DEFINE s == place.stage
           k == place.step
<1>1. /\ verdict = "none" /\ s \in Stages /\ k > 0 /\ k > Len(Steps(s))
      /\ statuses' = [statuses EXCEPT ![s] = IF failing THEN "failed" ELSE "success"]
      /\ failures' = (failures \/ failing) /\ failing' = FALSE /\ place' = [stage |-> s + 1, step |-> 0]
      /\ job' = job /\ loop' = loop /\ ran' = ran /\ context' = context
      /\ posts' = posts /\ verdict' = verdict /\ verdicts' = verdicts
  BY DEF LeaveStage, InStage
<1>2. /\ loop \in Three /\ loop # "none" /\ IsJob(job) /\ place \in [stage : Nat \ {0}, step : Nat]
      /\ statuses \in [1..Len(job) -> {"none", "success", "failed", "skipped"}]
  BY <1>1 DEF StageInv, StageTypes, Phases, Three
<1>3. s \in 1..Len(job) /\ Stages = 1..Len(job) /\ Stages' = 1..Len(job) /\ Steps(s) = job[s].steps
  BY <1>1, <1>2 DEF Stages, IsJob, Steps
<1>4. /\ \A d \in 1..Len(job) : d >= s => statuses[d] = "none"
      /\ job[s].if = <<>> => \A d \in job[s].needs : statuses[d] = "success"
  BY <1>1, <1>2 DEF StageInv, Needed
<1>5. /\ \A d \in 1..Len(job) : d # s => statuses'[d] = statuses[d]
      /\ statuses'[s] = IF failing THEN "failed" ELSE "success"
  BY <1>1, <1>2, <1>3
<1>6. StageTypes'
  <2>1. place' \in [stage : Nat \ {0}, step : Nat]
    BY <1>1, <1>3
  <2>2. statuses' \in [1..Len(job) -> {"none", "success", "failed", "skipped"}]
    BY <1>1, <1>2, <1>3
  <2>3. failing' \in BOOLEAN /\ failures' \in BOOLEAN
    BY <1>1
  <2> QED BY <1>1, <1>2, <2>1, <2>2, <2>3 DEF StageInv, StageTypes
<1>7. Phases'
  <2>1. place'.step = 0 /\ place'.stage # 1
    BY <1>1, <1>3
  <2>2. loop = "failFast" => ~failing /\ ~failures /\ ~failures'
    BY <1>1 DEF StageInv, Phases
  <2> QED BY <1>1, <1>2, <2>1, <2>2 DEF StageInv, Phases
<1>8. Honest'
  BY <1>1 DEF StageInv, Honest, VerdictIsHonest, Failed
<1>9. Needed'
  <2>1. \A d \in 1..Len(job) : job[d].needs \subseteq 1..Len(job)
    BY <1>2 DEF IsJob
  <2>2. \A d \in 1..Len(job) : statuses[d] = "success" => statuses'[d] = "success"
    BY <1>3, <1>4, <1>5
  <2>3. ASSUME NEW t \in 1..Len(job), statuses'[t] \in {"success", "failed"}, job[t].if = <<>>, NEW d \in job[t].needs
        PROVE  statuses'[d] = "success"
    <3>1. statuses[d] = "success"
      <4>1. CASE t = s
        BY <1>4, <2>3, <4>1
      <4>2. CASE t # s
        <5>1. statuses[t] \in {"success", "failed"}
          BY <1>5, <2>3, <4>2
        <5> QED BY <1>3, <2>3, <5>1 DEF StageInv, Needed, NeedsSucceeded
      <4> QED BY <4>1, <4>2
    <3> QED BY <2>1, <2>2, <2>3, <3>1
  <2>4. NeedsSucceeded'
    BY <1>1, <1>3, <2>3 DEF NeedsSucceeded
  <2>5. \A d \in 1..Len(job) : d >= place'.stage => statuses'[d] = "none"
    BY <1>1, <1>3, <1>4, <1>5
  <2> QED BY <1>1, <2>4, <2>5 DEF Needed
<1>10. Posted'
  BY <1>1 DEF StageInv, Posted, PostStepsRunOnce
<1>11. Tracked'
  <2>1. ASSUME ~failing, ~failures
        PROVE  \A d \in 1..Len(job) : d < place'.stage => statuses'[d] = CleanStatuses(job)[d]
    <3>1. /\ \A d \in 1..Len(job) : d < s => statuses[d] = CleanStatuses(job)[d]
          /\ EntersClean(job, s)
      BY <1>1, <1>2, <2>1 DEF StageInv, Tracked
    <3>2. CleanStatuses(job)[s] = "success"
      BY <1>2, <1>3, <3>1, CleanStatusesAre DEF EntersClean, OutcomeAfter
    <3>3. \A d \in 1..Len(job) : d < place'.stage => d < s \/ d = s
      BY <1>1, <1>3
    <3> QED BY <1>5, <2>1, <3>1, <3>2, <3>3
  <2>2. ASSUME ~failing, ~failures, Live PROVE CleanUntil(job, ran, <<place'.stage, place'.step>>)
    <3>1. PICK at, to : at = <<s, k>> /\ to = <<place'.stage, place'.step>>
      OBVIOUS
    <3>2. CleanUntil(job, ran, at)
      BY <1>1, <1>2, <2>2, <3>1 DEF StageInv, Tracked
    <3>3. at \in Nat \X Nat /\ to \in Nat \X Nat /\ Before(at, to)
      BY <1>1, <1>2, <1>3, <3>1 DEF Before
    <3>4. ASSUME NEW c \in CleanSteps(job) PROVE Before(c, at) \/ ~Before(c, to)
      <4>1. c \in Nat \X Nat /\ c[2] <= Len(job[c[1]].steps)
        BY DEF CleanSteps
      <4>2. CASE c[1] = s
        <5>1. c[2] < k
          BY <1>1, <1>2, <1>3, <4>1, <4>2 DEF IsJob
        <5> QED BY <3>1, <4>2, <5>1 DEF Before
      <4>3. CASE c[1] # s
        BY <1>1, <1>3, <3>1, <4>1, <4>3 DEF Before
      <4> QED BY <4>2, <4>3
    <3>5. ran \in Seq(Nat \X Nat)
      BY DEF StageInv, StageTypes, StepSeq
    <3>6. CleanUntil(job, ran, to)
      BY <3>2, <3>3, <3>4, <3>5, CleanMoves
    <3> QED BY <3>1, <3>6
  <2>3. Live' <=> Live
    BY <1>1 DEF Live
  <2>4. place'.stage > 1 /\ place'.step = 0
    BY <1>1, <1>3
  <2>5. failing \/ failures => \E n : FailsAt(job, ran, n)
    BY <1>1 DEF StageInv, Tracked
  <2>6. failing' \/ failures' <=> failing \/ failures
    BY <1>1
  <2>7. CASE failing \/ failures
    <3>1. ~(~failing' /\ ~failures') /\ verdict' = "none" /\ \E n : FailsAt(job', ran', n)
      BY <1>1, <2>5, <2>6, <2>7
    <3> QED BY <3>1 DEF Tracked
  <2>8. CASE ~failing /\ ~failures
    <3>1. /\ ~(failing' \/ failures') /\ verdict' = "none" /\ place'.step = 0
          /\ \A d \in 1..Len(job') : d < place'.stage => statuses'[d] = CleanStatuses(job')[d]
          /\ Live' => CleanUntil(job', ran', <<place'.stage, place'.step>>)
      BY <1>1, <2>1, <2>2, <2>3, <2>4, <2>6, <2>8
    <3> QED BY <3>1 DEF Tracked
  <2> QED BY <2>7, <2>8
<1>12. Recorded'
  BY <1>1 DEF StageInv, Recorded
<1> QED BY <1>6, <1>7, <1>8, <1>9, <1>10, <1>11, <1>12 DEF StageInv

LEMMA FinishStagesInv == StageInv /\ FinishStages => StageInv'
<1> SUFFICES ASSUME StageInv, FinishStages PROVE StageInv'
  OBVIOUS
<1>1. /\ loop \in Three /\ verdict = "none" /\ place.stage > Len(job)
      /\ job' = job /\ loop' = loop /\ place' = place /\ statuses' = statuses /\ failing' = failing
      /\ failures' = failures /\ ran' = ran /\ context' = context /\ verdicts' = verdicts
  BY DEF FinishStages, Three
<1>2. IsJob(job) /\ place \in [stage : Nat \ {0}, step : Nat] /\ posts = <<>>
  BY <1>1 DEF StageInv, StageTypes, Posted, Three
<1>3. place.stage = Len(job) + 1 /\ place.step = 0 /\ ~failing
  <2>1. place.stage = Len(job) + 1
    BY <1>1, <1>2 DEF IsJob, StageInv, StageTypes, Three
  <2> QED BY <2>1 DEF StageInv, Phases
<1>4. \/ context = "shutdown" /\ verdict' = "interrupted" /\ posts' = posts
      \/ context # "shutdown" /\ failures /\ verdict' = "failed" /\ posts' = Append(posts, "failure")
      \/ context # "shutdown" /\ ~failures /\ verdict' = "success" /\ posts' = Append(posts, "success")
  BY DEF FinishStages, RunPostSteps, EndsAs, Outcome
<1>5. FailedIn(job, ran) <=> failures
  BY <1>1, <1>3, FailedIs DEF StageInv, Honest
<1>6. StageTypes'
  BY <1>1, <1>4 DEF StageInv, StageTypes
<1>7. Phases'
  BY <1>1 DEF StageInv, Phases
<1>8. Honest'
  <2>1. Failed(ran)' <=> failures
    <3>1. (Failed(ran) <=> FailedIn(job, ran))'
      BY <1>6, FailedIs, PTL
    <3> QED BY <1>1, <1>5, <3>1
  <2>2. Live' <=> context = "live"
    BY <1>1 DEF Live
  <2> QED BY <1>4, <2>1, <2>2 DEF Honest, VerdictIsHonest
<1>9. Needed'
  BY <1>1 DEF StageInv, Needed, NeedsSucceeded, Stages
<1>10. Posted'
  BY <1>2, <1>4 DEF Posted, PostStepsRunOnce
<1>11. Tracked'
  <2>1. ~failures /\ Live => Ended(job, "success", ran, Len(ran))
    <3>1. ASSUME ~failures, Live PROVE CleanUntil(job, ran, <<Len(job) + 1, 0>>)
      BY <1>1, <1>3, <3>1 DEF StageInv, Tracked, Three
    <3> QED BY <3>1 DEF Ended
  <2>2. failures => loop # "failFast" /\ \E n : Ended(job, "failed", ran, n)
    <3>1. failures => \E n : FailsAt(job, ran, n)
      BY <1>1 DEF StageInv, Tracked
    <3>2. failures => loop # "failFast"
      BY DEF StageInv, Phases
    <3> QED BY <3>1, <3>2 DEF Ended
  <2>3. Live' <=> Live
    BY <1>1 DEF Live
  <2>4. ~failures => \A d \in 1..Len(job) : d < place.stage => statuses[d] = CleanStatuses(job)[d]
    BY <1>1, <1>3 DEF StageInv, Tracked, Three
  <2>5. verdict' # "none" /\ (Live => verdict' = IF failures THEN "failed" ELSE "success")
    BY <1>4 DEF Live
  <2>6. verdict' \in {"success", "failed"} /\ Live' =>
            \E n : Ended(job, verdict', ran, n) /\ (loop = "failFast" => n = Len(ran))
    BY <2>1, <2>2, <2>3, <2>5
  <2> QED BY <1>1, <1>3, <2>4, <2>5, <2>6 DEF Tracked
<1>12. Recorded'
  BY <1>1 DEF StageInv, Recorded
<1> QED BY <1>6, <1>7, <1>8, <1>9, <1>10, <1>11, <1>12 DEF StageInv

LEMMA InterruptInv == StageInv /\ Interrupt => StageInv'
<1> SUFFICES ASSUME StageInv, Interrupt PROVE StageInv'
  OBVIOUS
<1>1. /\ verdict = "none" /\ context' \in {"cancelled", "expired", "shutdown"}
      /\ job' = job /\ loop' = loop /\ place' = place /\ statuses' = statuses /\ failing' = failing
      /\ failures' = failures /\ ran' = ran /\ posts' = posts /\ verdict' = verdict /\ verdicts' = verdicts
  BY StageAssumption DEF Interrupt
<1>2. ~Live'
  BY <1>1 DEF Live
<1>3. StageTypes'
  BY <1>1 DEF StageInv, StageTypes
<1>4. Phases'
  BY <1>1 DEF StageInv, Phases
<1>5. Honest'
  BY <1>1, <1>2 DEF StageInv, Honest, VerdictIsHonest, Failed
<1>6. Needed'
  BY <1>1 DEF StageInv, Needed, NeedsSucceeded, Stages
<1>7. Posted'
  BY <1>1 DEF StageInv, Posted, PostStepsRunOnce
<1>8. Tracked'
  BY <1>1, <1>2 DEF StageInv, Tracked
<1>9. Recorded'
  BY <1>1 DEF StageInv, Recorded
<1> QED BY <1>3, <1>4, <1>5, <1>6, <1>7, <1>8, <1>9 DEF StageInv

LEMMA NextLoopInv == StageInv /\ NextLoop => StageInv'
<1> SUFFICES ASSUME StageInv, NextLoop PROVE StageInv'
  OBVIOUS
<1> DEFINE e == [verdict |-> verdict, ran |-> ran]
<1>1. /\ verdict # "none" /\ Live /\ verdicts' = Append(verdicts, e)
      /\ loop' = IF Len(verdicts) = 2 THEN "compared" ELSE Loops[Len(verdicts) + 2]
      /\ place' = [stage |-> 1, step |-> 0] /\ statuses' = [t \in Stages |-> "none"]
      /\ failing' = FALSE /\ failures' = FALSE /\ ran' = <<>> /\ posts' = <<>> /\ verdict' = "none"
      /\ job' = job /\ context' = context
  BY DEF NextLoop
<1>2. /\ loop \in Three /\ IsJob(job) /\ verdict \in {"success", "failed"}
      /\ verdicts \in Seq(Endings) /\ ran \in StepSeq
  BY <1>1 DEF StageInv, StageTypes, Phases, Three, Honest, VerdictIsHonest
<1>3. \/ loop = "failFast" /\ Len(verdicts) = 0 /\ loop' = "keepGoing"
      \/ loop = "keepGoing" /\ Len(verdicts) = 1 /\ loop' = "remote"
      \/ loop = "remote" /\ Len(verdicts) = 2 /\ loop' = "compared"
  <2>1. CASE loop = "failFast"
    <3>1. Len(verdicts) = 0
      BY <2>1 DEF StageInv, Phases
    <3> QED BY <1>1, <2>1, <3>1 DEF Loops
  <2>2. CASE loop = "keepGoing"
    <3>1. Len(verdicts) = 1
      BY <2>2 DEF StageInv, Phases
    <3> QED BY <1>1, <2>2, <3>1 DEF Loops
  <2>3. CASE loop = "remote"
    <3>1. Len(verdicts) = 2
      BY <2>3 DEF StageInv, Phases
    <3> QED BY <1>1, <2>3, <3>1
  <2> QED BY <1>2, <2>1, <2>2, <2>3 DEF Three
<1>4. e \in Endings
  BY <1>2 DEF Endings
<1> HIDE DEF e
<1>5. /\ verdicts' \in Seq(Endings) /\ Len(verdicts') = Len(verdicts) + 1
      /\ \A i \in DOMAIN verdicts : verdicts'[i] = verdicts[i]
      /\ verdicts'[Len(verdicts) + 1] = e
      /\ \A i \in DOMAIN verdicts' : i \in DOMAIN verdicts \/ i = Len(verdicts) + 1
  BY <1>1, <1>2, <1>4
<1>6. Stages = 1..Len(job) /\ Stages' = 1..Len(job) /\ statuses' = [t \in 1..Len(job) |-> "none"]
  BY <1>1, <1>2 DEF IsJob, Stages
<1>7. place' \in [stage : Nat \ {0}, step : Nat] /\ place'.stage = 1 /\ place'.step = 0
  BY <1>1
<1>8. StageTypes'
  <2>1. statuses' \in [1..Len(job) -> {"none", "success", "failed", "skipped"}]
    BY <1>6
  <2>2. <<>> \in StepSeq /\ place'.stage <= Len(job) + 1
    BY <1>2, <1>7 DEF StepSeq, IsJob
  <2>3. context \in {"live", "cancelled", "expired", "shutdown"}
    BY DEF StageInv, StageTypes
  <2> QED BY <1>1, <1>2, <1>3, <1>5, <1>7, <2>1, <2>2, <2>3 DEF StageTypes, Three
<1>9. Phases'
  BY <1>1, <1>3, <1>5, <1>7 DEF Phases, Three
<1>10. Honest'
  BY <1>1 DEF Honest, VerdictIsHonest, Failed
<1>11. Needed'
  <2>1. \A t \in 1..Len(job) : statuses'[t] = "none"
    BY <1>6
  <2>2. NeedsSucceeded'
    BY <1>6, <2>1 DEF NeedsSucceeded
  <2>3. \A t \in 1..Len(job') : statuses'[t] = "none"
    BY <1>1, <2>1
  <2> QED BY <1>7, <2>2, <2>3 DEF Needed
<1>12. Posted'
  BY <1>1 DEF Posted, PostStepsRunOnce
<1>13. Tracked'
  <2>1. CleanUntil(job', ran', <<place'.stage, place'.step>>)
    <3>1. CleanUntil(job', <<>>, <<1, 0>>)
      BY CleanAtStart
    <3> QED BY <1>1, <1>7, <3>1
  <2> QED BY <1>1, <1>7, <2>1 DEF Tracked
<1>14. Recorded'
  <2>1. PICK n : Ended(job, verdict, ran, n) /\ (loop = "failFast" => n = Len(ran))
    BY <1>1, <1>2 DEF StageInv, Tracked
  <2>2. e.verdict = verdict /\ e.ran = ran
    BY DEF e
  <2>3. Len(verdicts) + 1 = 1 => loop = "failFast"
    BY <1>3
  <2>4. ASSUME NEW i \in DOMAIN verdicts'
        PROVE  \E m : Ended(job', verdicts'[i].verdict, verdicts'[i].ran, m) /\ (i = 1 => m = Len(verdicts'[1].ran))
    <3>1. CASE i = Len(verdicts) + 1
      BY <1>1, <1>5, <2>1, <2>2, <2>3, <3>1
    <3>2. CASE i \in DOMAIN verdicts
      <4>1. verdicts'[i] = verdicts[i]
        BY <1>5, <3>2
      <4>2. PICK m : Ended(job, verdicts[i].verdict, verdicts[i].ran, m) /\ (i = 1 => m = Len(verdicts[1].ran))
        BY <3>2 DEF StageInv, Recorded
      <4> QED BY <1>1, <4>1, <4>2
    <3> QED BY <1>5, <2>4, <3>1, <3>2
  <2> QED BY <2>4 DEF Recorded
<1> QED BY <1>8, <1>9, <1>10, <1>11, <1>12, <1>13, <1>14 DEF StageInv

LEMMA StageNextInv == StageInv /\ [StageNext]_stageVars => StageInv'
<1> SUFFICES ASSUME StageInv, [StageNext]_stageVars PROVE StageInv'
  OBVIOUS
<1>1. CASE UNCHANGED stageVars
  <2>1. /\ job' = job /\ loop' = loop /\ place' = place /\ statuses' = statuses /\ failing' = failing
        /\ failures' = failures /\ ran' = ran /\ context' = context /\ posts' = posts
        /\ verdict' = verdict /\ verdicts' = verdicts
    BY <1>1 DEF stageVars, loopVars
  <2>2. (StageTypes /\ Phases)' /\ Posted' /\ Recorded'
    BY <2>1 DEF StageInv, StageTypes, Phases, Posted, PostStepsRunOnce, Recorded
  <2>3. Honest' /\ Needed' /\ Tracked'
    BY <2>1 DEF StageInv, Honest, VerdictIsHonest, Failed, Live, Needed, NeedsSucceeded, Stages, Tracked
  <2> QED BY <2>2, <2>3 DEF StageInv
<1>2. CASE StageNext
  BY <1>2, ChooseJobInv, EnterStageInv, SkipStepInv, StepSucceedsInv, StepFailsInv, StepInterruptedInv,
     LeaveStageInv, FinishStagesInv, InterruptInv, NextLoopInv DEF StageNext
<1> QED BY <1>1, <1>2

(***************************************************************************)
(* The inputs of the conditions and of the order, and the theorems.        *)
(***************************************************************************)
Named == {<<>>} \cup {<<a>> : a \in 0..MaxStages} \cup {<<a, b>> : a, b \in 0..MaxStages}
ProbeInv == probe \in [condition : Seq(Tokens), dependsOn : Seq(Named)]

LEMMA ProbeNextInv == ProbeInv /\ [PipelineNext]_probe => ProbeInv'
<1>1. ASSUME ProbeInv, AddToken PROVE ProbeInv'
  <2>1. PICK token \in Tokens : probe' = [probe EXCEPT !.condition = Append(@, token)]
    BY <1>1 DEF AddToken
  <2>2. Append(probe.condition, token) \in Seq(Tokens)
    BY <1>1, <2>1 DEF ProbeInv
  <2> QED BY <1>1, <2>1, <2>2 DEF ProbeInv
<1>2. ASSUME ProbeInv, AddStage PROVE ProbeInv'
  <2>1. PICK first, second \in 0..MaxStages :
          probe' = [probe EXCEPT !.dependsOn =
              Append(@, IF first = 0 /\ second = 0 THEN <<>>
                        ELSE IF first = 0 THEN <<second>> ELSE <<first, second>>)]
    BY <1>2 DEF AddStage
  <2>2. PICK named \in Named : probe' = [probe EXCEPT !.dependsOn = Append(@, named)]
    <3> DEFINE named == IF first = 0 /\ second = 0 THEN <<>> ELSE IF first = 0 THEN <<second>> ELSE <<first, second>>
    <3>1. named \in Named
      BY DEF Named
    <3>2. probe' = [probe EXCEPT !.dependsOn = Append(@, named)]
      BY <2>1
    <3> HIDE DEF named
    <3> QED BY <3>1, <3>2
  <2>3. Append(probe.dependsOn, named) \in Seq(Named)
    BY <1>2, <2>2 DEF ProbeInv
  <2> QED BY <1>2, <2>2, <2>3 DEF ProbeInv
<1>3. ProbeInv /\ UNCHANGED probe => ProbeInv'
  BY DEF ProbeInv
<1> QED BY <1>1, <1>2, <1>3 DEF PipelineNext

\* Whatever tokens a condition has, how many of them and how deeply nested: the
\* hand-written parser accepts exactly the grammar, gives every expression its one
\* value, and accepts at run time what it accepted when the pipeline was saved.
THEOREM ParserIsGrammar == ProbeInv => ConditionsParse
<1> SUFFICES ASSUME ProbeInv, probe.condition # <<>>, NEW success \in BOOLEAN, NEW failure \in BOOLEAN
             PROVE  LET state == [success |-> success, failure |-> failure]
                        result == EvaluatePipelineCondition(probe.condition, state)
                    IN  /\ GrammarValues(probe.condition, state)[Len(probe.condition)][1].or =
                               (IF result.ok THEN {result.value} ELSE {})
                        /\ ValidatePipelineCondition(probe.condition) = result.ok
  BY DEF ConditionsParse
<1>1. PICK s \in Seq(Tokens) : s = probe.condition
  BY DEF ProbeInv
<1>2. PICK state \in States : state = [success |-> success, failure |-> failure]
  BY DEF States
<1>3. /\ GrammarValues(s, state)[Len(s)][1].or =
              (IF EvaluatePipelineCondition(s, state).ok
               THEN {EvaluatePipelineCondition(s, state).value} ELSE {})
      /\ ValidatePipelineCondition(s) = EvaluatePipelineCondition(s, state).ok
  BY <1>1, ConditionParses
<1> QED BY <1>1, <1>2, <1>3

\* A graph of any number of stages is refused exactly when no order respects it, and
\* is otherwise given the one that comes first in source order.
THEOREM OrderIsFirst == ProbeInv => StagesAreOrdered
<1> SUFFICES ASSUME ProbeInv, probe.dependsOn # <<>> PROVE StagesAreOrdered
  BY DEF StagesAreOrdered
<1> DEFINE deps == probe.dependsOn
           order == OrderPipelineStages(deps)
           Formed == \A s \in DOMAIN deps : ~Repeats(deps[s]) /\ Dependencies(deps, s) \subseteq DOMAIN deps
<1>1. deps \in Seq(Named) /\ deps # <<>>
  BY DEF ProbeInv
<1>2. IF ~Formed \/ Orders(deps) = {} THEN order = <<>>
      ELSE order \in Orders(deps) /\ \A o \in Orders(deps) \ {order} : Precedes(deps, order, o)
  BY <1>1, StagesOrder
<1>3. CASE ~Formed \/ Orders(deps) = {}
  <2>1. order = <<>>
    BY <1>2, <1>3
  <2> QED BY <1>3, <2>1, Zenon DEF StagesAreOrdered, Orders
<1>4. CASE Formed /\ Orders(deps) # {}
  <2>1. order \in Orders(deps) /\ \A o \in Orders(deps) \ {order} : Precedes(deps, order, o)
    BY <1>2, <1>4
  <2> QED BY <1>4, <2>1, Zenon DEF StagesAreOrdered, Orders, Precedes
<1> QED BY <1>3, <1>4

\* Which stages and steps a build executes and what it is called afterwards: whatever
\* the conditions and the results are and wherever the build is interrupted, its
\* verdict is the one its steps earned, a stage without a condition had all it needs,
\* the post steps ran once with the outcome, and the three loops agree.
THEOREM StagesAreRunAsDeclared == StageSpec => []StagesRunAsDeclared
<1> DEFINE Inv == ProbeInv /\ StageInv
<1>1. PipelineInit /\ StageInit => Inv
  <2>1. PipelineInit => ProbeInv
    BY DEF PipelineInit, ProbeInv
  <2> QED BY <2>1, StageInitInv
<1>2. Inv /\ [(StageNext /\ UNCHANGED probe) \/ (PipelineNext /\ UNCHANGED stageVars)]_<<probe, stageVars>>
          => Inv'
  <2> SUFFICES ASSUME Inv,
                      [(StageNext /\ UNCHANGED probe) \/ (PipelineNext /\ UNCHANGED stageVars)]_<<probe, stageVars>>
               PROVE  Inv'
    OBVIOUS
  <2>1. [PipelineNext]_probe /\ [StageNext]_stageVars
    OBVIOUS
  <2> QED BY <2>1, ProbeNextInv, StageNextInv
<1>3. Inv => StagesRunAsDeclared
  <2> SUFFICES ASSUME Inv PROVE StagesRunAsDeclared
    OBVIOUS
  <2>1. ConditionsParse /\ StagesAreOrdered
    BY ParserIsGrammar, OrderIsFirst
  <2>2. VerdictIsHonest /\ NeedsSucceeded /\ PostStepsRunOnce
    BY DEF StageInv, Honest, Needed, Posted
  <2>3. LoopsAgree
    BY RecordedAgree
  <2> QED BY <2>1, <2>2, <2>3 DEF StagesRunAsDeclared
<1> QED BY <1>1, <1>2, <1>3, PTL DEF StageSpec
=============================================================================
