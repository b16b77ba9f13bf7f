----------------------------- MODULE CommonLemmas -----------------------------
(***************************************************************************)
(* Lemmas that the other proofs rest on: a non-empty set of numbers has a  *)
(* least element; a loop, a recursion that descends and a counter compute  *)
(* what they should; a sequence of sequences is flattened step by step;    *)
(* and what a remainder is in a table that a search goes round in.         *)
(***************************************************************************)
EXTENDS Integers, FiniteSetTheorems, SequenceTheorems, SequencesExt, WellFoundedInduction, TLAPS

(* Stated of a set and not of a predicate so that it can be cited: a       *)
(* property of all numbers is proved by looking at the least one that      *)
(* violates it.                                                            *)
(*                                                                         *)
(* Proof: the sets of the elements of T below an element of T are finite,  *)
(* and strict inclusion is well founded on finite sets.  An element whose  *)
(* set is minimal has nothing below it.                                    *)
THEOREM LeastExists ==
    ASSUME NEW T \in SUBSET Nat, T # {}
    PROVE  \E n \in T : \A m \in T : n <= m
<1> DEFINE Below(n) == {m \in T : m < n}
           Family   == {Below(n) : n \in T}
<1>1. ASSUME NEW n \in T
      PROVE  IsFiniteSet(Below(n)) /\ Below(n) \in SUBSET T
  <2>1. n \in Nat /\ IsFiniteSet(0 .. n)
    BY FS_Interval
  <2>2. ASSUME NEW m \in Below(n)
        PROVE  m \in 0 .. n
    BY <2>1
  <2> QED
    BY <2>1, <2>2, FS_Subset
<1>2. Family \subseteq FiniteSubsetsOf(T)
  BY <1>1 DEF FiniteSubsetsOf
<1>3. \E B \in Family : \A C \in Family : <<C, B>> \notin StrictSubsetOrdering(T)
  <2>1. IsWellFoundedOn(StrictSubsetOrdering(T), FiniteSubsetsOf(T))
    BY FS_StrictSubsetOrderingWellFounded
  <2>2. Family # {}
    OBVIOUS
  <2> HIDE DEF Family
  <2> QED
    BY <2>1, <2>2, <1>2, WFMin
<1>4. PICK n \in T : \A m \in T : <<Below(m), Below(n)>> \notin StrictSubsetOrdering(T)
  BY <1>3
<1>5. ASSUME NEW m \in T, m < n
      PROVE  FALSE
  <2>1. m \in Below(n) /\ m \notin Below(m) /\ Below(m) \subseteq Below(n)
    <3>1. m \in Nat /\ n \in Nat
      OBVIOUS
    <3>2. m \in Below(n) /\ m \notin Below(m)
      BY <1>5, <3>1
    <3>3. ASSUME NEW k \in Below(m)
          PROVE  k \in Below(n)
      BY <1>5, <3>1, <3>3
    <3> QED
      BY <3>2, <3>3
  <2>2. <<Below(m), Below(n)>> \in StrictSubsetOrdering(T)
    BY <2>1 DEF StrictSubsetOrdering
  <2> QED
    BY <2>2, <1>4
<1> QED
  BY <1>5
-----------------------------------------------------------------------------
(* What a loop computes from a first value in N steps, each of which may   *)
(* be another one.                                                         *)
LoopRuns(V, base, N, step) ==
    {f \in [0 .. N -> V] : f[0] = base /\ \A n \in 1 .. N : f[n] = step[n][f[n - 1]]}

LEMMA LoopExists ==
    ASSUME NEW V, NEW base \in V, NEW N \in Nat, NEW step \in [1 .. N -> [V -> V]]
    PROVE  \E f : f \in LoopRuns(V, base, N, step)
<1> DEFINE Computes(f, m) == f[0] = base /\ \A n \in 1 .. m : f[n] = step[n][f[n - 1]]
           T == {m \in 0 .. N : ~\E f \in [0 .. m -> V] : Computes(f, m)}
<1>1. SUFFICES ASSUME N \in T PROVE FALSE
  BY DEF LoopRuns
<1>2. PICK m \in T : \A k \in T : m <= k
  <2>1. T \in SUBSET Nat /\ T # {}
    BY <1>1
  <2> QED
    BY <2>1, LeastExists
<1>3. m \in 0 .. N /\ ~\E f \in [0 .. m -> V] : Computes(f, m)
  OBVIOUS
<1>4. CASE m = 0
  <2>1. [x \in 0 .. 0 |-> base] \in [0 .. 0 -> V] /\ Computes([x \in 0 .. 0 |-> base], 0)
    OBVIOUS
  <2> QED
    BY <1>3, <1>4, <2>1
<1>5. CASE m # 0
  <2>1. m - 1 \in 0 .. N /\ m - 1 \notin T /\ m \in 1 .. N
    <3> HIDE DEF T
    <3>1. m - 1 \in 0 .. N /\ m \in 1 .. N /\ ~(m <= m - 1)
      BY <1>3, <1>5
    <3> QED
      BY <1>2, <3>1
  <2>2. PICK g \in [0 .. m - 1 -> V] : Computes(g, m - 1)
    BY <2>1
  <2> DEFINE f == [x \in 0 .. m |-> IF x = m THEN step[m][g[m - 1]] ELSE g[x]]
  <2>3. step[m] \in [V -> V] /\ g[m - 1] \in V
    BY <2>1, <2>2
  <2>4. f \in [0 .. m -> V]
    BY <2>1, <2>2, <2>3
  <2>5. Computes(f, m)
    <3>1. f[0] = g[0] /\ \A n \in 1 .. m - 1 : f[n] = g[n] /\ f[n - 1] = g[n - 1]
      BY <2>1
    <3>2. f[m] = step[m][g[m - 1]] /\ f[m - 1] = g[m - 1]
      BY <2>1
    <3> HIDE DEF f
    <3>3. \A n \in 1 .. m : n = m \/ n \in 1 .. m - 1
      BY <2>1
    <3> QED
      BY <2>2, <3>1, <3>2, <3>3
  <2> QED
    BY <1>3, <2>4, <2>5
<1> QED
  BY <1>4, <1>5

(* A loop whose steps are known for values of V never leaves V. *)
LEMMA LoopStays ==
    ASSUME NEW V, NEW N \in Nat, NEW g, g[0] \in V,
           \A n \in 1 .. N : g[n - 1] \in V => g[n] \in V
    PROVE  \A n \in 0 .. N : g[n] \in V
<1> DEFINE T == {n \in 0 .. N : g[n] \notin V}
<1>1. SUFFICES ASSUME T # {} PROVE FALSE
  OBVIOUS
<1>2. PICK m \in T : \A n \in T : m <= n
  <2>1. T \in SUBSET Nat
    OBVIOUS
  <2> QED
    BY <1>1, <2>1, LeastExists
<1>3. m \in 0 .. N /\ g[m] \notin V /\ m # 0
  OBVIOUS
<1>4. m \in 1 .. N /\ m - 1 \in 0 .. N /\ ~(m <= m - 1)
  BY <1>3
<1>5. m - 1 \notin T
  <2> HIDE DEF T
  <2> QED
    BY <1>2, <1>4
<1> QED
  BY <1>3, <1>4, <1>5

(* Induction up to N, stated of the set of numbers for which the claim holds. *)
LEMMA UpTo ==
    ASSUME NEW N \in Nat, NEW T, 0 \in T, \A n \in 1 .. N : n - 1 \in T => n \in T
    PROVE  \A n \in 0 .. N : n \in T
<1> DEFINE self == [n \in 0 .. N |-> n]
<1>1. self[0] \in T /\ \A n \in 1 .. N : self[n - 1] \in T => self[n] \in T
  <2>1. \A n \in 1 .. N : n \in 0 .. N /\ n - 1 \in 0 .. N
    OBVIOUS
  <2>2. 0 \in 0 .. N
    OBVIOUS
  <2> QED
    BY <2>1, <2>2
<1>2. \A n \in 0 .. N : self[n] = n
  OBVIOUS
<1> HIDE DEF self
<1>3. \A n \in 0 .. N : self[n] \in T
  BY <1>1, LoopStays
<1> QED
  BY <1>2, <1>3

(* The value of a body at x depends on the values of the function at       *)
(* arguments of a smaller measure only.                                    *)
Descends(D, V, N, measure, body) ==
    \A g, h \in [D -> V] : \A n \in 0 .. N :
        (\A x \in D : measure[x] < n => g[x] = h[x])
            => \A x \in D : measure[x] <= n => body[g][x] = body[h][x]

FixedPoints(D, V, body) == {f \in [D -> V] : f = body[f]}

(* Then there is a recursive function with this body.                      *)
(*                                                                         *)
(* Proof: the body is applied to any function, again and again.  The first *)
(* n times settle the values of the arguments that measure less than n.    *)
LEMMA RecursionExists ==
    ASSUME NEW D, NEW V, V # {}, NEW N \in Nat, NEW measure \in [D -> 0 .. N],
           NEW body \in [[D -> V] -> [D -> V]],
           Descends(D, V, N, measure, body)
    PROVE  \E f : f \in FixedPoints(D, V, body)
<1> DEFINE base == [x \in D |-> CHOOSE v \in V : TRUE]
           M == N + 2
           step == [n \in 1 .. M |-> body]
<1>1. M \in Nat /\ base \in [D -> V] /\ step \in [1 .. M -> [[D -> V] -> [D -> V]]]
  OBVIOUS
<1>2. PICK f : f \in LoopRuns([D -> V], base, M, step)
  <2> HIDE DEF base, M, step
  <2> QED
    BY <1>1, LoopExists
<1>3. /\ f \in [0 .. M -> [D -> V]]
      /\ \A n \in 1 .. M : f[n] = body[f[n - 1]]
  BY <1>2 DEF LoopRuns
<1> DEFINE T == {n \in 0 .. N + 1 : \A x \in D : measure[x] < n => f[n][x] = f[n + 1][x]}
<1>4. 0 \in T
  <2>1. \A x \in D : ~(measure[x] < 0)
    OBVIOUS
  <2>2. 0 \in 0 .. N + 1
    OBVIOUS
  <2> QED
    BY <2>1, <2>2
<1>5. ASSUME NEW n \in 1 .. N + 1, n - 1 \in T
      PROVE  n \in T
  <2>1. /\ n \in 1 .. M /\ n - 1 \in 0 .. M /\ n + 1 \in 1 .. M /\ n \in 0 .. M
        /\ n - 1 \in 0 .. N /\ (n + 1) - 1 = n /\ (n - 1) + 1 = n
    OBVIOUS
  <2>2. f[n] = body[f[n - 1]] /\ f[n + 1] = body[f[n]] /\ f[n - 1] \in [D -> V] /\ f[n] \in [D -> V]
    <3>1. f[n + 1] = body[f[(n + 1) - 1]]
      BY <1>3, <2>1
    <3> QED
      BY <1>3, <2>1, <3>1
  <2>3. \A x \in D : measure[x] < n - 1 => f[n - 1][x] = f[n][x]
    BY <1>5, <2>1
  <2>4. \A x \in D : measure[x] <= n - 1 => body[f[n - 1]][x] = body[f[n]][x]
    BY <2>1, <2>2, <2>3 DEF Descends
  <2>5. \A x \in D : measure[x] < n => measure[x] <= n - 1
    OBVIOUS
  <2> QED
    BY <2>2, <2>4, <2>5
<1>6. N + 1 \in T
  <2>1. N + 1 \in Nat /\ N + 1 \in 0 .. N + 1
    OBVIOUS
  <2> HIDE DEF T
  <2>2. \A n \in 0 .. N + 1 : n \in T
    BY <1>4, <1>5, <2>1, UpTo
  <2> QED
    BY <2>1, <2>2
<1>7. /\ N + 1 \in 0 .. M /\ N + 2 \in 1 .. M /\ (N + 2) - 1 = N + 1
      /\ (N + 1) + 1 = N + 2 /\ N + 2 \in 0 .. M
  OBVIOUS
<1>8. /\ f[N + 1] \in [D -> V] /\ f[N + 2] \in [D -> V]
      /\ f[N + 2] = body[f[N + 1]]
  <2>1. f[N + 2] = body[f[(N + 2) - 1]]
    BY <1>3, <1>7
  <2> QED
    BY <1>3, <1>7, <2>1
<1>9. \A x \in D : f[N + 1][x] = f[N + 2][x]
  <2>1. \A x \in D : measure[x] < N + 1
    OBVIOUS
  <2> QED
    BY <1>6, <1>7, <2>1
<1>10. f[N + 1] = f[N + 2]
  BY <1>8, <1>9
<1> QED
  BY <1>8, <1>10 DEF FixedPoints
-----------------------------------------------------------------------------
(* A counter that a turn of a loop leaves alone or increases by one. *)
Counter(f, N) ==
    /\ f[0] = 0
    /\ \A n \in 1 .. N : f[n - 1] \in Nat => f[n] \in {f[n - 1], f[n - 1] + 1}

LEMMA CounterRises ==
    ASSUME NEW N \in Nat, NEW f, Counter(f, N)
    PROVE  /\ \A n \in 0 .. N : f[n] \in Nat
           /\ \A m, n \in 0 .. N : m <= n => f[m] <= f[n]
<1>1. \A n \in 0 .. N : f[n] \in Nat
  <2>1. f[0] \in Nat /\ \A n \in 1 .. N : f[n - 1] \in Nat => f[n] \in Nat
    BY DEF Counter
  <2> QED
    BY <2>1, LoopStays
<1>2. ASSUME NEW m \in 0 .. N
      PROVE  \A n \in 0 .. N : m <= n => f[m] <= f[n]
  <2> DEFINE T == {n \in 0 .. N : m <= n => f[m] <= f[n]}
  <2>1. 0 \in T
    BY <1>1
  <2>2. ASSUME NEW n \in 1 .. N, n - 1 \in T
        PROVE  n \in T
    <3>1. n \in 0 .. N /\ n - 1 \in 0 .. N /\ f[n] \in Nat /\ f[n - 1] \in Nat /\ f[m] \in Nat
      BY <1>1
    <3>2. f[n - 1] <= f[n]
      BY <3>1 DEF Counter
    <3>3. CASE m = n
      BY <3>1, <3>3
    <3>4. CASE m # n
      <4>1. m <= n => m <= n - 1
        BY <3>4
      <4> QED
        BY <2>2, <3>1, <3>2, <4>1
    <3> QED
      BY <3>3, <3>4
  <2> HIDE DEF T
  <2>3. \A n \in 0 .. N : n \in T
    BY <2>1, <2>2, UpTo
  <2> QED
    BY <2>3 DEF T
<1> QED
  BY <1>1, <1>2

(* It comes to every number on its way, by one turn. *)
LEMMA CounterPasses ==
    ASSUME NEW N \in Nat, NEW f, Counter(f, N), NEW i \in 1 .. f[N]
    PROVE  \E n \in 1 .. N : f[n] = i /\ f[n - 1] = i - 1
<1>1. \A n \in 0 .. N : f[n] \in Nat
  BY CounterRises
<1> DEFINE T == {n \in 0 .. N : f[n] >= i}
<1>2. PICK n \in T : \A m \in T : n <= m
  <2>1. N \in T /\ T \in SUBSET Nat
    BY <1>1
  <2> HIDE DEF T
  <2> QED
    BY <2>1, LeastExists
<1>3. n \in 0 .. N /\ f[n] >= i /\ i >= 1 /\ i \in Nat
  BY <1>1
<1>4. n # 0
  BY <1>3 DEF Counter
<1>5. n \in 1 .. N /\ n - 1 \in 0 .. N /\ ~(n <= n - 1)
  BY <1>3, <1>4
<1>6. n - 1 \notin T
  <2> HIDE DEF T
  <2> QED
    BY <1>2, <1>5
<1>7. ~(f[n - 1] >= i) /\ f[n - 1] \in Nat /\ f[n] \in Nat
  BY <1>1, <1>5, <1>6
<1>8. f[n] \in {f[n - 1], f[n - 1] + 1}
  BY <1>5, <1>7 DEF Counter
<1> QED
  BY <1>3, <1>5, <1>7, <1>8
-----------------------------------------------------------------------------
(* Sequences are joined one after the other. *)
LEMMA FlattenSteps ==
    ASSUME NEW S, NEW seqs \in Seq(Seq(S))
    PROVE  \E flat \in [0 .. Len(seqs) -> Seq(S)] :
              /\ flat[0] = << >>
              /\ \A n \in 1 .. Len(seqs) : flat[n] = flat[n - 1] \o seqs[n]
              /\ FlattenSeq(seqs) = flat[Len(seqs)]
<1> DEFINE N == Len(seqs)
           step == [n \in 1 .. N |-> [s \in Seq(S) |-> s \o seqs[n]]]
           Loop(f) == f = [n \in 1 .. N |-> IF n = 1 THEN seqs[n] ELSE f[n - 1] \o seqs[n]]
<1>1. N \in Nat /\ \A n \in 1 .. N : seqs[n] \in Seq(S)
  BY ElementOfSeq, LenProperties
<1>2. CASE N = 0
  <2>1. FlattenSeq(seqs) = << >> /\ << >> \in Seq(S)
    BY <1>2 DEF FlattenSeq
  <2> DEFINE nothing == [n \in 0 .. N |-> << >>]
  <2>2. nothing \in [0 .. N -> Seq(S)] /\ nothing[0] = << >> /\ nothing[N] = << >>
    BY <1>2, <2>1
  <2>3. \A n \in 1 .. N : FALSE
    BY <1>2
  <2> HIDE DEF nothing
  <2> QED
    BY <2>1, <2>2, <2>3
<1>3. CASE N # 0
  <2>1. PICK f : f \in LoopRuns(Seq(S), << >>, N, step)
    <3>1. step \in [1 .. N -> [Seq(S) -> Seq(S)]] /\ << >> \in Seq(S)
      BY <1>1, ConcatProperties
    <3> HIDE DEF step, N
    <3> QED
      BY <1>1, <3>1, LoopExists, Zenon
  <2>2. f[0] = << >> /\ f \in [0 .. N -> Seq(S)]
    BY <2>1 DEF LoopRuns
  <2>3. \A n \in 1 .. N : f[n - 1] \in Seq(S) /\ f[n] \in Seq(S)
    <3>1. \A n \in 1 .. N : n - 1 \in 0 .. N /\ n \in 0 .. N
      BY <1>1
    <3> HIDE DEF N
    <3> QED
      BY <2>2, <3>1
  <2>4. \A n \in 1 .. N : f[n] = step[n][f[n - 1]]
    <3> HIDE DEF step, N
    <3> QED
      BY <2>1 DEF LoopRuns
  <2>5. \A n \in 1 .. N : f[n] = f[n - 1] \o seqs[n]
    BY <2>3, <2>4
  <2>6. f[1] = seqs[1]
    <3>1. 1 \in 1 .. N /\ f[0] = << >> /\ seqs[1] \in Seq(S) /\ 1 - 1 = 0
      BY <1>1, <1>3, <2>2
    <3>2. f[1] = << >> \o seqs[1]
      BY <2>5, <3>1
    <3> QED
      BY <3>1, <3>2, ConcatEmptySeq
  <2> DEFINE h == [n \in 1 .. N |-> f[n]]
  <2>7. Loop(h)
    <3>1. \A n \in 1 .. N : n # 1 => n - 1 \in 1 .. N
      BY <1>1
    <3>2. \A n \in 1 .. N : h[n] = IF n = 1 THEN seqs[n] ELSE h[n - 1] \o seqs[n]
      BY <2>5, <2>6, <3>1
    <3> QED
      BY <3>2, Zenon
  <2> DEFINE g == CHOOSE flatten : Loop(flatten)
  <2>8. Loop(g) /\ FlattenSeq(seqs) = g[N]
    <3>1. Loop(g)
      <4> HIDE DEF Loop, h
      <4> QED
        BY <2>7
    <3> QED
      BY <1>3, <3>1 DEF FlattenSeq
  <2> HIDE DEF g
  <2> DEFINE k == [n \in 0 .. N |-> IF n = 0 THEN << >> ELSE g[n]]
  <2>9. k[0] = << >> /\ \A n \in 1 .. N : k[n] = g[n]
    BY <1>1
  <2>10. \A n \in 1 .. N : k[n] = k[n - 1] \o seqs[n]
    <3> SUFFICES ASSUME NEW n \in 1 .. N PROVE k[n] = k[n - 1] \o seqs[n]
      OBVIOUS
    <3>1. g[n] = IF n = 1 THEN seqs[n] ELSE g[n - 1] \o seqs[n]
      BY <2>8
    <3>2. CASE n = 1
      <4>1. << >> \o seqs[n] = seqs[n]
        BY <1>1, ConcatEmptySeq
      <4>2. k[n] = seqs[n] /\ k[n - 1] = << >>
        <5>1. n - 1 = 0
          BY <3>2
        <5> HIDE DEF k
        <5> QED
          BY <2>9, <3>1, <3>2, <5>1
      <4> QED
        BY <4>1, <4>2
    <3>3. CASE n # 1
      <4>1. n - 1 \in 1 .. N
        BY <1>1, <3>3
      <4> HIDE DEF k
      <4> QED
        BY <2>9, <3>1, <3>3, <4>1
    <3> QED
      BY <3>2, <3>3
  <2> HIDE DEF k
  <2>11. \A n \in 0 .. N : k[n] \in Seq(S)
    <3>1. k[0] \in Seq(S)
      BY <2>9
    <3>2. \A n \in 1 .. N : k[n - 1] \in Seq(S) => k[n] \in Seq(S)
      BY <1>1, <2>10, ConcatProperties
    <3> HIDE DEF N
    <3> QED
      BY <1>1, <3>1, <3>2, LoopStays
  <2>12. k \in [0 .. N -> Seq(S)] /\ k[N] = g[N]
    BY <1>1, <1>3, <2>9, <2>11 DEF k
  <2> QED
    BY <2>8, <2>9, <2>10, <2>12
<1> QED
  BY <1>2, <1>3

(* The last sequence is joined last. *)
LEMMA FlattenAppend ==
    ASSUME NEW S, NEW seqs \in Seq(Seq(S)), NEW x \in Seq(S)
    PROVE  /\ FlattenSeq(seqs) \in Seq(S)
           /\ FlattenSeq(Append(seqs, x)) = FlattenSeq(seqs) \o x
<1> DEFINE N == Len(seqs)
           more == Append(seqs, x)
<1>1. /\ N \in Nat /\ more \in Seq(Seq(S)) /\ Len(more) = N + 1 /\ more[N + 1] = x
      /\ \A n \in 1 .. N : more[n] = seqs[n] /\ n \in 1 .. N + 1
  BY LenProperties, AppendProperties
<1> HIDE DEF more
<1>2. PICK f \in [0 .. N -> Seq(S)] :
          /\ f[0] = << >>
          /\ \A n \in 1 .. N : f[n] = f[n - 1] \o seqs[n]
          /\ FlattenSeq(seqs) = f[N]
  BY FlattenSteps
<1>3. PICK g \in [0 .. N + 1 -> Seq(S)] :
          /\ g[0] = << >>
          /\ \A n \in 1 .. N + 1 : g[n] = g[n - 1] \o more[n]
          /\ FlattenSeq(more) = g[N + 1]
  <2>1. \E g \in [0 .. Len(more) -> Seq(S)] :
          /\ g[0] = << >>
          /\ \A n \in 1 .. Len(more) : g[n] = g[n - 1] \o more[n]
          /\ FlattenSeq(more) = g[Len(more)]
    BY <1>1, FlattenSteps
  <2>2. Len(more) = N + 1
    BY <1>1
  <2> HIDE DEF N
  <2> QED
    BY <2>1, <2>2
<1>4. f[N] = g[N]
  <2> DEFINE T == {n \in 0 .. N : f[n] # g[n]}
  <2>1. SUFFICES ASSUME N \in T PROVE FALSE
    BY <1>1
  <2>2. PICK m \in T : \A n \in T : m <= n
    <3>1. T \in SUBSET Nat
      OBVIOUS
    <3> HIDE DEF T
    <3> QED
      BY <2>1, <3>1, LeastExists
  <2>3. m \in 0 .. N /\ f[m] # g[m] /\ m # 0
    BY <1>2, <1>3
  <2>4. m \in 1 .. N /\ m - 1 \in 0 .. N /\ ~(m <= m - 1)
    BY <2>3
  <2>5. m - 1 \notin T
    <3> HIDE DEF T
    <3> QED
      BY <2>2, <2>4
  <2>6. f[m - 1] = g[m - 1]
    BY <2>4, <2>5
  <2> QED
    BY <1>1, <1>2, <1>3, <2>3, <2>4, <2>6
<1>5. N + 1 \in 1 .. N + 1 /\ N + 1 - 1 = N /\ N \in 0 .. N
  BY <1>1
<1> HIDE DEF N
<1>6. FlattenSeq(more) = f[N] \o x
  <2> DEFINE last == N + 1
  <2>1. last \in 1 .. N + 1 /\ last - 1 = N
    BY <1>5
  <2>2. FlattenSeq(more) = g[last] /\ more[last] = x
    BY <1>1, <1>3
  <2> HIDE DEF last
  <2>3. g[last] = g[last - 1] \o more[last]
    BY <1>3, <2>1
  <2> QED
    BY <1>4, <2>1, <2>2, <2>3
<1>7. f[N] \in Seq(S)
  BY <1>2, <1>5
<1> QED
  BY <1>2, <1>6, <1>7 DEF more
-----------------------------------------------------------------------------
(* A number is a multiple of c and a remainder below c. *)
LEMMA Division ==
    ASSUME NEW c \in Nat \ {0}, NEW a \in Nat
    PROVE  a % c \in 0 .. c - 1 /\ \E q \in Int : (a % c) + c * q = a
<1>1. (a % c) + c * (a \div c) = a
  OBVIOUS
<1>2. a % c \in 0 .. c - 1 /\ a \div c \in Int
  OBVIOUS
<1> QED
  BY <1>1, <1>2

(* Different multiples of c are at least c apart. *)
LEMMA MultiplesApart ==
    ASSUME NEW c \in Nat \ {0}, NEW p \in Int, NEW q \in Int, p < q
    PROVE  c * p + c <= c * q
<1>1. q - p \in Nat \ {0}
  OBVIOUS
<1>2. \A d \in Nat \ {0} : c * d >= c
  OBVIOUS
<1>3. c * (q - p) >= c
  BY <1>1, <1>2
<1>4. c * (q - p) = c * q - c * p
  OBVIOUS
<1> QED
  BY <1>3, <1>4

(* There is only one remainder. *)
LEMMA OneRemainder ==
    ASSUME NEW c \in Nat \ {0}, NEW q \in Int, NEW r \in 0 .. c - 1, NEW a \in Nat,
           r + c * q = a
    PROVE  a % c = r
<1>1. PICK p \in Int : (a % c) + c * p = a /\ a % c \in 0 .. c - 1
  BY Division
<1>2. c * q \in Int /\ c * p \in Int
  OBVIOUS
<1>3. ASSUME q < p PROVE FALSE
  <2>1. c * q + c <= c * p
    BY <1>3, MultiplesApart
  <2> QED
    BY <1>1, <1>2, <2>1
<1>4. ASSUME p < q PROVE FALSE
  <2>1. c * p + c <= c * q
    BY <1>4, MultiplesApart
  <2> QED
    BY <1>1, <1>2, <2>1
<1> QED
  BY <1>1, <1>3, <1>4

(* Going k places on, fewer than there are, wraps around at most once. *)
LEMMA WrapsOnce ==
    ASSUME NEW c \in Nat \ {0}, NEW h \in Nat, NEW k \in 0 .. c - 1
    PROVE  (h + k) % c = IF (h % c) + k < c THEN (h % c) + k ELSE (h % c) + k - c
<1> DEFINE m == h % c
<1>1. PICK p \in Int : m + c * p = h /\ m \in 0 .. c - 1
  BY Division
<1> HIDE DEF m
<1>2. c * p \in Int /\ c * (p + 1) = c * p + c /\ h + k \in Nat /\ p + 1 \in Int
  OBVIOUS
<1>3. \A r \in 0 .. c - 1, q \in Int, a \in Nat : r + c * q = a => a % c = r
  BY OneRemainder
<1>4. CASE m + k < c
  <2>1. m + k \in 0 .. c - 1 /\ (m + k) + c * p = h + k
    BY <1>1, <1>2, <1>4
  <2>2. (h + k) % c = m + k
    BY <1>2, <1>3, <2>1, Zenon
  <2> QED
    BY <1>4, <2>2 DEF m
<1>5. CASE ~(m + k < c)
  <2>1. m + k - c \in 0 .. c - 1 /\ (m + k - c) + c * (p + 1) = h + k
    BY <1>1, <1>2, <1>5
  <2>2. (h + k) % c = m + k - c
    BY <1>2, <1>3, <2>1, Zenon
  <2> QED
    BY <1>5, <2>2 DEF m
<1> QED
  BY <1>4, <1>5

(* The slot after i wraps around to 0. *)
LEMMA NextIndex ==
    ASSUME NEW c \in Nat \ {0}, NEW i \in 0 .. c - 1
    PROVE  /\ (i + 1) % c = IF i + 1 < c THEN i + 1 ELSE 0
           /\ (i + 1) % c \in 0 .. c - 1
OBVIOUS

(* The slot before i wraps around to the last one. *)
LEMMA PreviousIndex ==
    ASSUME NEW c \in Nat \ {0}, NEW i \in 0 .. c - 1
    PROVE  (i + c - 1) % c = IF i > 0 THEN i - 1 ELSE c - 1
<1>1. \A r \in 0 .. c - 1, q \in Int, a \in Nat : r + c * q = a => a % c = r
  BY OneRemainder
<1>2. i + c - 1 \in Nat /\ c * 1 = c /\ c * 0 = 0
  OBVIOUS
<1>3. CASE i > 0
  <2>1. i - 1 \in 0 .. c - 1 /\ (i - 1) + c * 1 = i + c - 1 /\ 1 \in Int
    BY <1>2, <1>3
  <2>2. (i + c - 1) % c = i - 1
    BY <1>1, <1>2, <2>1, Zenon
  <2> QED
    BY <1>3, <2>2
<1>4. CASE i = 0
  <2>1. c - 1 \in 0 .. c - 1 /\ (c - 1) + c * 0 = i + c - 1 /\ 0 \in Int
    BY <1>2, <1>4
  <2>2. (i + c - 1) % c = c - 1
    BY <1>1, <1>2, <2>1, Zenon
  <2> QED
    BY <1>4, <2>2
<1> QED
  BY <1>3, <1>4
-----------------------------------------------------------------------------
(* How many slots a search that starts at one slot has passed when it      *)
(* comes to another, in a table of c slots.                                *)
Steps(c, from, to) == IF to >= from THEN to - from ELSE to + c - from

LEMMA HomeInTable ==
    ASSUME NEW c \in Nat \ {0}, NEW hash \in Nat
    PROVE  hash % c \in 0 .. c - 1
OBVIOUS

(* One step more passes one slot more, or has come round to the start.     *)
LEMMA OneStepMore ==
    ASSUME NEW c \in Nat \ {0}, NEW from \in 0 .. c - 1, NEW i \in 0 .. c - 1,
           NEW j \in 0 .. c - 1, Steps(c, from, j) < Steps(c, from, (i + 1) % c)
    PROVE  j = i \/ Steps(c, from, j) < Steps(c, from, i)
BY NextIndex DEF Steps

(* Nothing is passed at the start. *)
LEMMA NothingPassed ==
    ASSUME NEW c \in Nat \ {0}, NEW from \in 0 .. c - 1, NEW j \in 0 .. c - 1
    PROVE  ~(Steps(c, from, j) < Steps(c, from, from))
BY DEF Steps

(* Two different slots are not equally far from a third. *)
LEMMA StepsDiffer ==
    ASSUME NEW c \in Nat \ {0}, NEW from \in 0 .. c - 1, NEW i \in 0 .. c - 1,
           NEW j \in 0 .. c - 1, i # j
    PROVE  \/ Steps(c, from, i) < Steps(c, from, j)
           \/ Steps(c, from, j) < Steps(c, from, i)
BY DEF Steps
=============================================================================
