-------------------------- MODULE LogQueries_proofs --------------------------
(***************************************************************************)
(* Proofs about LogQueries, for all logs, chunk sizes, collisions of the   *)
(* two hash tables and ranges asked for: every timeline is the part of the *)
(* log of its key in the order of time, the bisections cut out all and     *)
(* only the rows in range, the ranking has the exact counts, and the       *)
(* program implements the abstract log.                                    *)
(***************************************************************************)
EXTENDS LogQueries, CommonLemmas, SequenceTheorems

(* A timestamp is a number of seconds.                                     *)
LEMMA EntryTime == \A e \in Entries : e.timestamp \in Nat
BY SizesAssumption
-----------------------------------------------------------------------------
(* merge() and mergeSort()                                                 *)

(* The order of a timeline: that of time, and of the log if time is equal. *)
Earlier(log, i, j) ==
    \/ log[i].timestamp < log[j].timestamp
    \/ log[i].timestamp = log[j].timestamp /\ i < j

(* The sequence s holds the entries at some positions of a log, each once  *)
(* and in order; place says which position is where.                       *)
Places(log, positions, s, place) ==
    /\ place \in [1 .. Len(s) -> positions]
    /\ \A p \in positions : \E i \in 1 .. Len(s) : place[i] = p
    /\ \A i, j \in 1 .. Len(s) : i < j => Earlier(log, place[i], place[j])
    /\ \A i \in 1 .. Len(s) : s[i] = log[place[i]]

InOrder(log, positions, s) ==
    s \in Seq(Entries) /\ \E place : Places(log, positions, s, place)

(* What it means for times that the places are in order. *)
LEMMA InOrderSorted ==
    ASSUME NEW log \in Seq(Entries), NEW P \in SUBSET (1 .. Len(log)), NEW s, InOrder(log, P, s)
    PROVE  /\ s \in Seq(Entries) /\ Len(s) \in Nat
           /\ \A i \in 1 .. Len(s) : s[i] \in Entries /\ s[i].timestamp \in Nat
           /\ \A i, j \in 1 .. Len(s) : i <= j => s[i].timestamp <= s[j].timestamp
<1>1. s \in Seq(Entries) /\ Len(s) \in Nat /\ \A i \in 1 .. Len(s) : s[i] \in Entries
  BY LenProperties, ElementOfSeq DEF InOrder
<1>2. \A i \in 1 .. Len(s) : s[i].timestamp \in Nat
  BY <1>1, EntryTime
<1>3. PICK place : Places(log, P, s, place)
  BY DEF InOrder
<1>4. ASSUME NEW i \in 1 .. Len(s), NEW j \in 1 .. Len(s), i <= j
      PROVE  s[i].timestamp <= s[j].timestamp
  <2>1. CASE i = j
    BY <1>2, <2>1
  <2>2. CASE i # j
    <3>1. i < j
      BY <1>1, <1>4, <2>2
    <3>2. Earlier(log, place[i], place[j]) /\ s[i] = log[place[i]] /\ s[j] = log[place[j]]
      BY <1>3, <3>1 DEF Places
    <3>3. s[i].timestamp < s[j].timestamp \/ s[i].timestamp = s[j].timestamp
      BY <3>2, Zenon DEF Earlier
    <3> QED
      BY <1>2, <3>3
  <2> QED
    BY <2>1, <2>2
<1> QED
  BY <1>1, <1>2, <1>4

(* The loop of merge(). *)
LEMMA TakenSteps ==
    ASSUME NEW left, NEW right, Len(left) \in Nat, Len(right) \in Nat
    PROVE  LET taken == Taken(left, right)
           IN  /\ taken[0] = 0
               /\ \A t \in 1 .. Len(left) + Len(right) :
                     /\ taken[t - 1] \in Nat
                     /\ taken[t] = IF LeftFirst(left, right, taken[t - 1] + 1, t - taken[t - 1])
                                   THEN taken[t - 1] + 1 ELSE taken[t - 1]
               /\ Counter(taken, Len(left) + Len(right))
<1> DEFINE N == Len(left) + Len(right)
           Turn(t, before) == IF LeftFirst(left, right, before + 1, t - before)
                              THEN before + 1 ELSE before
           step == [t \in 1 .. N |-> [before \in Nat |-> Turn(t, before)]]
           Body(f) == [t \in 0 .. N |-> IF t = 0 THEN 0 ELSE Turn(t, f[t - 1])]
           Loop(f) == f = Body(f)
<1>1. N \in Nat /\ step \in [1 .. N -> [Nat -> Nat]]
  OBVIOUS
<1>2. PICK f : f \in LoopRuns(Nat, 0, N, step)
  <2> HIDE DEF N, step
  <2> QED
    BY <1>1, LoopExists
<1>3. f \in [0 .. N -> Nat] /\ f[0] = 0 /\ \A t \in 1 .. N : f[t] = step[t][f[t - 1]]
  BY <1>2 DEF LoopRuns
<1>4. \A t \in 1 .. N : t \in 0 .. N /\ t # 0 /\ t - 1 \in 0 .. N
  OBVIOUS
<1>5. \A t \in 1 .. N : f[t] = Turn(t, f[t - 1])
  <2>1. \A t \in 1 .. N : f[t - 1] \in Nat
    BY <1>3, <1>4
  <2> HIDE DEF Turn, N
  <2> QED
    BY <1>3, <2>1
<1>6. Loop(f)
  <2>1. \A t \in 0 .. N : t # 0 => t \in 1 .. N
    OBVIOUS
  <2> HIDE DEF Turn, N
  <2>2. \A t \in 0 .. N : f[t] = IF t = 0 THEN 0 ELSE Turn(t, f[t - 1])
    BY <1>3, <1>5, <2>1
  <2> QED
    BY <1>3, <2>2
<1> DEFINE taken == Taken(left, right)
<1>7. Loop(taken)
  <2>1. taken = CHOOSE g : Loop(g)
    BY DEF Taken
  <2> HIDE DEF taken, Loop
  <2> QED
    BY <1>6, <2>1
<1> HIDE DEF taken
<1>8. taken[0] = 0 /\ \A t \in 1 .. N : taken[t] = Turn(t, taken[t - 1])
  <2>1. 0 \in 0 .. N
    BY <1>1
  <2> HIDE DEF Turn, N
  <2> QED
    BY <1>4, <1>7, <2>1
<1>9. Counter(taken, N)
  <2> HIDE DEF N
  <2> QED
    BY <1>8 DEF Counter
<1>10. \A t \in 1 .. N : taken[t - 1] \in Nat
  <2> HIDE DEF N
  <2> QED
    BY <1>1, <1>4, <1>9, CounterRises
<1> QED
  BY <1>8, <1>9, <1>10 DEF taken

(* What has been copied after t turns is not later than what has not: of   *)
(* equal times the left one goes first.                                    *)
Divides(left, right, t, k) ==
    /\ k \in 0 .. Len(left) /\ t - k \in 0 .. Len(right)
    /\ \A i \in 1 .. k, j \in t - k + 1 .. Len(right) : left[i].timestamp <= right[j].timestamp
    /\ \A j \in 1 .. t - k, i \in k + 1 .. Len(left) : right[j].timestamp < left[i].timestamp

SortedByTime(s) ==
    /\ Len(s) \in Nat
    /\ \A i \in 1 .. Len(s) : s[i].timestamp \in Nat
    /\ \A i, j \in 1 .. Len(s) : i <= j => s[i].timestamp <= s[j].timestamp

(* A turn of merge() copies the entry that is next in the order.           *)
LEMMA TurnDivides ==
    ASSUME NEW left, NEW right, SortedByTime(left), SortedByTime(right),
           NEW t \in 1 .. Len(left) + Len(right), NEW k \in Nat, Divides(left, right, t - 1, k)
    PROVE  Divides(left, right, t, IF LeftFirst(left, right, k + 1, t - k) THEN k + 1 ELSE k)
<1> DEFINE L == Len(left)
           R == Len(right)
           r == t - 1 - k
<1>1. /\ L \in Nat /\ R \in Nat /\ k \in 0 .. L /\ r \in 0 .. R /\ t - k = r + 1 /\ t - 1 - k = r
      /\ t - (k + 1) = r /\ k + r < L + R
  BY DEF SortedByTime, Divides
<1>2. /\ \A i \in 1 .. k, j \in r + 1 .. R : left[i].timestamp <= right[j].timestamp
      /\ \A j \in 1 .. r, i \in k + 1 .. L : right[j].timestamp < left[i].timestamp
  BY DEF Divides
<1>3. /\ \A i \in 1 .. L : left[i].timestamp \in Nat
      /\ \A i, j \in 1 .. L : i <= j => left[i].timestamp <= left[j].timestamp
      /\ \A i \in 1 .. R : right[i].timestamp \in Nat
      /\ \A i, j \in 1 .. R : i <= j => right[i].timestamp <= right[j].timestamp
  BY DEF SortedByTime
<1>4. CASE LeftFirst(left, right, k + 1, t - k)
  <2>1. k + 1 <= L /\ (r + 1 <= R => left[k + 1].timestamp <= right[r + 1].timestamp)
    BY <1>1, <1>4 DEF LeftFirst
  <2> HIDE DEF L, R, r
  <2>2. k + 1 \in 1 .. L /\ k + 1 \in 0 .. L
    BY <1>1, <2>1
  <2>3. ASSUME NEW j \in r + 1 .. R
        PROVE  left[k + 1].timestamp <= right[j].timestamp
    <3>1. r + 1 \in 1 .. R /\ j \in 1 .. R /\ r + 1 <= j /\ r + 1 <= R
      BY <1>1
    <3>2. right[r + 1].timestamp <= right[j].timestamp
      BY <1>3, <3>1
    <3> QED
      BY <1>3, <2>1, <2>2, <3>1, <3>2
  <2>4. \A i \in 1 .. k + 1, j \in r + 1 .. R : left[i].timestamp <= right[j].timestamp
    <3>1. \A i \in 1 .. k + 1 : i \in 1 .. k \/ i = k + 1
      BY <1>1
    <3> QED
      BY <1>2, <2>3, <3>1
  <2>5. \A j \in 1 .. r, i \in (k + 1) + 1 .. L : right[j].timestamp < left[i].timestamp
    <3>1. \A i \in (k + 1) + 1 .. L : i \in k + 1 .. L
      BY <1>1
    <3> QED
      BY <1>2, <3>1
  <2> QED
    BY <1>1, <1>4, <2>2, <2>4, <2>5 DEF Divides, L, R
<1>5. CASE ~LeftFirst(left, right, k + 1, t - k)
  <2>1. ~(k + 1 <= L /\ (r + 1 <= R => left[k + 1].timestamp <= right[r + 1].timestamp))
    BY <1>1, <1>5 DEF LeftFirst
  <2> HIDE DEF L, R, r
  <2>2. r + 1 \in 0 .. R /\ r + 1 \in 1 .. R
    BY <1>1, <2>1
  <2>3. ASSUME NEW i \in k + 1 .. L
        PROVE  right[r + 1].timestamp < left[i].timestamp
    <3>1. k + 1 \in 1 .. L /\ i \in 1 .. L /\ k + 1 <= i /\ k + 1 <= L /\ r + 1 <= R
      BY <1>1, <2>2
    <3>2. ~(left[k + 1].timestamp <= right[r + 1].timestamp)
      BY <2>1, <3>1
    <3>3. left[k + 1].timestamp <= left[i].timestamp
      BY <1>3, <3>1
    <3>4. left[k + 1].timestamp \in Nat /\ left[i].timestamp \in Nat /\ right[r + 1].timestamp \in Nat
      BY <1>3, <2>2, <3>1
    <3> QED
      BY <3>2, <3>3, <3>4
  <2>4. \A j \in 1 .. r + 1, i \in k + 1 .. L : right[j].timestamp < left[i].timestamp
    <3>1. \A j \in 1 .. r + 1 : j \in 1 .. r \/ j = r + 1
      BY <1>1
    <3> QED
      BY <1>2, <2>3, <3>1
  <2>5. \A i \in 1 .. k, j \in (r + 1) + 1 .. R : left[i].timestamp <= right[j].timestamp
    <3>1. \A j \in (r + 1) + 1 .. R : j \in r + 1 .. R
      BY <1>1
    <3> QED
      BY <1>2, <3>1
  <2> QED
    BY <1>1, <1>5, <2>2, <2>4, <2>5 DEF Divides, L, R
<1> QED
  BY <1>4, <1>5

(* So do all turns up to any one.                                          *)
LEMMA TakenDivides ==
    ASSUME NEW left, NEW right, SortedByTime(left), SortedByTime(right)
    PROVE  \A t \in 0 .. Len(left) + Len(right) : Divides(left, right, t, Taken(left, right)[t])
<1> DEFINE N == Len(left) + Len(right)
           taken == Taken(left, right)
           T == {t \in 0 .. N : Divides(left, right, t, taken[t])}
<1>1. Len(left) \in Nat /\ Len(right) \in Nat /\ N \in Nat
  BY DEF SortedByTime
<1>2. /\ taken[0] = 0
      /\ \A t \in 1 .. N : /\ taken[t - 1] \in Nat
                          /\ taken[t] = IF LeftFirst(left, right, taken[t - 1] + 1, t - taken[t - 1])
                                        THEN taken[t - 1] + 1 ELSE taken[t - 1]
  BY <1>1, TakenSteps
<1> HIDE DEF taken
<1>3. 0 \in T
  BY <1>1, <1>2 DEF Divides
<1>4. ASSUME NEW t \in 1 .. N, t - 1 \in T
      PROVE  t \in T
  <2>1. t \in 0 .. N
    BY <1>1
  <2>2. Divides(left, right, t - 1, taken[t - 1]) /\ taken[t - 1] \in Nat
    BY <1>2, <1>4
  <2>3. Divides(left, right, t, taken[t])
    BY <1>2, <2>2, TurnDivides
  <2> QED
    BY <2>1, <2>3
<1> HIDE DEF T, N
<1>5. \A t \in 0 .. N : t \in T
  BY <1>1, <1>3, <1>4, UpTo
<1> QED
  BY <1>5 DEF T, N, taken

(* merge() puts both halves in order: of a log whose first part is in the  *)
(* left half, it copies every position once.                               *)
LEMMA MergeInOrder ==
    ASSUME NEW log \in Seq(Entries), NEW P \in SUBSET (1 .. Len(log)),
           NEW Q \in SUBSET (1 .. Len(log)), \A p \in P, q \in Q : p < q,
           NEW left, NEW right, InOrder(log, P, left), InOrder(log, Q, right)
    PROVE  InOrder(log, P \cup Q, Merge(left, right))
<1> DEFINE L == Len(left)
           R == Len(right)
           N == L + R
           taken == Taken(left, right)
           rights == [t \in 0 .. N |-> t - taken[t]]
           merged == Merge(left, right)
<1>1. /\ left \in Seq(Entries) /\ right \in Seq(Entries) /\ L \in Nat /\ R \in Nat
      /\ SortedByTime(left) /\ SortedByTime(right)
  BY InOrderSorted DEF SortedByTime
<1>2. PICK pl : Places(log, P, left, pl)
  BY DEF InOrder
<1>3. PICK pr : Places(log, Q, right, pr)
  BY DEF InOrder
<1>4. /\ \A t \in 1 .. N : taken[t - 1] \in Nat
      /\ Counter(taken, N)
      /\ taken[0] = 0
  BY <1>1, TakenSteps
<1>5. \A t \in 0 .. N : Divides(left, right, t, taken[t])
  BY <1>1, TakenDivides
<1>6. merged = [t \in 1 .. N |-> IF taken[t] > taken[t - 1] THEN left[taken[t]]
                                 ELSE right[t - taken[t]]]
  BY DEF Merge
<1> HIDE DEF taken, merged
<1>7. N \in Nat
  BY <1>1
<1>8. \A t \in 0 .. N : taken[t] \in 0 .. L /\ rights[t] \in 0 .. R /\ rights[t] = t - taken[t]
  <2>1. \A t \in 0 .. N : rights[t] = t - taken[t]
    OBVIOUS
  <2> HIDE DEF rights
  <2> QED
    BY <1>5, <2>1 DEF Divides
<1>9. \A t \in 1 .. N : t \in 0 .. N /\ t - 1 \in 0 .. N
  BY <1>7
<1>10. \A t \in 1 .. N : \/ taken[t] = taken[t - 1] + 1 /\ rights[t] = rights[t - 1]
                         \/ taken[t] = taken[t - 1] /\ rights[t] = rights[t - 1] + 1
  <2> SUFFICES ASSUME NEW t \in 1 .. N
               PROVE  \/ taken[t] = taken[t - 1] + 1 /\ rights[t] = rights[t - 1]
                      \/ taken[t] = taken[t - 1] /\ rights[t] = rights[t - 1] + 1
    OBVIOUS
  <2>1. taken[t] \in {taken[t - 1], taken[t - 1] + 1} /\ taken[t - 1] \in Nat
    BY <1>4 DEF Counter
  <2>2. rights[t] = t - taken[t] /\ rights[t - 1] = t - 1 - taken[t - 1] /\ t \in Int
    BY <1>8, <1>9
  <2> HIDE DEF rights
  <2> QED
    BY <2>1, <2>2
<1>11. Counter(rights, N)
  <2>1. rights[0] = 0
    BY <1>4, <1>7
  <2> HIDE DEF rights, N
  <2> QED
    BY <1>10, <2>1 DEF Counter
<1> HIDE DEF rights
<1>12. /\ \A s, t \in 0 .. N : s <= t => taken[s] <= taken[t]
       /\ \A s, t \in 0 .. N : s <= t => rights[s] <= rights[t]
  <2> HIDE DEF N
  <2> QED
    BY <1>4, <1>7, <1>11, CounterRises
<1>13. taken[N] = L /\ rights[N] = R
  <2>1. N \in 0 .. N
    BY <1>7
  <2>2. taken[N] \in 0 .. L /\ rights[N] \in 0 .. R /\ rights[N] = N - taken[N]
    BY <1>8, <2>1
  <2> QED
    BY <1>1, <2>2
<1> DEFINE FromLeft(t) == taken[t] > taken[t - 1]
           place == [t \in 1 .. N |-> IF FromLeft(t) THEN pl[taken[t]] ELSE pr[rights[t]]]
<1>14. \A t \in 1 .. N :
          /\ FromLeft(t) => /\ taken[t] \in 1 .. L /\ taken[t] = taken[t - 1] + 1
                            /\ rights[t] = rights[t - 1]
          /\ ~FromLeft(t) => /\ rights[t] \in 1 .. R /\ rights[t] = rights[t - 1] + 1
                             /\ taken[t] = taken[t - 1]
  <2> SUFFICES ASSUME NEW t \in 1 .. N
               PROVE  /\ FromLeft(t) => /\ taken[t] \in 1 .. L /\ taken[t] = taken[t - 1] + 1
                                        /\ rights[t] = rights[t - 1]
                      /\ ~FromLeft(t) => /\ rights[t] \in 1 .. R /\ rights[t] = rights[t - 1] + 1
                                         /\ taken[t] = taken[t - 1]
    OBVIOUS
  <2>1. /\ taken[t] \in 0 .. L /\ taken[t - 1] \in 0 .. L
        /\ rights[t] \in 0 .. R /\ rights[t - 1] \in 0 .. R
    BY <1>8, <1>9
  <2>2. \/ taken[t] = taken[t - 1] + 1 /\ rights[t] = rights[t - 1]
        \/ taken[t] = taken[t - 1] /\ rights[t] = rights[t - 1] + 1
    BY <1>10
  <2> QED
    BY <1>1, <2>1, <2>2
<1>15. /\ pl \in [1 .. L -> P] /\ pr \in [1 .. R -> Q]
       /\ \A i \in 1 .. L : left[i] = log[pl[i]]
       /\ \A i \in 1 .. R : right[i] = log[pr[i]]
       /\ \A i, j \in 1 .. L : i < j => Earlier(log, pl[i], pl[j])
       /\ \A i, j \in 1 .. R : i < j => Earlier(log, pr[i], pr[j])
       /\ \A p \in P : \E i \in 1 .. L : pl[i] = p
       /\ \A q \in Q : \E i \in 1 .. R : pr[i] = q
  BY <1>2, <1>3 DEF Places
<1>16. \A t \in 1 .. N : /\ FromLeft(t) => place[t] = pl[taken[t]] /\ merged[t] = left[taken[t]]
                         /\ ~FromLeft(t) => place[t] = pr[rights[t]] /\ merged[t] = right[rights[t]]
  BY <1>6, <1>8, <1>9
<1>17. place \in [1 .. N -> P \cup Q]
  <2> HIDE DEF N, FromLeft
  <2> QED
    BY <1>14, <1>15
<1>18. \A t \in 1 .. N : merged[t] = log[place[t]] /\ merged[t] \in Entries
  <2>1. \A t \in 1 .. N : merged[t] = log[place[t]]
    <3> HIDE DEF N, FromLeft, place
    <3> QED
      BY <1>14, <1>15, <1>16
  <2>2. \A p \in P \cup Q : log[p] \in Entries
    BY ElementOfSeq
  <2> HIDE DEF N, FromLeft, place
  <2> QED
    BY <1>17, <2>1, <2>2
<1>19. merged \in Seq(Entries) /\ Len(merged) = N
  <2>1. merged = [t \in 1 .. N |-> merged[t]]
    BY <1>6
  <2> HIDE DEF N
  <2> QED
    BY <1>7, <1>18, <2>1
<1>20. ASSUME NEW p \in P \cup Q
       PROVE  \E t \in 1 .. N : place[t] = p
  <2>1. CASE p \in P
    <3>1. PICK i \in 1 .. L : pl[i] = p
      BY <1>15, <2>1
    <3>2. PICK t \in 1 .. N : taken[t] = i /\ taken[t - 1] = i - 1
      BY <1>4, <1>7, <1>13, CounterPasses
    <3>3. FromLeft(t)
      BY <1>1, <3>2
    <3> QED
      BY <1>16, <3>1, <3>2, <3>3
  <2>2. CASE p \in Q
    <3>1. PICK i \in 1 .. R : pr[i] = p
      BY <1>15, <2>2
    <3>2. PICK t \in 1 .. N : rights[t] = i /\ rights[t - 1] = i - 1
      BY <1>7, <1>11, <1>13, CounterPasses
    <3>3. i - 1 # i
      BY <1>1
    <3>4. ~FromLeft(t)
      BY <1>14, <3>2, <3>3, Zenon
    <3> QED
      BY <1>16, <3>1, <3>2, <3>4
  <2> QED
    BY <2>1, <2>2
<1>21. ASSUME NEW s \in 1 .. N, NEW t \in 1 .. N, s < t
       PROVE  Earlier(log, place[s], place[t])
  <2>1. /\ s \in 0 .. N /\ t \in 0 .. N /\ t - 1 \in 0 .. N /\ s <= t - 1
    BY <1>9, <1>21
  <2>2. taken[s] <= taken[t - 1] /\ rights[s] <= rights[t - 1]
    BY <1>12, <2>1
  <2>3. /\ taken[s] \in 0 .. L /\ taken[t - 1] \in 0 .. L /\ taken[t] \in 0 .. L
        /\ rights[s] \in 0 .. R /\ rights[t - 1] \in 0 .. R /\ rights[t] \in 0 .. R
    BY <1>8, <2>1
  <2>4. Divides(left, right, s, taken[s]) /\ s - taken[s] = rights[s]
    BY <1>5, <1>8, <2>1
  <2>5. CASE FromLeft(s) /\ FromLeft(t)
    <3>1. taken[s] \in 1 .. L /\ taken[t] \in 1 .. L /\ taken[s] < taken[t]
      BY <1>1, <1>14, <2>2, <2>3, <2>5
    <3> QED
      BY <1>15, <1>16, <2>5, <3>1
  <2>6. CASE FromLeft(s) /\ ~FromLeft(t)
    <3>1. taken[s] \in 1 .. L /\ rights[t] \in 1 .. R /\ rights[t] = rights[t - 1] + 1
      BY <1>14, <2>6
    <3>2. taken[s] \in 1 .. taken[s] /\ rights[t] \in rights[s] + 1 .. R
      BY <1>1, <2>2, <2>3, <3>1
    <3>3. left[taken[s]].timestamp <= right[rights[t]].timestamp
      BY <2>4, <3>2 DEF Divides
    <3>4. pl[taken[s]] \in P /\ pr[rights[t]] \in Q
      BY <1>15, <3>1
    <3>5. pl[taken[s]] < pr[rights[t]]
      BY <3>4
    <3>6. left[taken[s]].timestamp \in Nat /\ right[rights[t]].timestamp \in Nat
      BY <1>1, <3>1 DEF SortedByTime
    <3>7. \/ left[taken[s]].timestamp < right[rights[t]].timestamp
          \/ left[taken[s]].timestamp = right[rights[t]].timestamp
      BY <3>3, <3>6
    <3>8. left[taken[s]] = log[place[s]] /\ right[rights[t]] = log[place[t]] /\ place[s] < place[t]
      BY <1>15, <1>16, <2>6, <3>1, <3>5
    <3> QED
      BY <3>7, <3>8, Zenon DEF Earlier
  <2>7. CASE ~FromLeft(s) /\ FromLeft(t)
    <3>1. rights[s] \in 1 .. R /\ taken[t] \in 1 .. L /\ taken[t] = taken[t - 1] + 1
      BY <1>14, <2>7
    <3>2. rights[s] \in 1 .. rights[s] /\ taken[t] \in taken[s] + 1 .. L
      BY <1>1, <2>2, <2>3, <3>1
    <3>3. right[rights[s]].timestamp < left[taken[t]].timestamp
      BY <2>4, <3>2 DEF Divides
    <3>4. right[rights[s]] = log[place[s]] /\ left[taken[t]] = log[place[t]]
      BY <1>15, <1>16, <2>7, <3>1
    <3> QED
      BY <3>3, <3>4, Zenon DEF Earlier
  <2>8. CASE ~FromLeft(s) /\ ~FromLeft(t)
    <3>1. rights[s] \in 1 .. R /\ rights[t] \in 1 .. R /\ rights[s] < rights[t]
      BY <1>1, <1>14, <2>2, <2>3, <2>8
    <3> QED
      BY <1>15, <1>16, <2>8, <3>1
  <2> QED
    BY <2>5, <2>6, <2>7, <2>8
<1> HIDE DEF place, N
<1>22. Places(log, P \cup Q, merged, place)
  BY <1>17, <1>18, <1>19, <1>20, <1>21 DEF Places
<1> QED
  BY <1>19, <1>22 DEF InOrder, merged

(* What merge() makes has the entries of both halves and no others.        *)
LEMMA MergeType ==
    ASSUME NEW left \in Seq(Entries), NEW right \in Seq(Entries)
    PROVE  Merge(left, right) \in Seq(Entries)
<1> DEFINE L == Len(left)
           R == Len(right)
           N == L + R
           taken == Taken(left, right)
           T == {t \in 0 .. N : taken[t] \in 0 .. L /\ t - taken[t] \in 0 .. R}
<1>1. L \in Nat /\ R \in Nat /\ N \in Nat
  BY LenProperties
<1>2. /\ taken[0] = 0
      /\ \A t \in 1 .. N : /\ taken[t - 1] \in Nat
                          /\ taken[t] = IF LeftFirst(left, right, taken[t - 1] + 1, t - taken[t - 1])
                                        THEN taken[t - 1] + 1 ELSE taken[t - 1]
  BY <1>1, TakenSteps
<1> HIDE DEF taken
<1>3. 0 \in T
  BY <1>1, <1>2
<1>4. ASSUME NEW t \in 1 .. N, t - 1 \in T
      PROVE  t \in T
  <2> DEFINE k == taken[t - 1]
  <2>1. k \in 0 .. L /\ t - 1 - k \in 0 .. R /\ t \in 0 .. N /\ k \in Nat
    BY <1>1, <1>4
  <2>2. CASE LeftFirst(left, right, k + 1, t - k)
    <3>1. taken[t] = k + 1 /\ k + 1 <= L
      BY <1>2, <2>2 DEF LeftFirst
    <3> QED
      BY <1>1, <2>1, <3>1
  <2>3. CASE ~LeftFirst(left, right, k + 1, t - k)
    <3>1. taken[t] = k
      BY <1>2, <2>3
    <3> HIDE DEF k, L, R
    <3>2. t - k <= R \/ k + 1 <= L
      BY <1>1, <2>1 DEF N
    <3>3. ~(k + 1 <= L) \/ t - k <= R
      BY <2>3, <3>2 DEF LeftFirst, L, R
    <3>4. t - k \in 0 .. R
      BY <1>1, <2>1, <3>2, <3>3
    <3> QED
      BY <2>1, <3>1, <3>4
  <2> QED
    BY <2>2, <2>3
<1> HIDE DEF T
<1>5. \A t \in 0 .. N : t \in T
  BY <1>1, <1>3, <1>4, UpTo
<1>6. \A t \in 1 .. N : /\ taken[t] > taken[t - 1] => taken[t] \in 1 .. L
                        /\ ~(taken[t] > taken[t - 1]) => t - taken[t] \in 1 .. R
  <2> SUFFICES ASSUME NEW t \in 1 .. N
               PROVE  /\ taken[t] > taken[t - 1] => taken[t] \in 1 .. L
                      /\ ~(taken[t] > taken[t - 1]) => t - taken[t] \in 1 .. R
    OBVIOUS
  <2>1. t \in T /\ t - 1 \in T
    BY <1>1, <1>5
  <2>2. /\ taken[t] \in 0 .. L /\ t - taken[t] \in 0 .. R
        /\ taken[t - 1] \in 0 .. L /\ t - 1 - taken[t - 1] \in 0 .. R
    BY <2>1 DEF T
  <2>3. taken[t] \in {taken[t - 1], taken[t - 1] + 1}
    BY <1>2
  <2> QED
    BY <1>1, <2>2, <2>3
<1>7. /\ \A i \in 1 .. L : left[i] \in Entries
      /\ \A i \in 1 .. R : right[i] \in Entries
  BY ElementOfSeq
<1> DEFINE m(t) == IF taken[t] > taken[t - 1] THEN left[taken[t]] ELSE right[t - taken[t]]
<1>8. \A t \in 1 .. N : m(t) \in Entries
  BY <1>6, <1>7
<1>9. Merge(left, right) = [t \in 1 .. N |-> m(t)]
  BY DEF Merge, taken
<1> HIDE DEF m, N
<1> QED
  BY <1>1, <1>8, <1>9

MiddleOf(r) == r.left + (r.right - r.left) \div 2
LeftHalf(r) == [left |-> r.left, right |-> MiddleOf(r)]
RightHalf(r) == [left |-> MiddleOf(r) + 1, right |-> r.right]

(* Both halves of a range are smaller, and together they are the range.    *)
LEMMA Halves ==
    ASSUME NEW arr, Len(arr) \in Nat, DOMAIN arr = 1 .. Len(arr),
           NEW r \in Ranges(arr), r.left < r.right
    PROVE  /\ LeftHalf(r) \in Ranges(arr) /\ RightHalf(r) \in Ranges(arr)
           /\ MiddleOf(r) \in r.left .. r.right - 1
           /\ LeftHalf(r).left = r.left /\ LeftHalf(r).right = MiddleOf(r)
           /\ RightHalf(r).left = MiddleOf(r) + 1 /\ RightHalf(r).right = r.right
<1>1. r.left \in 1 .. Len(arr) /\ r.right \in 1 .. Len(arr)
  BY DEF Ranges
<1>2. MiddleOf(r) \in r.left .. r.right - 1
  <2>1. \A a, b \in Int : a < b => a + (b - a) \div 2 \in a .. b - 1
    <3> SUFFICES ASSUME NEW a \in Int, NEW b \in Int, a < b
                 PROVE  a + (b - a) \div 2 \in a .. b - 1
      OBVIOUS
    <3>1. \A d \in Nat : d > 0 => d \div 2 \in 0 .. d - 1
      OBVIOUS
    <3>2. b - a \in Nat /\ b - a > 0
      OBVIOUS
    <3>3. (b - a) \div 2 \in 0 .. b - a - 1
      BY <3>1, <3>2
    <3> QED
      BY <3>3
  <2> QED
    BY <1>1, <2>1 DEF MiddleOf
<1>3. MiddleOf(r) \in 1 .. Len(arr) /\ MiddleOf(r) + 1 \in 1 .. Len(arr)
  BY <1>1, <1>2
<1> QED
  BY <1>1, <1>2, <1>3 DEF LeftHalf, RightHalf, Ranges

(* mergeSort() as its recursion defines it. *)
LEMMA SortedSteps ==
    ASSUME NEW arr \in Seq(Entries), NEW r \in Ranges(arr)
    PROVE  Sorted(arr)[r] = IF r.left >= r.right THEN SubSeq(arr, r.left, r.right)
                            ELSE Merge(Sorted(arr)[LeftHalf(r)], Sorted(arr)[RightHalf(r)])
<1> DEFINE D == Ranges(arr)
           V == Seq(Entries)
           N == Len(arr)
           measure == [x \in D |-> IF x.left >= x.right THEN 0 ELSE x.right - x.left]
           Value(g, x) == IF x.left >= x.right THEN SubSeq(arr, x.left, x.right)
                          ELSE Merge(g[LeftHalf(x)], g[RightHalf(x)])
           body == [g \in [D -> V] |-> [x \in D |-> Value(g, x)]]
           Loop(f) == f = [x \in D |-> Value(f, x)]
<1>1. /\ N \in Nat /\ DOMAIN arr = 1 .. N
      /\ \A x \in D : x.left \in 1 .. N /\ x.right \in 1 .. N
  BY LenProperties DEF Ranges
<1>2. V # {}
  OBVIOUS
<1>3. measure \in [D -> 0 .. N]
  <2>1. \A x \in D : (IF x.left >= x.right THEN 0 ELSE x.right - x.left) \in 0 .. N
    <3> HIDE DEF D
    <3> QED
      BY <1>1
  <2> HIDE DEF D
  <2> QED
    BY <2>1
<1>4. ASSUME NEW x \in D, ~(x.left >= x.right)
      PROVE  /\ LeftHalf(x) \in D /\ RightHalf(x) \in D
             /\ measure[LeftHalf(x)] < measure[x]
             /\ measure[RightHalf(x)] < measure[x]
  <2>1. x.left < x.right
    BY <1>1, <1>4
  <2>2. /\ LeftHalf(x) \in D /\ RightHalf(x) \in D
        /\ MiddleOf(x) \in x.left .. x.right - 1
        /\ LeftHalf(x).left = x.left /\ LeftHalf(x).right = MiddleOf(x)
        /\ RightHalf(x).left = MiddleOf(x) + 1 /\ RightHalf(x).right = x.right
    BY <1>1, <2>1, Halves
  <2>3. \A y \in D : measure[y] = IF y.left >= y.right THEN 0 ELSE y.right - y.left
    OBVIOUS
  <2> HIDE DEF measure, D
  <2>4. measure[x] = x.right - x.left /\ x.left \in Int /\ x.right \in Int
    BY <1>1, <1>4, <2>3
  <2>5. measure[LeftHalf(x)] = IF x.left >= MiddleOf(x) THEN 0 ELSE MiddleOf(x) - x.left
    BY <2>2, <2>3
  <2>6. measure[RightHalf(x)] = IF MiddleOf(x) + 1 >= x.right THEN 0 ELSE x.right - (MiddleOf(x) + 1)
    BY <2>2, <2>3
  <2> QED
    BY <2>1, <2>2, <2>4, <2>5, <2>6
<1>5. ASSUME NEW g \in [D -> V], NEW x \in D
      PROVE  Value(g, x) \in V
  <2>1. CASE x.left >= x.right
    <3>1. SubSeq(arr, x.left, x.right) \in V
      BY <1>1
    <3> QED
      BY <2>1, <3>1
  <2>2. CASE ~(x.left >= x.right)
    <3>1. g[LeftHalf(x)] \in V /\ g[RightHalf(x)] \in V
      <4> HIDE DEF D
      <4> QED
        BY <1>4, <2>2
    <3>2. Merge(g[LeftHalf(x)], g[RightHalf(x)]) \in V
      BY <3>1, MergeType
    <3> QED
      BY <2>2, <3>2
  <2> QED
    BY <2>1, <2>2
<1>6. body \in [[D -> V] -> [D -> V]]
  <2> HIDE DEF D, V, Value
  <2> QED
    BY <1>5
<1>7. \A g \in [D -> V] : body[g] = [x \in D |-> Value(g, x)]
  OBVIOUS
<1>13. \A g \in [D -> V] : \A x \in D : body[g][x] = Value(g, x)
  BY <1>7
<1>8. ASSUME NEW g \in [D -> V], NEW h \in [D -> V], NEW n \in 0 .. N,
             \A x \in D : measure[x] < n => g[x] = h[x],
             NEW x \in D, measure[x] <= n
      PROVE  body[g][x] = body[h][x]
  <2>1. CASE x.left >= x.right
    <3>1. Value(g, x) = Value(h, x)
      BY <2>1
    <3> HIDE DEF body, Value, D, V
    <3> QED
      BY <1>13, <3>1
  <2>2. CASE ~(x.left >= x.right)
    <3>1. /\ LeftHalf(x) \in D /\ RightHalf(x) \in D
          /\ measure[LeftHalf(x)] < measure[x] /\ measure[RightHalf(x)] < measure[x]
      BY <1>4, <2>2
    <3>2. measure[LeftHalf(x)] \in 0 .. N /\ measure[RightHalf(x)] \in 0 .. N /\ measure[x] \in 0 .. N
      <4> HIDE DEF measure, D
      <4> QED
        BY <1>3, <3>1
    <3>3. measure[LeftHalf(x)] < n /\ measure[RightHalf(x)] < n
      <4> HIDE DEF measure, N
      <4> QED
        BY <1>1, <1>8, <3>1, <3>2
    <3> HIDE DEF measure, D, V, body
    <3>4. g[LeftHalf(x)] = h[LeftHalf(x)] /\ g[RightHalf(x)] = h[RightHalf(x)]
      BY <1>8, <3>1, <3>3
    <3>5. Value(g, x) = Value(h, x)
      BY <3>4
    <3> HIDE DEF Value
    <3> QED
      BY <1>13, <3>5
  <2> QED
    BY <2>1, <2>2
<1>9. \E f : f \in FixedPoints(D, V, body)
  <2> HIDE DEF D, V, N, measure, body
  <2>1. Descends(D, V, N, measure, body)
    BY <1>8 DEF Descends
  <2> QED
    BY <1>1, <1>2, <1>3, <1>6, <2>1, RecursionExists
<1>10. PICK f \in [D -> V] : Loop(f)
  <2> HIDE DEF D, V, body, Value
  <2> QED
    BY <1>7, <1>9 DEF FixedPoints
<1>11. Loop(Sorted(arr))
  <2>1. Sorted(arr) = CHOOSE g : Loop(g)
    BY DEF Sorted, LeftHalf, RightHalf, MiddleOf
  <2> HIDE DEF Loop
  <2> QED
    BY <1>10, <2>1
<1>12. \A x \in D : Sorted(arr)[x] = Value(Sorted(arr), x)
  <2> HIDE DEF D, Value
  <2> QED
    BY <1>11, Zenon
<1> QED
  BY <1>12

(* One entry is in order. *)
LEMMA OneInOrder ==
    ASSUME NEW log \in Seq(Entries), NEW n \in 1 .. Len(log)
    PROVE  InOrder(log, n .. n, SubSeq(log, n, n))
<1> DEFINE s == SubSeq(log, n, n)
           place == [i \in 1 .. 1 |-> n]
<1>1. s \in Seq(Entries) /\ Len(s) = 1 /\ s[1] = log[n]
  BY SubSeqProperties
<1> HIDE DEF s
<1>2. place \in [1 .. 1 -> n .. n] /\ place[1] = n /\ \A i \in 1 .. 1 : i = 1
  OBVIOUS
<1>3. \A p \in n .. n : p = n
  OBVIOUS
<1>4. ~(1 < 1) /\ 1 \in 1 .. 1
  OBVIOUS
<1> HIDE DEF place
<1>5. Places(log, n .. n, s, place)
  BY <1>1, <1>2, <1>3, <1>4 DEF Places
<1> QED
  BY <1>1, <1>5 DEF InOrder, s

(* mergeSort() sorts each range, whatever its length. *)
LEMMA SortedInOrder ==
    ASSUME NEW log \in Seq(Entries), NEW r \in Ranges(log), r.left <= r.right
    PROVE  InOrder(log, r.left .. r.right, Sorted(log)[r])
<1> DEFINE N == Len(log)
           Done(x) == InOrder(log, x.left .. x.right, Sorted(log)[x])
           T == {n \in 0 .. N : \A x \in Ranges(log) :
                    x.left <= x.right /\ x.right - x.left <= n => Done(x)}
<1>1. N \in Nat /\ DOMAIN log = 1 .. N
  BY LenProperties
<1>2. \A x \in Ranges(log) : x.left \in 1 .. N /\ x.right \in 1 .. N
  BY <1>1 DEF Ranges
<1> HIDE DEF N
<1>3. ASSUME NEW x \in Ranges(log), x.left = x.right
      PROVE  Done(x)
  <2>1. Sorted(log)[x] = SubSeq(log, x.left, x.right)
    <3>1. x.left \in Int /\ x.right \in Int
      BY <1>2
    <3>2. x.left >= x.right
      BY <1>3, <3>1
    <3> QED
      BY <3>2, SortedSteps
  <2>2. InOrder(log, x.left .. x.left, SubSeq(log, x.left, x.left))
    BY <1>2, OneInOrder DEF N
  <2> QED
    BY <1>3, <2>1, <2>2
<1>4. 0 \in T
  <2>1. \A x \in Ranges(log) : x.left <= x.right /\ x.right - x.left <= 0 => x.left = x.right
    BY <1>2
  <2> HIDE DEF Done
  <2> QED
    BY <1>1, <1>3, <2>1
<1>5. ASSUME NEW n \in 1 .. N, n - 1 \in T
      PROVE  n \in T
  <2>1. n \in 0 .. N
    BY <1>1
  <2>2. SUFFICES ASSUME NEW x \in Ranges(log), x.left <= x.right, x.right - x.left <= n
                 PROVE  Done(x)
    BY <2>1
  <2>3. CASE x.left < x.right
    <3> DEFINE m == MiddleOf(x)
    <3>1. /\ LeftHalf(x) \in Ranges(log) /\ RightHalf(x) \in Ranges(log)
          /\ m \in x.left .. x.right - 1
          /\ LeftHalf(x).left = x.left /\ LeftHalf(x).right = m
          /\ RightHalf(x).left = m + 1 /\ RightHalf(x).right = x.right
      BY <1>1, <2>3, Halves DEF N
    <3> HIDE DEF m
    <3>2. x.left \in 1 .. N /\ x.right \in 1 .. N
      BY <1>2
    <3>3. /\ x.left <= m /\ m - x.left <= n - 1
          /\ m + 1 <= x.right /\ x.right - (m + 1) <= n - 1
      BY <2>2, <3>1, <3>2
    <3>4. Done(LeftHalf(x)) /\ Done(RightHalf(x))
      <4>1. \A y \in Ranges(log) : y.left <= y.right /\ y.right - y.left <= n - 1 => Done(y)
        BY <1>5
      <4> HIDE DEF Done
      <4> QED
        BY <3>1, <3>3, <4>1
    <3>5. /\ InOrder(log, x.left .. m, Sorted(log)[LeftHalf(x)])
          /\ InOrder(log, m + 1 .. x.right, Sorted(log)[RightHalf(x)])
      BY <3>1, <3>4
    <3>6. /\ x.left .. m \in SUBSET (1 .. N) /\ m + 1 .. x.right \in SUBSET (1 .. N)
          /\ \A p \in x.left .. m, q \in m + 1 .. x.right : p < q
          /\ (x.left .. m) \cup (m + 1 .. x.right) = x.left .. x.right
      <4>1. \A a, b \in 1 .. N : \A c \in a .. b - 1 :
                /\ a .. c \subseteq 1 .. N /\ c + 1 .. b \subseteq 1 .. N
                /\ \A p \in a .. c, q \in c + 1 .. b : p < q
                /\ (a .. c) \cup (c + 1 .. b) = a .. b
        BY <1>1
      <4> QED
        BY <3>1, <3>2, <4>1
    <3>7. InOrder(log, (x.left .. m) \cup (m + 1 .. x.right),
                  Merge(Sorted(log)[LeftHalf(x)], Sorted(log)[RightHalf(x)]))
      BY <3>5, <3>6, MergeInOrder DEF N
    <3>8. Sorted(log)[x] = Merge(Sorted(log)[LeftHalf(x)], Sorted(log)[RightHalf(x)])
      <4>1. ~(x.left >= x.right)
        BY <2>3, <3>2
      <4> QED
        BY <4>1, SortedSteps
    <3> QED
      BY <3>6, <3>7, <3>8
  <2>4. CASE ~(x.left < x.right)
    <3>1. x.left = x.right
      BY <1>2, <2>2, <2>4
    <3> QED
      BY <1>3, <3>1
  <2> QED
    BY <2>3, <2>4
<1>6. N \in T
  <2>1. N \in 0 .. N
    BY <1>1
  <2> HIDE DEF T
  <2>2. \A n \in 0 .. N : n \in T
    BY <1>1, <1>4, <1>5, UpTo
  <2> QED
    BY <2>1, <2>2
<1>7. r.right - r.left <= N
  <2>1. r.left \in 1 .. N /\ r.right \in 1 .. N
    BY <1>2
  <2> QED
    BY <1>1, <2>1
<1> HIDE DEF Done
<1>8. Done(r)
  BY <1>6, <1>7
<1> QED
  BY <1>8 DEF Done

(* sortByTimestamp() puts all entries of a timeline in order. *)
LEMMA SortByTimestampInOrder ==
    ASSUME NEW arr \in Seq(Entries)
    PROVE  InOrder(arr, 1 .. Len(arr), SortByTimestamp(arr))
<1> DEFINE N == Len(arr)
           all == [left |-> 1, right |-> N]
<1>1. N \in Nat /\ DOMAIN arr = 1 .. N
  BY LenProperties
<1>2. CASE N = 0
  <2>1. SortByTimestamp(arr) = arr
    BY <1>2 DEF SortByTimestamp
  <2> DEFINE place == [i \in 1 .. 0 |-> 0]
  <2>2. 1 .. N = {} /\ 1 .. 0 = {}
    BY <1>2
  <2>3. place \in [1 .. N -> 1 .. N]
    BY <2>2
  <2> HIDE DEF place, N
  <2>4. Places(arr, 1 .. N, arr, place)
    BY <2>2, <2>3 DEF Places, N
  <2> QED
    BY <2>1, <2>4 DEF InOrder, N
<1>3. CASE N = 1
  <2>1. InOrder(arr, 1 .. 1, SubSeq(arr, 1, 1))
    <3>1. 1 \in 1 .. Len(arr)
      BY <1>3
    <3> QED
      BY <3>1, OneInOrder
  <2>2. SubSeq(arr, 1, 1) = arr
    BY <1>3
  <2>3. SortByTimestamp(arr) = arr
    BY <1>3 DEF SortByTimestamp
  <2> QED
    BY <1>3, <2>1, <2>2, <2>3
<1>4. CASE N > 1
  <2>1. all \in Ranges(arr) /\ all.left = 1 /\ all.right = N
    BY <1>1, <1>4 DEF Ranges
  <2>2. SortByTimestamp(arr) = Sorted(arr)[all]
    BY <1>1, <1>4 DEF SortByTimestamp
  <2>3. all.left <= all.right
    BY <1>1, <1>4, <2>1
  <2> HIDE DEF all
  <2>4. InOrder(arr, all.left .. all.right, Sorted(arr)[all])
    BY <2>1, <2>3, SortedInOrder
  <2> QED
    BY <2>1, <2>2, <2>4
<1> QED
  BY <1>1, <1>2, <1>3, <1>4
-----------------------------------------------------------------------------
(* The hash indices                                                        *)

Node == [key : Nat, entries : Seq(Entries)]

(* A chain has at most one node of a key. *)
GoodChain(chain) ==
    /\ chain \in Seq(Node)
    /\ \A i, j \in 1 .. Len(chain) : chain[i].key = chain[j].key => i = j

(* The entries under a key, none if it has no node. *)
Holds(chain, key, entries) ==
    \/ entries = << >> /\ \A i \in 1 .. Len(chain) : chain[i].key # key
    \/ \E i \in 1 .. Len(chain) : chain[i].key = key /\ chain[i].entries = entries

(* The list walk of get().                                                 *)
Found(chain, key) ==
    IF Nodes(chain, key) = {} THEN << >>
    ELSE chain[CHOOSE i \in Nodes(chain, key) : TRUE].entries

(* The types of a chain's parts.                                           *)
LEMMA ChainFacts ==
    ASSUME NEW chain, GoodChain(chain)
    PROVE  /\ Len(chain) \in Nat /\ DOMAIN chain = 1 .. Len(chain)
           /\ \A i \in 1 .. Len(chain) : /\ chain[i] \in Node /\ chain[i].key \in Nat
                                         /\ chain[i].entries \in Seq(Entries)
<1>1. Len(chain) \in Nat /\ DOMAIN chain = 1 .. Len(chain) /\ \A i \in 1 .. Len(chain) : chain[i] \in Node
  BY LenProperties, ElementOfSeq DEF GoodChain
<1>2. \A n \in Node : n.key \in Nat /\ n.entries \in Seq(Entries)
  BY DEF Node
<1> QED
  BY <1>1, <1>2

(* The list walk of get() finds what the chain holds. *)
LEMMA FoundIsHeld ==
    ASSUME NEW chain, GoodChain(chain), NEW key
    PROVE  /\ Holds(chain, key, Found(chain, key))
           /\ \A entries : Holds(chain, key, entries) => entries = Found(chain, key)
           /\ Found(chain, key) \in Seq(Entries)
<1>1. /\ Len(chain) \in Nat /\ DOMAIN chain = 1 .. Len(chain)
      /\ \A i \in 1 .. Len(chain) : chain[i].entries \in Seq(Entries)
  BY ChainFacts
<1>2. \A i : i \in Nodes(chain, key) <=> i \in 1 .. Len(chain) /\ chain[i].key = key
  BY <1>1 DEF Nodes
<1>3. CASE Nodes(chain, key) = {}
  <2>1. Found(chain, key) = << >>
    BY <1>3 DEF Found
  <2>2. \A i \in 1 .. Len(chain) : chain[i].key # key
    BY <1>2, <1>3
  <2>3. << >> \in Seq(Entries)
    OBVIOUS
  <2> QED
    BY <2>1, <2>2, <2>3, Zenon DEF Holds
<1>4. CASE Nodes(chain, key) # {}
  <2> DEFINE i == CHOOSE i \in Nodes(chain, key) : TRUE
  <2>1. i \in Nodes(chain, key) /\ Found(chain, key) = chain[i].entries
    BY <1>4 DEF Found
  <2> HIDE DEF i
  <2>2. i \in 1 .. Len(chain) /\ chain[i].key = key
    BY <1>2, <2>1
  <2>3. \A j \in 1 .. Len(chain) : chain[j].key = key => j = i
    BY <2>2 DEF GoodChain
  <2> QED
    BY <1>1, <2>1, <2>2, <2>3, Zenon DEF Holds
<1> QED
  BY <1>3, <1>4

(* A new node becomes the first of the chain. *)
LEMMA NewNode ==
    ASSUME NEW chain, GoodChain(chain), NEW key \in Nat, NEW e \in Entries,
           Nodes(chain, key) = {}
    PROVE  /\ GoodChain(IntoChain(chain, key, e))
           /\ Holds(IntoChain(chain, key, e), key, <<e>>)
           /\ \A other, entries : other # key /\ Holds(chain, other, entries) =>
                 Holds(IntoChain(chain, key, e), other, entries)
<1> DEFINE node == [key |-> key, entries |-> <<e>>]
           longer == IntoChain(chain, key, e)
           n == Len(chain)
<1>1. /\ n \in Nat /\ DOMAIN chain = 1 .. n
      /\ \A i \in 1 .. n : chain[i] \in Node /\ chain[i].key \in Nat
  BY ChainFacts
<1>2. node \in Node /\ node.key = key /\ node.entries = <<e>>
  BY DEF Node
<1>3. longer = <<node>> \o chain
  BY DEF IntoChain
<1> HIDE DEF node, longer
<1>4. /\ longer \in Seq(Node) /\ Len(longer) = n + 1 /\ longer[1] = node
      /\ \A i \in 2 .. n + 1 : longer[i] = chain[i - 1]
  <2>1. <<node>> \in Seq(Node) /\ Len(<<node>>) = 1 /\ <<node>>[1] = node /\ chain \in Seq(Node)
    BY <1>2 DEF GoodChain
  <2>2. /\ <<node>> \o chain \in Seq(Node) /\ Len(<<node>> \o chain) = 1 + n
        /\ \A i \in 1 .. 1 + n : (<<node>> \o chain)[i] = IF i <= 1 THEN <<node>>[i] ELSE chain[i - 1]
    BY <2>1, ConcatProperties
  <2>3. /\ 1 \in 1 .. 1 + n /\ 1 + n = n + 1
        /\ \A i \in 2 .. n + 1 : i \in 1 .. 1 + n /\ ~(i <= 1)
    BY <1>1
  <2> HIDE DEF n
  <2> QED
    BY <1>3, <2>1, <2>2, <2>3
<1>5. \A i \in 1 .. n : chain[i].key # key
  BY <1>1 DEF Nodes
<1>6. \A i \in 1 .. n + 1 : i = 1 \/ (i \in 2 .. n + 1 /\ i - 1 \in 1 .. n)
  BY <1>1
<1>7. \A i, j \in 1 .. n + 1 : longer[i].key = longer[j].key => i = j
  <2>1. \A i \in 2 .. n + 1 : i - 1 \in 1 .. n /\ longer[i] = chain[i - 1]
    BY <1>1, <1>4
  <2>2. \A i \in 2 .. n + 1 : longer[i].key # key
    BY <1>5, <2>1
  <2>3. \A i, j \in 2 .. n + 1 : longer[i].key = longer[j].key => i = j
    <3> SUFFICES ASSUME NEW i \in 2 .. n + 1, NEW j \in 2 .. n + 1, longer[i].key = longer[j].key
                 PROVE  i = j
      OBVIOUS
    <3>1. i - 1 = j - 1
      BY <2>1 DEF GoodChain
    <3> QED
      BY <1>1, <3>1
  <2> QED
    BY <1>2, <1>4, <1>6, <2>2, <2>3
<1>8. GoodChain(longer)
  BY <1>4, <1>7 DEF GoodChain
<1>9. Holds(longer, key, <<e>>)
  <2>1. 1 \in 1 .. n + 1
    BY <1>1
  <2> QED
    BY <1>2, <1>4, <2>1 DEF Holds
<1>10. ASSUME NEW other, NEW entries, other # key, Holds(chain, other, entries)
       PROVE  Holds(longer, other, entries)
  <2>1. CASE entries = << >> /\ \A i \in 1 .. n : chain[i].key # other
    <3>1. \A i \in 1 .. n + 1 : longer[i].key # other
      BY <1>2, <1>4, <1>6, <1>10, <2>1
    <3> QED
      BY <1>4, <2>1, <3>1 DEF Holds
  <2>2. CASE \E i \in 1 .. n : chain[i].key = other /\ chain[i].entries = entries
    <3>1. PICK i \in 1 .. n : chain[i].key = other /\ chain[i].entries = entries
      BY <2>2
    <3>2. i + 1 \in 2 .. n + 1 /\ i + 1 \in 1 .. n + 1 /\ (i + 1) - 1 = i
      BY <1>1
    <3>3. longer[i + 1] = chain[i]
      BY <1>4, <3>2
    <3> QED
      BY <1>4, <3>1, <3>2, <3>3 DEF Holds
  <2> QED
    BY <1>10, <2>1, <2>2 DEF Holds
<1> QED
  BY <1>8, <1>9, <1>10 DEF longer

(* A node that is found gets the entry at the end. *)
LEMMA FoundNode ==
    ASSUME NEW chain, GoodChain(chain), NEW key \in Nat, NEW e \in Entries,
           Nodes(chain, key) # {}
    PROVE  /\ GoodChain(IntoChain(chain, key, e))
           /\ Holds(IntoChain(chain, key, e), key, Append(Found(chain, key), e))
           /\ \A other, entries : other # key /\ Holds(chain, other, entries) =>
                 Holds(IntoChain(chain, key, e), other, entries)
<1> DEFINE longer == IntoChain(chain, key, e)
           n == Len(chain)
           grown(i) == IF i \in Nodes(chain, key)
                       THEN [chain[i] EXCEPT !.entries = Append(@, e)] ELSE chain[i]
<1>1. /\ n \in Nat /\ DOMAIN chain = 1 .. n
      /\ \A i \in 1 .. n : /\ chain[i] \in Node /\ chain[i].key \in Nat
                           /\ chain[i].entries \in Seq(Entries)
  BY ChainFacts
<1>2. longer = [i \in 1 .. n |-> grown(i)]
  BY <1>1 DEF IntoChain
<1>3. \A i : i \in Nodes(chain, key) <=> i \in 1 .. n /\ chain[i].key = key
  BY <1>1 DEF Nodes
<1> HIDE DEF longer
<1>4. \A i \in 1 .. n : grown(i) \in Node /\ grown(i).key = chain[i].key
                        /\ (chain[i].key = key => grown(i).entries = Append(chain[i].entries, e))
                        /\ (chain[i].key # key => grown(i).entries = chain[i].entries)
  <2> SUFFICES ASSUME NEW i \in 1 .. n
               PROVE  grown(i) \in Node /\ grown(i).key = chain[i].key
                      /\ (chain[i].key = key => grown(i).entries = Append(chain[i].entries, e))
                      /\ (chain[i].key # key => grown(i).entries = chain[i].entries)
    OBVIOUS
  <2>1. Append(chain[i].entries, e) \in Seq(Entries)
    BY <1>1, AppendProperties
  <2>2. \A c \in Node, s \in Seq(Entries) :
            /\ [c EXCEPT !.entries = s] \in Node
            /\ [c EXCEPT !.entries = s].key = c.key
            /\ [c EXCEPT !.entries = s].entries = s
    BY DEF Node
  <2>3. CASE chain[i].key = key
    <3>1. grown(i) = [chain[i] EXCEPT !.entries = Append(chain[i].entries, e)]
      BY <1>3, <2>3
    <3> DEFINE s == Append(chain[i].entries, e)
    <3> HIDE DEF grown
    <3>2. s \in Seq(Entries) /\ grown(i) = [chain[i] EXCEPT !.entries = s] /\ chain[i] \in Node
      BY <1>1, <2>1, <3>1
    <3> HIDE DEF s
    <3>3. grown(i) \in Node /\ grown(i).key = chain[i].key /\ grown(i).entries = s
      BY <2>2, <3>2
    <3> QED
      BY <2>3, <3>3 DEF s
  <2>4. CASE chain[i].key # key
    BY <1>1, <1>3, <2>4
  <2> QED
    BY <2>3, <2>4
<1> HIDE DEF grown
<1>5. longer \in Seq(Node) /\ Len(longer) = n /\ \A i \in 1 .. n : longer[i] = grown(i)
  BY <1>1, <1>2, <1>4
<1>6. GoodChain(longer)
  <2>1. \A i, j \in 1 .. n : longer[i].key = longer[j].key => i = j
    BY <1>4, <1>5 DEF GoodChain
  <2> QED
    BY <1>5, <2>1 DEF GoodChain
<1>7. Holds(longer, key, Append(Found(chain, key), e))
  <2>1. Holds(chain, key, Found(chain, key))
    BY FoundIsHeld
  <2>2. PICK i \in 1 .. n : chain[i].key = key /\ chain[i].entries = Found(chain, key)
    BY <1>3, <2>1 DEF Holds
  <2>3. longer[i].key = key /\ longer[i].entries = Append(Found(chain, key), e)
    BY <1>4, <1>5, <2>2
  <2> QED
    BY <1>5, <2>3 DEF Holds
<1>8. ASSUME NEW other, NEW entries, other # key, Holds(chain, other, entries)
      PROVE  Holds(longer, other, entries)
  <2>1. CASE entries = << >> /\ \A i \in 1 .. n : chain[i].key # other
    <3>1. \A i \in 1 .. n : longer[i].key # other
      BY <1>4, <1>5, <2>1
    <3> QED
      BY <1>5, <2>1, <3>1 DEF Holds
  <2>2. CASE \E i \in 1 .. n : chain[i].key = other /\ chain[i].entries = entries
    <3>1. PICK i \in 1 .. n : chain[i].key = other /\ chain[i].entries = entries
      BY <2>2
    <3>2. longer[i].key = other /\ longer[i].entries = entries
      BY <1>4, <1>5, <1>8, <3>1
    <3> QED
      BY <1>5, <3>2 DEF Holds
  <2> QED
    BY <1>8, <2>1, <2>2 DEF Holds
<1> QED
  BY <1>6, <1>7, <1>8 DEF longer

(* insert() adds the entry after the others of its key, and leaves the     *)
(* other keys of the bucket as they are.                                   *)
LEMMA IntoChainAppends ==
    ASSUME NEW chain, GoodChain(chain), NEW key \in Nat, NEW e \in Entries
    PROVE  /\ GoodChain(IntoChain(chain, key, e))
           /\ \A other : Found(IntoChain(chain, key, e), other) =
                  IF other = key THEN Append(Found(chain, other), e) ELSE Found(chain, other)
<1> DEFINE longer == IntoChain(chain, key, e)
<1>1. /\ GoodChain(longer)
      /\ Holds(longer, key, Append(Found(chain, key), e))
      /\ \A other, entries : other # key /\ Holds(chain, other, entries) =>
            Holds(longer, other, entries)
  <2>1. CASE Nodes(chain, key) = {}
    <3>1. Found(chain, key) = << >> /\ Append(<< >>, e) = <<e>>
      BY <2>1 DEF Found
    <3> QED
      BY <2>1, <3>1, NewNode
  <2>2. CASE Nodes(chain, key) # {}
    BY <2>2, FoundNode
  <2> QED
    BY <2>1, <2>2
<1> HIDE DEF longer
<1>2. \A other : Holds(chain, other, Found(chain, other))
  BY FoundIsHeld
<1>3. \A other, entries : Holds(longer, other, entries) => entries = Found(longer, other)
  BY <1>1, FoundIsHeld
<1>4. ASSUME NEW other
      PROVE  Found(longer, other) =
                IF other = key THEN Append(Found(chain, other), e) ELSE Found(chain, other)
  <2>1. CASE other = key
    BY <1>1, <1>3, <2>1, Zenon
  <2>2. CASE other # key
    BY <1>1, <1>2, <1>3, <2>2, Zenon
  <2> QED
    BY <2>1, <2>2
<1> QED
  BY <1>1, <1>4 DEF longer

(* The buckets of an index in use.                                         *)
Buckets == {HashKey[k] : k \in DOMAIN HashKey}

GoodIndex(index) == index \in [Buckets -> Seq(Node)] /\ \A b \in Buckets : GoodChain(index[b])

(* get() walks the list of the key's bucket.                               *)
LEMMA TimelineIsFound ==
    ASSUME NEW index, NEW key
    PROVE  Timeline(index, key) = Found(index[HashKey[key]], key)
BY DEF Timeline, Found

LEMMA TimelineType ==
    ASSUME NEW index, GoodIndex(index), NEW key \in DOMAIN HashKey
    PROVE  Timeline(index, key) \in Seq(Entries)
BY TimelineIsFound, FoundIsHeld DEF GoodIndex, Buckets

(* A new index has no timelines.                                           *)
LEMMA EmptyIndexIsGood ==
    GoodIndex(EmptyIndex) /\ \A key \in DOMAIN HashKey : Timeline(EmptyIndex, key) = << >>
<1>1. << >> \in Seq(Node) /\ Len(<< >>) = 0 /\ DOMAIN << >> = {}
  OBVIOUS
<1>2. GoodChain(<< >>)
  BY <1>1 DEF GoodChain
<1>3. EmptyIndex = [b \in Buckets |-> << >>]
  BY DEF EmptyIndex, Buckets
<1>4. GoodIndex(EmptyIndex)
  BY <1>1, <1>2, <1>3 DEF GoodIndex
<1>5. \A key : Nodes(<< >>, key) = {}
  BY DEF Nodes
<1>6. \A key \in DOMAIN HashKey : Timeline(EmptyIndex, key) = << >>
  BY <1>3, <1>5 DEF Timeline, Buckets
<1> QED
  BY <1>4, <1>6

(* insert() into an index adds the entry at the end of one timeline. *)
LEMMA InsertIntoAppends ==
    ASSUME NEW index, GoodIndex(index), NEW key \in DOMAIN HashKey, NEW e \in Entries
    PROVE  /\ GoodIndex(InsertInto(index, key, e))
           /\ \A other \in DOMAIN HashKey :
                 Timeline(InsertInto(index, key, e), other) =
                     IF other = key THEN Append(Timeline(index, other), e)
                     ELSE Timeline(index, other)
<1> DEFINE b == HashKey[key]
           chain == index[b]
           longer == IntoChain(chain, key, e)
           grown == InsertInto(index, key, e)
<1>1. b \in Buckets /\ GoodChain(chain) /\ key \in Nat /\ index \in [Buckets -> Seq(Node)]
  BY SizesAssumption DEF GoodIndex, Buckets
<1>2. /\ GoodChain(longer)
      /\ \A other : Found(longer, other) =
            IF other = key THEN Append(Found(chain, other), e) ELSE Found(chain, other)
  BY <1>1, IntoChainAppends
<1>3. grown = [index EXCEPT ![b] = longer]
  BY <1>1 DEF InsertInto
<1> HIDE DEF longer, grown
<1>4. /\ grown \in [Buckets -> Seq(Node)] /\ grown[b] = longer
      /\ \A c \in Buckets : c # b => grown[c] = index[c]
  BY <1>1, <1>2, <1>3 DEF GoodChain
<1>5. GoodIndex(grown)
  BY <1>2, <1>4 DEF GoodIndex
<1>6. ASSUME NEW other \in DOMAIN HashKey
      PROVE  Timeline(grown, other) = IF other = key THEN Append(Timeline(index, other), e)
                                      ELSE Timeline(index, other)
  <2>1. HashKey[other] \in Buckets
    BY DEF Buckets
  <2>2. CASE HashKey[other] = b
    <3>1. Timeline(grown, other) = Found(longer, other) /\ Timeline(index, other) = Found(chain, other)
      BY <1>4, <2>2, TimelineIsFound
    <3> QED
      BY <1>2, <3>1
  <2>3. CASE HashKey[other] # b
    <3>1. other # key
      BY <2>3
    <3>2. Timeline(grown, other) = Timeline(index, other)
      BY <1>4, <2>1, <2>3, TimelineIsFound
    <3> QED
      BY <3>1, <3>2
  <2> QED
    BY <2>2, <2>3
<1> QED
  BY <1>5, <1>6 DEF grown

Fields == {"userId", "resourceId"}

(* Both fields that are indexed hash to a bucket.                          *)
LEMMA FieldIsKey ==
    ASSUME NEW e \in Entries, NEW field \in Fields
    PROVE  e[field] \in DOMAIN HashKey
<1>1. e \in [userId : DOMAIN HashKey, resourceId : Nat, timestamp : Nat]
      /\ e.resourceId \in DOMAIN HashKey
  BY SizesAssumption
<1>2. e.userId \in DOMAIN HashKey
  BY <1>1
<1> QED
  BY <1>1, <1>2 DEF Fields

(* The loop of buildIndices(). *)
LEMMA FilledSteps ==
    ASSUME NEW log \in Seq(Entries), NEW field \in Fields, NEW index, GoodIndex(index)
    PROVE  LET filled == Filled(index, field, log)
           IN  /\ filled[0] = index
               /\ \A n \in 1 .. Len(log) :
                     filled[n] = InsertInto(filled[n - 1], log[n][field], log[n])
               /\ \A n \in 0 .. Len(log) : GoodIndex(filled[n])
<1> DEFINE N == Len(log)
           V == {x \in [Buckets -> Seq(Node)] : GoodIndex(x)}
           With(n, x) == InsertInto(x, log[n][field], log[n])
           step == [n \in 1 .. N |-> [x \in V |-> With(n, x)]]
           Loop(f) == f = [n \in 0 .. N |-> IF n = 0 THEN index ELSE With(n, f[n - 1])]
<1>1. N \in Nat /\ \A n \in 1 .. N : log[n] \in Entries /\ log[n][field] \in DOMAIN HashKey
  BY LenProperties, ElementOfSeq, FieldIsKey
<1>2. \A x : x \in V <=> GoodIndex(x)
  BY DEF GoodIndex
<1> HIDE DEF V
<1>3. \A n \in 1 .. N, x \in V : With(n, x) \in V
  BY <1>1, <1>2, InsertIntoAppends
<1>4. index \in V
  BY <1>2
<1>5. step \in [1 .. N -> [V -> V]]
  <2> HIDE DEF N, With
  <2> QED
    BY <1>3
<1>6. PICK f : f \in LoopRuns(V, index, N, step)
  <2> HIDE DEF N, step
  <2> QED
    BY <1>1, <1>4, <1>5, LoopExists
<1>7. f \in [0 .. N -> V] /\ f[0] = index /\ \A n \in 1 .. N : f[n] = step[n][f[n - 1]]
  BY <1>6 DEF LoopRuns
<1>8. \A n \in 1 .. N : n \in 0 .. N /\ n # 0 /\ n - 1 \in 0 .. N
  BY <1>1
<1>9. \A n \in 1 .. N : f[n] = With(n, f[n - 1])
  <2>1. \A n \in 1 .. N : f[n - 1] \in V
    BY <1>7, <1>8
  <2> HIDE DEF N, With
  <2> QED
    BY <1>7, <2>1
<1>10. Loop(f)
  <2>1. \A n \in 0 .. N : n # 0 => n \in 1 .. N
    BY <1>1
  <2> HIDE DEF N, With
  <2>2. \A n \in 0 .. N : f[n] = IF n = 0 THEN index ELSE With(n, f[n - 1])
    BY <1>7, <1>9, <2>1
  <2> QED
    BY <1>7, <2>2
<1> DEFINE filled == Filled(index, field, log)
<1>11. Loop(filled)
  <2>1. filled = CHOOSE g : Loop(g)
    BY DEF Filled
  <2> HIDE DEF filled, Loop
  <2> QED
    BY <1>10, <2>1
<1> HIDE DEF filled
<1>12. filled[0] = index /\ \A n \in 1 .. N : filled[n] = With(n, filled[n - 1])
  <2>1. 0 \in 0 .. N
    BY <1>1
  <2> HIDE DEF N, With
  <2> QED
    BY <1>8, <1>11, <2>1
<1>13. \A n \in 0 .. N : filled[n] \in V
  <2>1. filled[0] \in V
    BY <1>4, <1>12
  <2>2. \A n \in 1 .. N : filled[n - 1] \in V => filled[n] \in V
    <3> HIDE DEF With
    <3> QED
      BY <1>3, <1>12
  <2> HIDE DEF N
  <2> QED
    BY <1>1, <2>1, <2>2, LoopStays
<1> QED
  BY <1>2, <1>12, <1>13 DEF filled

(* The sequence s holds the entries at some positions of a log in the      *)
(* order of the log.                                                       *)
Copies(log, positions, s, place) ==
    /\ place \in [1 .. Len(s) -> positions]
    /\ \A p \in positions : \E i \in 1 .. Len(s) : place[i] = p
    /\ \A i, j \in 1 .. Len(s) : i < j => place[i] < place[j]
    /\ \A i \in 1 .. Len(s) : s[i] = log[place[i]]

Collects(log, positions, s) ==
    s \in Seq(Entries) /\ \E place : Copies(log, positions, s, place)

(* The start of the loop of buildIndices(), and a turn of it.              *)
LEMMA NothingCollected ==
    ASSUME NEW log
    PROVE  Collects(log, {}, << >>)
<1>1. << >> \in Seq(Entries) /\ Len(<< >>) = 0 /\ 1 .. 0 = {}
  OBVIOUS
<1> DEFINE place == [i \in {} |-> 0]
<1>2. place \in [{} -> {}]
  OBVIOUS
<1> HIDE DEF place
<1>3. Copies(log, {}, << >>, place)
  BY <1>1, <1>2 DEF Copies
<1> QED
  BY <1>1, <1>3 DEF Collects

LEMMA OneMoreCollected ==
    ASSUME NEW log \in Seq(Entries), NEW n \in 1 .. Len(log), NEW P \in SUBSET (1 .. n - 1),
           NEW s, Collects(log, P, s)
    PROVE  Collects(log, P \cup {n}, Append(s, log[n]))
<1> DEFINE k == Len(s)
           longer == Append(s, log[n])
<1>1. PICK place : Copies(log, P, s, place)
  BY DEF Collects
<1>2. s \in Seq(Entries) /\ k \in Nat /\ Len(log) \in Nat /\ log[n] \in Entries
  BY LenProperties, ElementOfSeq DEF Collects
<1>3. /\ longer \in Seq(Entries) /\ Len(longer) = k + 1 /\ longer[k + 1] = log[n]
      /\ \A i \in 1 .. k : longer[i] = s[i]
  BY <1>2, AppendProperties
<1> DEFINE more == [i \in 1 .. k + 1 |-> IF i = k + 1 THEN n ELSE place[i]]
<1>4. /\ place \in [1 .. k -> P]
      /\ \A p \in P : \E i \in 1 .. k : place[i] = p
      /\ \A i, j \in 1 .. k : i < j => place[i] < place[j]
      /\ \A i \in 1 .. k : s[i] = log[place[i]]
  BY <1>1 DEF Copies
<1> HIDE DEF k, longer
<1>5. more \in [1 .. k + 1 -> P \cup {n}] /\ more[k + 1] = n /\ \A i \in 1 .. k : more[i] = place[i]
  BY <1>2, <1>4
<1>6. \A i \in 1 .. k + 1 : i = k + 1 \/ i \in 1 .. k
  BY <1>2
<1>7. \A i \in 1 .. k : i \in 1 .. k + 1
  BY <1>2
<1>8. k + 1 \in 1 .. k + 1
  BY <1>2
<1> HIDE DEF more
<1>9. \A p \in P \cup {n} : \E i \in 1 .. k + 1 : more[i] = p
  BY <1>4, <1>5, <1>7, <1>8
<1>10. \A i, j \in 1 .. k + 1 : i < j => more[i] < more[j]
  <2> SUFFICES ASSUME NEW i \in 1 .. k + 1, NEW j \in 1 .. k + 1, i < j
               PROVE  more[i] < more[j]
    OBVIOUS
  <2>1. i \in 1 .. k
    BY <1>2
  <2>2. place[i] \in 1 .. n - 1 /\ more[i] = place[i] /\ n \in Nat
    <3>1. place[i] \in P /\ more[i] = place[i]
      BY <1>4, <1>5, <2>1
    <3>2. n \in Nat
      BY <1>2
    <3> QED
      BY <3>1, <3>2
  <2>3. CASE j = k + 1
    BY <1>5, <2>2, <2>3
  <2>4. CASE j \in 1 .. k
    BY <1>4, <1>5, <2>1, <2>4
  <2> QED
    BY <1>6, <2>3, <2>4
<1>11. \A i \in 1 .. k + 1 : longer[i] = log[more[i]]
  BY <1>3, <1>4, <1>5, <1>6
<1>12. Copies(log, P \cup {n}, longer, more)
  BY <1>3, <1>5, <1>9, <1>10, <1>11 DEF Copies
<1> QED
  BY <1>3, <1>12 DEF Collects, longer

(* A timeline collects the positions of its key, in the order of the log. *)
Of(log, field, key, n) == {p \in 1 .. n : log[p][field] = key}

(* buildIndices() collects every position of the log under its key.        *)
LEMMA FilledCollects ==
    ASSUME NEW log \in Seq(Entries), NEW field \in Fields
    PROVE  \A n \in 0 .. Len(log) : \A key \in DOMAIN HashKey :
              Collects(log, Of(log, field, key, n), Timeline(Filled(EmptyIndex, field, log)[n], key))
<1> DEFINE N == Len(log)
           filled == Filled(EmptyIndex, field, log)
           Done(n) == \A key \in DOMAIN HashKey :
                          Collects(log, Of(log, field, key, n), Timeline(filled[n], key))
           T == {n \in 0 .. N : Done(n)}
<1>1. N \in Nat
  BY LenProperties
<1>2. /\ filled[0] = EmptyIndex
      /\ \A n \in 1 .. N : filled[n] = InsertInto(filled[n - 1], log[n][field], log[n])
      /\ \A n \in 0 .. N : GoodIndex(filled[n])
  BY EmptyIndexIsGood, FilledSteps
<1> HIDE DEF filled
<1>3. 0 \in T
  <2>1. \A key \in DOMAIN HashKey : Of(log, field, key, 0) = {}
    BY DEF Of
  <2>2. Done(0)
    BY <1>2, <2>1, EmptyIndexIsGood, NothingCollected
  <2> HIDE DEF Done
  <2> QED
    BY <1>1, <2>2
<1>4. ASSUME NEW n \in 1 .. N, n - 1 \in T
      PROVE  n \in T
  <2>1. n \in 0 .. N /\ n - 1 \in 0 .. N /\ log[n] \in Entries /\ log[n][field] \in DOMAIN HashKey
    BY <1>1, ElementOfSeq, FieldIsKey
  <2>2. GoodIndex(filled[n - 1]) /\ filled[n] = InsertInto(filled[n - 1], log[n][field], log[n])
    BY <1>2, <2>1
  <2>3. \A key \in DOMAIN HashKey :
            Timeline(filled[n], key) =
                IF key = log[n][field] THEN Append(Timeline(filled[n - 1], key), log[n])
                ELSE Timeline(filled[n - 1], key)
    <3> DEFINE k == log[n][field]
               before == filled[n - 1]
    <3>1. k \in DOMAIN HashKey /\ GoodIndex(before) /\ filled[n] = InsertInto(before, k, log[n])
      BY <2>1, <2>2
    <3> HIDE DEF k, before
    <3>2. \A key \in DOMAIN HashKey :
              Timeline(InsertInto(before, k, log[n]), key) =
                  IF key = k THEN Append(Timeline(before, key), log[n]) ELSE Timeline(before, key)
      BY <2>1, <3>1, InsertIntoAppends
    <3>3. \A key \in DOMAIN HashKey :
              Timeline(filled[n], key) =
                  IF key = k THEN Append(Timeline(before, key), log[n]) ELSE Timeline(before, key)
      BY <3>1, <3>2
    <3> QED
      BY <3>3 DEF k, before
  <2>4. ASSUME NEW key \in DOMAIN HashKey
        PROVE  Collects(log, Of(log, field, key, n), Timeline(filled[n], key))
    <3>1. Collects(log, Of(log, field, key, n - 1), Timeline(filled[n - 1], key))
      BY <1>4
    <3>2. \A p : p \in 1 .. n <=> p \in 1 .. n - 1 \/ p = n
      BY <2>1
    <3>3. CASE key = log[n][field]
      <4>1. Of(log, field, key, n) = Of(log, field, key, n - 1) \cup {n}
        BY <3>2, <3>3 DEF Of
      <4>2. Of(log, field, key, n - 1) \in SUBSET (1 .. n - 1)
        BY DEF Of
      <4>3. Collects(log, Of(log, field, key, n - 1) \cup {n},
                     Append(Timeline(filled[n - 1], key), log[n]))
        BY <3>1, <4>2, OneMoreCollected
      <4> QED
        BY <2>3, <3>3, <4>1, <4>3
    <3>4. CASE key # log[n][field]
      <4>1. Of(log, field, key, n) = Of(log, field, key, n - 1)
        BY <3>2, <3>4 DEF Of
      <4> QED
        BY <2>3, <3>1, <3>4, <4>1
    <3> QED
      BY <3>3, <3>4
  <2> QED
    BY <2>1, <2>4
<1> HIDE DEF T, N
<1>5. \A n \in 0 .. N : n \in T
  BY <1>1, <1>3, <1>4, UpTo
<1> QED
  BY <1>5 DEF T, N, filled

(* Sorted, a timeline is in the order of time, and of the log if time is   *)
(* equal.                                                                  *)
LEMMA SortedCollected ==
    ASSUME NEW log \in Seq(Entries), NEW P \in SUBSET (1 .. Len(log)), NEW s, Collects(log, P, s)
    PROVE  InOrder(log, P, SortByTimestamp(s))
<1> DEFINE sorted == SortByTimestamp(s)
           k == Len(s)
           m == Len(sorted)
<1>1. s \in Seq(Entries)
  BY DEF Collects
<1>2. PICK copied : Copies(log, P, s, copied)
  BY DEF Collects
<1>3. sorted \in Seq(Entries)
  BY <1>1, SortByTimestampInOrder DEF InOrder
<1>4. PICK moved : Places(s, 1 .. k, sorted, moved)
  BY <1>1, SortByTimestampInOrder DEF InOrder
<1> HIDE DEF sorted
<1>5. /\ copied \in [1 .. k -> P]
      /\ \A p \in P : \E i \in 1 .. k : copied[i] = p
      /\ \A i, j \in 1 .. k : i < j => copied[i] < copied[j]
      /\ \A i \in 1 .. k : s[i] = log[copied[i]]
  BY <1>2 DEF Copies
<1>6. /\ moved \in [1 .. m -> 1 .. k]
      /\ \A p \in 1 .. k : \E i \in 1 .. m : moved[i] = p
      /\ \A i, j \in 1 .. m : i < j => Earlier(s, moved[i], moved[j])
      /\ \A i \in 1 .. m : sorted[i] = s[moved[i]]
  BY <1>4 DEF Places
<1> HIDE DEF k, m
<1> DEFINE place == [i \in 1 .. m |-> copied[moved[i]]]
<1>7. place \in [1 .. m -> P] /\ \A i \in 1 .. m : place[i] = copied[moved[i]]
  BY <1>5, <1>6
<1> HIDE DEF place
<1>8. \A p \in P : \E i \in 1 .. m : place[i] = p
  <2> SUFFICES ASSUME NEW p \in P
               PROVE  \E i \in 1 .. m : place[i] = p
    OBVIOUS
  <2>1. PICK j \in 1 .. k : copied[j] = p
    BY <1>5
  <2>2. PICK i \in 1 .. m : moved[i] = j
    BY <1>6
  <2> QED
    BY <1>7, <2>1, <2>2
<1>9. ASSUME NEW i \in 1 .. m, NEW j \in 1 .. m, i < j
      PROVE  Earlier(log, place[i], place[j])
  <2>1. moved[i] \in 1 .. k /\ moved[j] \in 1 .. k /\ Earlier(s, moved[i], moved[j])
    BY <1>6, <1>9
  <2>2. s[moved[i]] = log[place[i]] /\ s[moved[j]] = log[place[j]]
    BY <1>5, <1>7, <2>1
  <2>3. moved[i] < moved[j] => place[i] < place[j]
    BY <1>5, <1>7, <2>1
  <2> QED
    BY <2>1, <2>2, <2>3, Zenon DEF Earlier
<1>10. \A i \in 1 .. m : sorted[i] = log[place[i]]
  BY <1>5, <1>6, <1>7
<1>11. Places(log, P, sorted, place)
  BY <1>7, <1>8, <1>9, <1>10 DEF Places, m
<1> QED
  BY <1>3, <1>11 DEF InOrder, sorted

SortedChain(chain) ==
    [i \in DOMAIN chain |-> [chain[i] EXCEPT !.entries = SortByTimestamp(@)]]

(* sortAllTimelines() sorts under every key, and moves no node. *)
LEMMA ChainIsSorted ==
    ASSUME NEW chain, GoodChain(chain)
    PROVE  /\ GoodChain(SortedChain(chain))
           /\ \A key : Found(SortedChain(chain), key) = SortByTimestamp(Found(chain, key))
<1> DEFINE n == Len(chain)
           sorted == SortedChain(chain)
           node(i) == [chain[i] EXCEPT !.entries = SortByTimestamp(@)]
<1>1. /\ n \in Nat /\ DOMAIN chain = 1 .. n
      /\ \A i \in 1 .. n : /\ chain[i] \in Node /\ chain[i].key \in Nat
                           /\ chain[i].entries \in Seq(Entries)
  BY ChainFacts
<1>2. sorted = [i \in 1 .. n |-> node(i)]
  BY <1>1 DEF SortedChain
<1> HIDE DEF sorted
<1>3. \A i \in 1 .. n : /\ node(i) \in Node /\ node(i).key = chain[i].key
                        /\ node(i).entries = SortByTimestamp(chain[i].entries)
  <2> SUFFICES ASSUME NEW i \in 1 .. n
               PROVE  /\ node(i) \in Node /\ node(i).key = chain[i].key
                      /\ node(i).entries = SortByTimestamp(chain[i].entries)
    OBVIOUS
  <2> DEFINE s == SortByTimestamp(chain[i].entries)
  <2>1. s \in Seq(Entries)
    BY <1>1, SortByTimestampInOrder DEF InOrder
  <2>2. \A c \in Node, t \in Seq(Entries) :
            /\ [c EXCEPT !.entries = t] \in Node
            /\ [c EXCEPT !.entries = t].key = c.key
            /\ [c EXCEPT !.entries = t].entries = t
    BY DEF Node
  <2>3. node(i) = [chain[i] EXCEPT !.entries = s]
    OBVIOUS
  <2> HIDE DEF s, node
  <2>4. node(i) \in Node /\ node(i).key = chain[i].key /\ node(i).entries = s
    BY <1>1, <2>1, <2>2, <2>3
  <2> QED
    BY <2>4 DEF s
<1> HIDE DEF node
<1>4. sorted \in Seq(Node) /\ Len(sorted) = n /\ \A i \in 1 .. n : sorted[i] = node(i)
  BY <1>1, <1>2, <1>3
<1>5. GoodChain(sorted)
  <2>1. \A i, j \in 1 .. n : sorted[i].key = sorted[j].key => i = j
    BY <1>3, <1>4 DEF GoodChain
  <2> QED
    BY <1>4, <2>1 DEF GoodChain
<1>6. ASSUME NEW key
      PROVE  Found(sorted, key) = SortByTimestamp(Found(chain, key))
  <2>1. Holds(chain, key, Found(chain, key))
    BY FoundIsHeld
  <2>2. Holds(sorted, key, SortByTimestamp(Found(chain, key)))
    <3>1. CASE Found(chain, key) = << >> /\ \A i \in 1 .. n : chain[i].key # key
      <4>1. SortByTimestamp(<< >>) = << >>
        BY DEF SortByTimestamp
      <4>2. \A i \in 1 .. n : sorted[i].key # key
        BY <1>3, <1>4, <3>1
      <4> QED
        BY <1>4, <3>1, <4>1, <4>2 DEF Holds
    <3>2. CASE \E i \in 1 .. n : chain[i].key = key /\ chain[i].entries = Found(chain, key)
      <4>1. PICK i \in 1 .. n : chain[i].key = key /\ chain[i].entries = Found(chain, key)
        BY <3>2
      <4>2. sorted[i].key = key /\ sorted[i].entries = SortByTimestamp(Found(chain, key))
        BY <1>3, <1>4, <4>1
      <4> QED
        BY <1>4, <4>2 DEF Holds
    <3> QED
      BY <2>1, <3>1, <3>2 DEF Holds
  <2>3. \A entries : Holds(sorted, key, entries) => entries = Found(sorted, key)
    BY <1>5, FoundIsHeld
  <2> QED
    BY <2>2, <2>3
<1> QED
  BY <1>5, <1>6 DEF sorted

(* All chains of an index are sorted.                                      *)
LEMMA IndexIsSorted ==
    ASSUME NEW index, GoodIndex(index)
    PROVE  /\ GoodIndex(SortAllTimelines(index))
           /\ \A key \in DOMAIN HashKey :
                 Timeline(SortAllTimelines(index), key) = SortByTimestamp(Timeline(index, key))
<1> DEFINE sorted == SortAllTimelines(index)
<1>1. index \in [Buckets -> Seq(Node)] /\ \A b \in Buckets : GoodChain(index[b])
  BY DEF GoodIndex
<1>2. sorted = [b \in Buckets |-> SortedChain(index[b])]
  BY <1>1 DEF SortAllTimelines, SortedChain
<1> HIDE DEF sorted
<1>3. \A b \in Buckets : sorted[b] = SortedChain(index[b]) /\ GoodChain(SortedChain(index[b]))
  BY <1>1, <1>2, ChainIsSorted
<1>4. GoodIndex(sorted)
  <2>1. \A b \in Buckets : SortedChain(index[b]) \in Seq(Node)
    BY <1>3 DEF GoodChain
  <2> QED
    BY <1>2, <1>3, <2>1 DEF GoodIndex
<1>5. ASSUME NEW key \in DOMAIN HashKey
      PROVE  Timeline(sorted, key) = SortByTimestamp(Timeline(index, key))
  <2>1. HashKey[key] \in Buckets
    BY DEF Buckets
  <2>2. /\ Timeline(sorted, key) = Found(SortedChain(index[HashKey[key]]), key)
        /\ Timeline(index, key) = Found(index[HashKey[key]], key)
    BY <1>3, <2>1, TimelineIsFound
  <2> QED
    BY <1>1, <2>1, <2>2, ChainIsSorted
<1> QED
  BY <1>4, <1>5 DEF sorted

(* An index over a log: every timeline has the entries of its key, each    *)
(* once, in the order of time and then of the log.                         *)
IndexOver(index, field, log) ==
    /\ GoodIndex(index)
    /\ \A key \in DOMAIN HashKey :
          InOrder(log, Of(log, field, key, Len(log)), Timeline(index, key))

(* buildIndices() groups the whole log, starting from an empty index.      *)
LEMMA IndexIsBuilt ==
    ASSUME NEW log \in Seq(Entries), NEW field \in Fields
    PROVE  IndexOver(SortAllTimelines(Filled(EmptyIndex, field, log)[Len(log)]), field, log)
<1> DEFINE n == Len(log)
           filled == Filled(EmptyIndex, field, log)[n]
<1>1. n \in 0 .. n /\ n \in Nat
  BY LenProperties
<1>2. GoodIndex(filled)
  BY <1>1, EmptyIndexIsGood, FilledSteps
<1>3. \A key \in DOMAIN HashKey : Collects(log, Of(log, field, key, n), Timeline(filled, key))
  BY <1>1, FilledCollects
<1> HIDE DEF filled
<1>4. /\ GoodIndex(SortAllTimelines(filled))
      /\ \A key \in DOMAIN HashKey :
            Timeline(SortAllTimelines(filled), key) = SortByTimestamp(Timeline(filled, key))
  BY <1>2, IndexIsSorted
<1>5. ASSUME NEW key \in DOMAIN HashKey
      PROVE  InOrder(log, Of(log, field, key, n), Timeline(SortAllTimelines(filled), key))
  <2>1. Of(log, field, key, n) \in SUBSET (1 .. n)
    BY DEF Of
  <2> DEFINE P == Of(log, field, key, n)
  <2> HIDE DEF P
  <2>2. P \in SUBSET (1 .. Len(log)) /\ Collects(log, P, Timeline(filled, key))
    BY <1>3, <2>1 DEF P
  <2>3. InOrder(log, P, SortByTimestamp(Timeline(filled, key)))
    BY <2>2, SortedCollected
  <2> QED
    BY <1>4, <2>3 DEF P
<1> QED
  BY <1>4, <1>5 DEF IndexOver, filled
-----------------------------------------------------------------------------
(* The store of chunks                                                     *)

(* A chunk that is made for an entry has the entry's time as its range. *)
LEMMA NewChunkExact ==
    ASSUME NEW e \in Entries
    PROVE  NewChunk(e) \in Chunk /\ RangeExact(NewChunk(e)) /\ NewChunk(e).entries = <<e>>
<1>1. NewChunk(e) \in Chunk /\ NewChunk(e).entries = <<e>>
  BY EntryTime DEF NewChunk, Chunk
<1>2. ToSet(NewChunk(e).entries) = {e}
  BY DEF NewChunk, ToSet
<1>3. TimesOf(NewChunk(e)) = {e.timestamp}
  BY <1>2 DEF TimesOf
<1> QED
  BY <1>1, <1>3, EntryTime DEF RangeExact, NewChunk

(* An entry more adds its own time to those of the chunk.                  *)
LEMMA TimesOfAppended ==
    ASSUME NEW chunk \in Chunk, NEW e \in Entries
    PROVE  TimesOf(Appended(chunk, e)) = TimesOf(chunk) \cup {e.timestamp}
<1>1. chunk.entries \in Seq(Entries)
  BY DEF Chunk
<1>2. Appended(chunk, e).entries = Append(chunk.entries, e)
  BY DEF Appended
<1>3. ToSet(Append(chunk.entries, e)) = ToSet(chunk.entries) \cup {e}
  <2>1. /\ Append(chunk.entries, e) \in Seq(Entries)
        /\ Len(Append(chunk.entries, e)) = Len(chunk.entries) + 1
        /\ Append(chunk.entries, e)[Len(chunk.entries) + 1] = e
        /\ \A i \in 1 .. Len(chunk.entries) :
              Append(chunk.entries, e)[i] = chunk.entries[i]
    BY <1>1
  <2>2. /\ DOMAIN Append(chunk.entries, e) =
              DOMAIN chunk.entries \cup {Len(chunk.entries) + 1}
        /\ DOMAIN chunk.entries = 1 .. Len(chunk.entries)
    BY <1>1, <2>1
  <2> QED
    BY <2>1, <2>2 DEF ToSet
<1> QED
  BY <1>2, <1>3 DEF TimesOf

(* append() widens the range to the new entry and no further. *)
LEMMA AppendedExact ==
    ASSUME NEW chunk \in Chunk, RangeExact(chunk), NEW e \in Entries
    PROVE  /\ Appended(chunk, e) \in Chunk /\ RangeExact(Appended(chunk, e))
           /\ Appended(chunk, e).entries = Append(chunk.entries, e)
<1>1. /\ chunk.entries \in Seq(Entries)
      /\ chunk.minTimestamp \in Nat
      /\ chunk.maxTimestamp \in Nat
      /\ e.timestamp \in Nat
  BY EntryTime DEF Chunk
<1>2. Appended(chunk, e) \in Chunk /\ Appended(chunk, e).entries = Append(chunk.entries, e)
  BY <1>1 DEF Appended, Chunk
<1>3. /\ Appended(chunk, e).minTimestamp =
            (IF e.timestamp < chunk.minTimestamp THEN e.timestamp ELSE chunk.minTimestamp)
      /\ Appended(chunk, e).maxTimestamp =
            (IF e.timestamp > chunk.maxTimestamp THEN e.timestamp ELSE chunk.maxTimestamp)
  BY DEF Appended
<1>4. RangeExact(Appended(chunk, e))
  BY <1>1, <1>3, TimesOfAppended DEF RangeExact
<1> QED
  BY <1>2, <1>4

(* A store: its chunks have exact ranges, and all but the last are full.   *)
GoodStore(stored) ==
    /\ stored \in Seq(Chunk)
    /\ \A i \in 1 .. Len(stored) :
          /\ RangeExact(stored[i])
          /\ Len(stored[i].entries) \in 1 .. ChunkSize
          /\ i < Len(stored) => Len(stored[i].entries) = ChunkSize

(* The entries of the chunks, one chunk after the other. *)
Joined(stored, flat) ==
    /\ flat \in [0 .. Len(stored) -> Seq(Entries)]
    /\ flat[0] = << >>
    /\ \A n \in 1 .. Len(stored) : flat[n] = flat[n - 1] \o stored[n].entries

(* EntriesOf joins the entries of the chunks.                              *)
LEMMA EntriesAreJoined ==
    ASSUME NEW stored \in Seq(Chunk)
    PROVE  /\ EntriesOf(stored) \in Seq(Entries)
           /\ \E flat : Joined(stored, flat) /\ EntriesOf(stored) = flat[Len(stored)]
<1> DEFINE N == Len(stored)
           seqs == [i \in DOMAIN stored |-> stored[i].entries]
<1>1. N \in Nat /\ DOMAIN stored = 1 .. N /\ \A i \in 1 .. N : stored[i].entries \in Seq(Entries)
  <2>1. N \in Nat /\ DOMAIN stored = 1 .. N /\ \A i \in 1 .. N : stored[i] \in Chunk
    BY LenProperties, ElementOfSeq
  <2>2. \A c \in Chunk : c.entries \in Seq(Entries)
    BY DEF Chunk
  <2> QED
    BY <2>1, <2>2
<1>2. seqs \in Seq(Seq(Entries)) /\ Len(seqs) = N /\ \A i \in 1 .. N : seqs[i] = stored[i].entries
  BY <1>1
<1>3. EntriesOf(stored) = FlattenSeq(seqs)
  BY DEF EntriesOf
<1> HIDE DEF seqs
<1>4. PICK flat \in [0 .. Len(seqs) -> Seq(Entries)] :
          /\ flat[0] = << >>
          /\ \A n \in 1 .. Len(seqs) : flat[n] = flat[n - 1] \o seqs[n]
          /\ FlattenSeq(seqs) = flat[Len(seqs)]
  BY <1>2, FlattenSteps
<1>5. Joined(stored, flat) /\ EntriesOf(stored) = flat[N]
  <2> HIDE DEF N
  <2>1. flat \in [0 .. N -> Seq(Entries)] /\ flat[0] = << >> /\ FlattenSeq(seqs) = flat[N]
    BY <1>2, <1>4
  <2>2. \A n \in 1 .. N : flat[n] = flat[n - 1] \o stored[n].entries
    BY <1>2, <1>4
  <2> QED
    BY <1>3, <2>1, <2>2 DEF Joined, N
<1>6. flat[N] \in Seq(Entries)
  <2>1. N \in 0 .. N
    BY <1>1
  <2> QED
    BY <1>5, <2>1 DEF Joined
<1> QED
  BY <1>5, <1>6

(* One chunk more. *)
LEMMA JoinedMore ==
    ASSUME NEW stored \in Seq(Chunk), NEW chunk \in Chunk
    PROVE  EntriesOf(Append(stored, chunk)) = EntriesOf(stored) \o chunk.entries
<1> DEFINE N == Len(stored)
           more == Append(stored, chunk)
           seqs == [i \in DOMAIN stored |-> stored[i].entries]
           others == [i \in DOMAIN more |-> more[i].entries]
           longer == Append(seqs, chunk.entries)
<1>1. \A c \in Chunk : c.entries \in Seq(Entries)
  BY DEF Chunk
<1>2. N \in Nat /\ DOMAIN stored = 1 .. N /\ \A i \in 1 .. N : stored[i].entries \in Seq(Entries)
  BY <1>1, LenProperties, ElementOfSeq
<1>3. seqs \in Seq(Seq(Entries)) /\ Len(seqs) = N /\ \A i \in 1 .. N : seqs[i] = stored[i].entries
  BY <1>2
<1>4. /\ more \in Seq(Chunk) /\ Len(more) = N + 1 /\ more[N + 1] = chunk
      /\ \A i \in 1 .. N : more[i] = stored[i]
  BY AppendProperties
<1>5. DOMAIN more = 1 .. N + 1
  BY <1>4, LenProperties
<1>6. /\ longer \in Seq(Seq(Entries)) /\ Len(longer) = N + 1 /\ longer[N + 1] = chunk.entries
      /\ \A i \in 1 .. N : longer[i] = stored[i].entries
  <2> HIDE DEF seqs
  <2> QED
    BY <1>1, <1>3, AppendProperties
<1> HIDE DEF more, N
<1>7. \A i \in 1 .. N + 1 : i \in 1 .. N \/ i = N + 1
  BY <1>2
<1>8. others \in Seq(Seq(Entries)) /\ Len(others) = N + 1
      /\ \A i \in 1 .. N + 1 : others[i] = longer[i]
  <2>1. \A i \in 1 .. N + 1 : more[i].entries \in Seq(Entries) /\ more[i].entries = longer[i]
    BY <1>1, <1>2, <1>4, <1>6, <1>7
  <2>2. N + 1 \in Nat
    BY <1>2
  <2>3. others = [i \in 1 .. N + 1 |-> more[i].entries]
    BY <1>5
  <2> HIDE DEF longer, others
  <2>4. others \in [1 .. N + 1 -> Seq(Entries)] /\ \A i \in 1 .. N + 1 : others[i] = longer[i]
    BY <2>1, <2>3
  <2> QED
    BY <2>2, <2>4
<1> HIDE DEF seqs, others, longer
<1>9. others = longer
  BY <1>6, <1>8, SeqEqual
<1>10. FlattenSeq(longer) = FlattenSeq(seqs) \o chunk.entries
  BY <1>1, <1>3, FlattenAppend DEF longer
<1> QED
  BY <1>9, <1>10 DEF EntriesOf, seqs, others, more

(* The store with an entry more has a new last chunk, or a longer one.     *)
LEMMA LastChunk ==
    ASSUME NEW stored, GoodStore(stored), NEW e \in Entries
    PROVE  \E front \in Seq(Chunk), last \in Chunk :
              /\ WithEntry(stored, e) = Append(front, last)
              /\ RangeExact(last) /\ Len(last.entries) \in 1 .. ChunkSize
              /\ \A i \in 1 .. Len(front) :
                    /\ front[i] = stored[i] /\ RangeExact(front[i])
                    /\ Len(front[i].entries) = ChunkSize
              /\ EntriesOf(front) \o last.entries = Append(EntriesOf(stored), e)
<1> DEFINE N == Len(stored)
<1>1. /\ stored \in Seq(Chunk) /\ N \in Nat /\ DOMAIN stored = 1 .. N
      /\ \A i \in 1 .. N : /\ stored[i] \in Chunk /\ RangeExact(stored[i])
                           /\ stored[i].entries \in Seq(Entries)
                           /\ Len(stored[i].entries) \in 1 .. ChunkSize
                           /\ i < N => Len(stored[i].entries) = ChunkSize
  <2>1. stored \in Seq(Chunk) /\ N \in Nat /\ DOMAIN stored = 1 .. N
        /\ \A i \in 1 .. N : stored[i] \in Chunk
    BY LenProperties, ElementOfSeq DEF GoodStore
  <2>2. \A c \in Chunk : c.entries \in Seq(Entries)
    BY DEF Chunk
  <2> QED
    BY <2>1, <2>2 DEF GoodStore
<1>2. EntriesOf(stored) \in Seq(Entries)
  BY <1>1, EntriesAreJoined
<1>3. ChunkSize \in Nat \ {0}
  BY ChunkSizeAssumption
<1>4. CASE stored = << >> \/ ~HasSpace(Last(stored))
  <2>1. WithEntry(stored, e) = Append(stored, NewChunk(e))
    BY <1>4 DEF WithEntry
  <2>2. /\ NewChunk(e) \in Chunk /\ RangeExact(NewChunk(e))
        /\ Len(NewChunk(e).entries) \in 1 .. ChunkSize
        /\ NewChunk(e).entries = <<e>>
    <3>1. Len(<<e>>) = 1 /\ 1 \in 1 .. ChunkSize
      BY <1>3
    <3> QED
      BY <3>1, NewChunkExact
  <2>3. EntriesOf(stored) \o <<e>> = Append(EntriesOf(stored), e)
    BY <1>2
  <2>4. \A i \in 1 .. N : Len(stored[i].entries) = ChunkSize
    <3> SUFFICES ASSUME NEW i \in 1 .. N PROVE Len(stored[i].entries) = ChunkSize
      OBVIOUS
    <3>1. CASE i < N
      BY <1>1, <3>1
    <3>2. CASE i = N
      <4>1. stored # << >> /\ Last(stored) = stored[N]
        BY <1>1, <3>2 DEF Last
      <4>2. ~(Len(stored[N].entries) < ChunkSize)
        BY <1>4, <4>1 DEF HasSpace
      <4> QED
        BY <1>1, <1>3, <3>2, <4>2
    <3>3. i < N \/ i = N
      <4>1. N \in Nat
        BY <1>1
      <4> HIDE DEF N
      <4> QED
        BY <4>1
    <3> QED
      BY <3>1, <3>2, <3>3
  <2> QED
    BY <1>1, <2>1, <2>2, <2>3, <2>4
<1>5. CASE ~(stored = << >> \/ ~HasSpace(Last(stored)))
  <2> DEFINE front == Front(stored)
             last == Last(stored)
             longer == Appended(last, e)
  <2>1. N # 0
    BY <1>1, <1>5
  <2>2. last = stored[N] /\ last \in Chunk /\ RangeExact(last) /\ Len(last.entries) < ChunkSize
        /\ last.entries \in Seq(Entries)
    BY <1>1, <1>5, <2>1 DEF Last, HasSpace
  <2>3. front \in Seq(Chunk) /\ Len(front) = N - 1 /\ \A i \in 1 .. N - 1 : front[i] = stored[i]
    <3>1. /\ SubSeq(stored, 1, N - 1) \in Seq(Chunk)
          /\ Len(SubSeq(stored, 1, N - 1)) = N - 1
          /\ \A i \in 1 .. N - 1 : SubSeq(stored, 1, N - 1)[i] = stored[i]
      BY <1>1, <2>1
    <3> QED
      BY <3>1 DEF Front
  <2>4. WithEntry(stored, e) = front \o <<longer>>
    BY <1>5 DEF WithEntry
  <2>5. longer \in Chunk /\ RangeExact(longer) /\ longer.entries = Append(last.entries, e)
    BY <2>2, AppendedExact
  <2>6. Len(longer.entries) \in 1 .. ChunkSize
    <3>1. Len(Append(last.entries, e)) = Len(last.entries) + 1 /\ Len(last.entries) \in Nat
      BY <2>2, AppendProperties, LenProperties
    <3> QED
      BY <1>3, <2>2, <2>5, <3>1
  <2> HIDE DEF front, last, longer
  <2>7. front \o <<longer>> = Append(front, longer)
    BY <2>3, <2>5
  <2>8. stored = Append(front, last)
    <3>1. /\ Append(front, last) \in Seq(Chunk) /\ Len(Append(front, last)) = N
          /\ Append(front, last)[N] = last
          /\ \A i \in 1 .. N - 1 : Append(front, last)[i] = stored[i]
      <4>1. (N - 1) + 1 = N
        BY <1>1
      <4> HIDE DEF N
      <4> QED
        BY <2>2, <2>3, <4>1, AppendProperties
    <3>2. \A i \in 1 .. N : Append(front, last)[i] = stored[i]
      BY <1>1, <2>2, <3>1
    <3> QED
      BY <1>1, <3>1, <3>2, SeqEqual
  <2>9. EntriesOf(stored) = EntriesOf(front) \o last.entries /\ EntriesOf(front) \in Seq(Entries)
    <3>1. EntriesOf(Append(front, last)) = EntriesOf(front) \o last.entries
      BY <2>2, <2>3, JoinedMore
    <3> QED
      BY <2>3, <2>8, <3>1, EntriesAreJoined
  <2>10. \A a, b \in Seq(Entries) : a \o Append(b, e) = Append(a \o b, e)
    OBVIOUS
  <2>11. EntriesOf(front) \o longer.entries = Append(EntriesOf(stored), e)
    BY <2>2, <2>5, <2>9, <2>10
  <2>12. \A i \in 1 .. Len(front) : /\ front[i] = stored[i] /\ RangeExact(front[i])
                                    /\ Len(front[i].entries) = ChunkSize
    <3>1. \A i \in 1 .. N - 1 : i \in 1 .. N /\ i < N
      BY <1>1
    <3> QED
      BY <1>1, <2>3, <3>1
  <2> QED
    BY <2>3, <2>4, <2>5, <2>6, <2>7, <2>11, <2>12
<1> QED
  BY <1>4, <1>5

(* insert() keeps the store as it must be, and adds the entry after all    *)
(* others.                                                                 *)
LEMMA WithEntryAppends ==
    ASSUME NEW stored, GoodStore(stored), NEW e \in Entries
    PROVE  /\ GoodStore(WithEntry(stored, e))
           /\ EntriesOf(WithEntry(stored, e)) = Append(EntriesOf(stored), e)
<1>1. PICK front \in Seq(Chunk), last \in Chunk :
          /\ WithEntry(stored, e) = Append(front, last)
          /\ RangeExact(last) /\ Len(last.entries) \in 1 .. ChunkSize
          /\ \A i \in 1 .. Len(front) :
                /\ front[i] = stored[i] /\ RangeExact(front[i])
                /\ Len(front[i].entries) = ChunkSize
          /\ EntriesOf(front) \o last.entries = Append(EntriesOf(stored), e)
  BY LastChunk
<1> DEFINE n == Len(front)
           longer == Append(front, last)
<1>2. /\ n \in Nat /\ longer \in Seq(Chunk) /\ Len(longer) = n + 1 /\ longer[n + 1] = last
      /\ \A i \in 1 .. n : longer[i] = front[i]
  BY LenProperties, AppendProperties
<1>3. ChunkSize \in Nat \ {0} /\ ChunkSize \in 1 .. ChunkSize
  BY ChunkSizeAssumption
<1> HIDE DEF longer
<1>4. \A i \in 1 .. n + 1 : i \in 1 .. n \/ (i = n + 1 /\ ~(i < n + 1))
  BY <1>2
<1>5. GoodStore(longer)
  <2> SUFFICES ASSUME NEW i \in 1 .. n + 1
               PROVE  /\ RangeExact(longer[i])
                      /\ Len(longer[i].entries) \in 1 .. ChunkSize
                      /\ i < n + 1 => Len(longer[i].entries) = ChunkSize
    BY <1>2 DEF GoodStore
  <2>1. CASE i \in 1 .. n
    BY <1>1, <1>2, <1>3, <2>1
  <2>2. CASE i = n + 1
    BY <1>1, <1>2, <2>2
  <2> QED
    BY <1>4, <2>1, <2>2
<1>6. EntriesOf(longer) = EntriesOf(front) \o last.entries
  BY JoinedMore DEF longer
<1> QED
  BY <1>1, <1>5, <1>6 DEF longer
-----------------------------------------------------------------------------
(* Timelines                                                               *)

(* No position has two places. *)
LEMMA PlacesDiffer ==
    ASSUME NEW log \in Seq(Entries), NEW P \in SUBSET (1 .. Len(log)), NEW s,
           s \in Seq(Entries), NEW place, Places(log, P, s, place)
    PROVE  \A i, j \in 1 .. Len(s) : place[i] = place[j] => i = j
<1>1. Len(s) \in Nat /\ Len(log) \in Nat
  BY LenProperties
<1>2. \A i \in 1 .. Len(s) : place[i] \in 1 .. Len(log) /\ log[place[i]].timestamp \in Nat
  <2>1. \A p \in 1 .. Len(log) : log[p].timestamp \in Nat
    BY ElementOfSeq, EntryTime
  <2>2. \A i \in 1 .. Len(s) : place[i] \in P
    BY DEF Places
  <2> QED
    BY <2>1, <2>2
<1>3. \A i, j \in 1 .. Len(s) : i < j => Earlier(log, place[i], place[j])
  BY DEF Places
<1>4. \A i, j \in 1 .. Len(s) : i < j => place[i] # place[j]
  BY <1>1, <1>2, <1>3 DEF Earlier
<1>5. \A i, j \in 1 .. Len(s) : i = j \/ i < j \/ j < i
  BY <1>1
<1> QED
  BY <1>4, <1>5

(* A timeline has every entry of its key as often as the log. *)
LEMMA OftenEnough ==
    ASSUME NEW log \in Seq(Entries), NEW field, NEW key, NEW s,
           InOrder(log, Of(log, field, key, Len(log)), s), NEW e
    PROVE  Cardinality({i \in DOMAIN s : s[i] = e}) =
               Cardinality({p \in DOMAIN log : log[p] = e /\ e[field] = key})
<1> DEFINE P == Of(log, field, key, Len(log))
           A == {i \in 1 .. Len(s) : s[i] = e}
           B == {p \in 1 .. Len(log) : log[p] = e /\ e[field] = key}
<1>1. s \in Seq(Entries) /\ Len(s) \in Nat /\ DOMAIN s = 1 .. Len(s) /\ DOMAIN log = 1 .. Len(log)
  BY LenProperties DEF InOrder
<1>2. PICK place : Places(log, P, s, place)
  BY DEF InOrder
<1>3. P \in SUBSET (1 .. Len(log)) /\ \A p : p \in P <=> p \in 1 .. Len(log) /\ log[p][field] = key
  BY DEF Of
<1> HIDE DEF P
<1>4. /\ place \in [1 .. Len(s) -> P]
      /\ \A p \in P : \E i \in 1 .. Len(s) : place[i] = p
      /\ \A i \in 1 .. Len(s) : s[i] = log[place[i]]
  BY <1>2 DEF Places
<1>5. \A i, j \in 1 .. Len(s) : place[i] = place[j] => i = j
  BY <1>1, <1>2, <1>3, PlacesDiffer
<1> DEFINE map == [i \in A |-> place[i]]
<1>6. \A i \in A : i \in 1 .. Len(s) /\ place[i] \in B
  BY <1>3, <1>4
<1>7. \A p \in B : \E i \in A : place[i] = p
  <2> SUFFICES ASSUME NEW p \in B
               PROVE  \E i \in A : place[i] = p
    OBVIOUS
  <2>1. p \in P
    BY <1>3
  <2>2. PICK i \in 1 .. Len(s) : place[i] = p
    BY <1>4, <2>1
  <2> QED
    BY <1>4, <2>2
<1>8. IsFiniteSet(A)
  <2>1. IsFiniteSet(1 .. Len(s)) /\ A \subseteq 1 .. Len(s)
    BY <1>1, FS_Interval
  <2> QED
    BY <2>1, FS_Subset
<1> HIDE DEF A, B
<1>9. map \in Bijection(A, B)
  <2>1. map \in [A -> B]
    BY <1>6
  <2>2. \A i, j \in A : map[i] = map[j] => i = j
    BY <1>5, <1>6
  <2>3. \A p \in B : \E i \in A : map[i] = p
    BY <1>7
  <2> HIDE DEF map
  <2> QED
    BY <2>1, <2>2, <2>3 DEF Bijection, Injection, Surjection, IsInjective
<1> HIDE DEF map
<1>10. Cardinality(B) = Cardinality(A)
  BY <1>8, <1>9, FS_Bijection DEF ExistsBijection
<1> QED
  BY <1>1, <1>10 DEF A, B

(* The index over a log has the timelines that TimelinesAre asks for.      *)
LEMMA TimelinesFollow ==
    ASSUME NEW log \in Seq(Entries), NEW field \in Fields, NEW index, IndexOver(index, field, log)
    PROVE  TimelinesAre(index, log, field)
<1> SUFFICES ASSUME NEW k \in DOMAIN HashKey
             PROVE  LET timeline == Timeline(index, k)
                    IN  /\ \A e \in Entries :
                              Cardinality({i \in DOMAIN timeline : timeline[i] = e}) =
                                Cardinality({i \in DOMAIN log : log[i] = e /\ e[field] = k})
                        /\ \A i, j \in DOMAIN timeline :
                              i < j => timeline[i].timestamp <= timeline[j].timestamp
  BY DEF TimelinesAre
<1> DEFINE timeline == Timeline(index, k)
<1>1. InOrder(log, Of(log, field, k, Len(log)), timeline)
  BY DEF IndexOver
<1>2. Of(log, field, k, Len(log)) \in SUBSET (1 .. Len(log))
  BY DEF Of
<1> HIDE DEF timeline
<1>3. /\ timeline \in Seq(Entries) /\ Len(timeline) \in Nat
      /\ \A i, j \in 1 .. Len(timeline) : i <= j => timeline[i].timestamp <= timeline[j].timestamp
  <2> DEFINE P == Of(log, field, k, Len(log))
  <2> HIDE DEF P
  <2>1. P \in SUBSET (1 .. Len(log)) /\ InOrder(log, P, timeline)
    BY <1>1, <1>2 DEF P
  <2> QED
    BY <2>1, InOrderSorted
<1>4. DOMAIN timeline = 1 .. Len(timeline)
  BY <1>3, LenProperties
<1>5. \A i, j \in DOMAIN timeline : i < j => timeline[i].timestamp <= timeline[j].timestamp
  <2>1. \A i, j \in 1 .. Len(timeline) : i < j => i <= j
    BY <1>3
  <2> QED
    BY <1>3, <1>4, <2>1
<1>6. \A e \in Entries : Cardinality({i \in DOMAIN timeline : timeline[i] = e}) =
                             Cardinality({i \in DOMAIN log : log[i] = e /\ e[field] = k})
  BY <1>1, OftenEnough
<1> QED
  BY <1>5, <1>6 DEF timeline
-----------------------------------------------------------------------------
(* The journeys                                                            *)

(* A turn of the search keeps what lies beyond to the right, and makes the *)
(* range smaller until it is empty.                                        *)
Brackets(N, beyond, range, n) ==
    /\ range \in [lo : 0 .. N, hi : 0 .. N]
    /\ range.lo <= range.hi /\ range.hi - range.lo <= N - n
    /\ \A i \in 1 .. range.lo : i \notin beyond
    /\ \A i \in range.hi + 1 .. N : i \in beyond

UpwardClosed(N, beyond) ==
    \A i, j \in 1 .. N : i \in beyond /\ i <= j => j \in beyond

LEMMA NarrowedBrackets ==
    ASSUME NEW N \in Nat, NEW beyond, UpwardClosed(N, beyond), NEW n \in 1 .. N,
           NEW range, Brackets(N, beyond, range, n - 1)
    PROVE  Brackets(N, beyond, Narrowed(range, beyond), n)
<1> DEFINE lo == range.lo
           hi == range.hi
           mid == lo + (hi - lo) \div 2
<1>1. /\ range \in [lo : 0 .. N, hi : 0 .. N] /\ lo \in 0 .. N /\ hi \in 0 .. N
      /\ lo <= hi /\ hi - lo <= N - (n - 1)
      /\ \A i \in 1 .. lo : i \notin beyond
      /\ \A i \in hi + 1 .. N : i \in beyond
  BY DEF Brackets
<1>2. Narrowed(range, beyond) = IF lo >= hi THEN range
                                ELSE IF mid + 1 \notin beyond THEN [range EXCEPT !.lo = mid + 1]
                                ELSE [range EXCEPT !.hi = mid]
  BY DEF Narrowed
<1>3. \A b \in 0 .. N : /\ [range EXCEPT !.lo = b] \in [lo : 0 .. N, hi : 0 .. N]
                        /\ [range EXCEPT !.lo = b].lo = b /\ [range EXCEPT !.lo = b].hi = hi
                        /\ [range EXCEPT !.hi = b] \in [lo : 0 .. N, hi : 0 .. N]
                        /\ [range EXCEPT !.hi = b].hi = b /\ [range EXCEPT !.hi = b].lo = lo
  BY <1>1
<1>4. lo < hi => mid \in lo .. hi - 1
  BY <1>1
<1> HIDE DEF lo, hi, mid
<1>5. CASE lo >= hi
  <2>1. hi - lo <= N - n
    BY <1>1, <1>5
  <2>2. Narrowed(range, beyond) = range
    BY <1>2, <1>5
  <2> QED
    BY <1>1, <2>1, <2>2 DEF Brackets, lo, hi
<1>6. CASE ~(lo >= hi) /\ mid + 1 \notin beyond
  <2>1. mid \in lo .. hi - 1 /\ mid + 1 \in 0 .. N /\ mid + 1 \in 1 .. N
    BY <1>1, <1>4, <1>6
  <2>2. Narrowed(range, beyond) = [range EXCEPT !.lo = mid + 1]
    BY <1>2, <1>6
  <2>3. mid + 1 <= hi /\ hi - (mid + 1) <= N - n
    BY <1>1, <2>1
  <2>4. \A i \in 1 .. mid + 1 : i \notin beyond
    <3>1. \A i \in 1 .. mid + 1 : i \in 1 .. N /\ i <= mid + 1
      BY <2>1
    <3> QED
      BY <1>6, <2>1, <3>1 DEF UpwardClosed
  <2> DEFINE b == mid + 1
             new == [range EXCEPT !.lo = b]
  <2> HIDE DEF b
  <2>5. new \in [lo : 0 .. N, hi : 0 .. N] /\ new.lo = b /\ new.hi = hi
    BY <1>3, <2>1 DEF b
  <2> HIDE DEF new
  <2>6. Brackets(N, beyond, new, n)
    BY <1>1, <2>3, <2>4, <2>5 DEF Brackets, b
  <2> QED
    BY <2>2, <2>6 DEF new, b
<1>7. CASE ~(lo >= hi) /\ mid + 1 \in beyond
  <2>1. mid \in lo .. hi - 1 /\ mid \in 0 .. N /\ mid + 1 \in 1 .. N
    BY <1>1, <1>4, <1>7
  <2>2. Narrowed(range, beyond) = [range EXCEPT !.hi = mid]
    BY <1>2, <1>7
  <2>3. lo <= mid /\ mid - lo <= N - n
    BY <1>1, <2>1
  <2>4. \A i \in mid + 1 .. N : i \in beyond
    <3>1. \A i \in mid + 1 .. N : i \in 1 .. N /\ mid + 1 <= i
      BY <2>1
    <3> QED
      BY <1>7, <2>1, <3>1 DEF UpwardClosed
  <2> DEFINE new == [range EXCEPT !.hi = mid]
  <2>5. new \in [lo : 0 .. N, hi : 0 .. N] /\ new.hi = mid /\ new.lo = lo
    BY <1>3, <2>1
  <2> HIDE DEF new
  <2>6. Brackets(N, beyond, new, n)
    BY <1>1, <2>3, <2>4, <2>5 DEF Brackets
  <2> QED
    BY <2>2, <2>6 DEF new
<1> QED
  BY <1>5, <1>6, <1>7

(* The loop of the bisections.                                             *)
LEMMA SearchSteps ==
    ASSUME NEW N \in Nat, NEW beyond
    PROVE  LET search == Search(N, beyond)
           IN  /\ search[0] = [lo |-> 0, hi |-> N]
               /\ \A n \in 1 .. N : search[n] = Narrowed(search[n - 1], beyond)
<1> DEFINE V == [lo : Int, hi : Int]
           base == [lo |-> 0, hi |-> N]
           step == [n \in 1 .. N |-> [range \in V |-> Narrowed(range, beyond)]]
           Loop(f) == f = [n \in 0 .. N |-> IF n = 0 THEN base ELSE Narrowed(f[n - 1], beyond)]
<1>1. base \in V
  OBVIOUS
<1>2. \A range \in V : Narrowed(range, beyond) \in V
  BY DEF Narrowed
<1> HIDE DEF V, base
<1>3. step \in [1 .. N -> [V -> V]]
  BY <1>2
<1>4. PICK f : f \in LoopRuns(V, base, N, step)
  <2> HIDE DEF step
  <2> QED
    BY <1>1, <1>3, LoopExists
<1>5. f \in [0 .. N -> V] /\ f[0] = base /\ \A n \in 1 .. N : f[n] = step[n][f[n - 1]]
  BY <1>4 DEF LoopRuns
<1>6. \A n \in 1 .. N : n \in 0 .. N /\ n # 0 /\ n - 1 \in 0 .. N
  OBVIOUS
<1>7. \A n \in 1 .. N : f[n] = Narrowed(f[n - 1], beyond)
  <2>1. \A n \in 1 .. N : f[n - 1] \in V
    BY <1>5, <1>6
  <2> QED
    BY <1>5, <2>1
<1>8. Loop(f)
  <2>1. \A n \in 0 .. N : n # 0 => n \in 1 .. N
    OBVIOUS
  <2>2. \A n \in 0 .. N : f[n] = IF n = 0 THEN base ELSE Narrowed(f[n - 1], beyond)
    BY <1>5, <1>7, <2>1
  <2> QED
    BY <1>5, <2>2
<1> DEFINE search == Search(N, beyond)
<1>9. Loop(search)
  <2>1. search = CHOOSE g : Loop(g)
    BY DEF Search, base
  <2> HIDE DEF search, Loop
  <2> QED
    BY <1>8, <2>1
<1> HIDE DEF search
<1>10. search[0] = base /\ \A n \in 1 .. N : search[n] = Narrowed(search[n - 1], beyond)
  <2>1. 0 \in 0 .. N
    OBVIOUS
  <2> QED
    BY <1>6, <1>9, <2>1
<1> QED
  BY <1>10 DEF search, base

(* The bisection finds the first place that lies beyond. *)
LEMMA BisectFinds ==
    ASSUME NEW arr, Len(arr) \in Nat, NEW beyond, UpwardClosed(Len(arr), beyond)
    PROVE  /\ Bisect(arr, beyond) \in 0 .. Len(arr)
           /\ \A i \in 1 .. Len(arr) : i \in beyond <=> i > Bisect(arr, beyond)
<1> DEFINE N == Len(arr)
           search == Search(N, beyond)
           T == {n \in 0 .. N : Brackets(N, beyond, search[n], n)}
<1>1. N \in Nat
  OBVIOUS
<1> HIDE DEF N
<1>2. search[0] = [lo |-> 0, hi |-> N] /\ \A n \in 1 .. N : search[n] = Narrowed(search[n - 1], beyond)
  BY <1>1, SearchSteps
<1>3. UpwardClosed(N, beyond)
  BY DEF N
<1> HIDE DEF search
<1>4. 0 \in T
  <2>1. Brackets(N, beyond, [lo |-> 0, hi |-> N], 0)
    BY <1>1 DEF Brackets
  <2>2. 0 \in 0 .. N
    BY <1>1
  <2> QED
    BY <1>2, <2>1, <2>2
<1>5. ASSUME NEW n \in 1 .. N, n - 1 \in T
      PROVE  n \in T
  <2>1. n \in 0 .. N
    BY <1>1
  <2>2. Brackets(N, beyond, Narrowed(search[n - 1], beyond), n)
    BY <1>1, <1>3, <1>5, NarrowedBrackets
  <2> QED
    BY <1>2, <2>1, <2>2
<1>6. N \in T
  <2>1. N \in 0 .. N
    BY <1>1
  <2> HIDE DEF T
  <2>2. \A n \in 0 .. N : n \in T
    BY <1>1, <1>4, <1>5, UpTo
  <2> QED
    BY <2>1, <2>2
<1> DEFINE range == search[N]
<1>7. Brackets(N, beyond, range, N)
  BY <1>6
<1> HIDE DEF range
<1>8. /\ range.lo \in 0 .. N /\ range.hi \in 0 .. N /\ range.lo = range.hi
      /\ \A i \in 1 .. range.lo : i \notin beyond
      /\ \A i \in range.hi + 1 .. N : i \in beyond
  BY <1>1, <1>7 DEF Brackets
<1>9. Bisect(arr, beyond) = range.lo
  BY DEF Bisect, range, search, N
<1>10. \A i \in 1 .. N : i \in beyond <=> i > range.lo
  <2>1. \A i \in 1 .. N : (i > range.lo /\ i \in range.hi + 1 .. N)
                          \/ (~(i > range.lo) /\ i \in 1 .. range.lo)
    BY <1>1, <1>8
  <2> QED
    BY <1>8, <2>1
<1> QED
  BY <1>8, <1>9, <1>10 DEF N

(* lowerBound() and upperBound() cut a timeline at a time. *)
LEMMA BoundsCut ==
    ASSUME NEW arr \in Seq(Entries), SortedByTime(arr), NEW target \in Int
    PROVE  /\ LowerBound(arr, target) \in 0 .. Len(arr) /\ UpperBound(arr, target) \in 0 .. Len(arr)
           /\ \A i \in 1 .. Len(arr) : arr[i].timestamp >= target <=> i > LowerBound(arr, target)
           /\ \A i \in 1 .. Len(arr) : arr[i].timestamp > target <=> i > UpperBound(arr, target)
<1> DEFINE N == Len(arr)
           from == {i \in DOMAIN arr : arr[i].timestamp >= target}
           after == {i \in DOMAIN arr : arr[i].timestamp > target}
<1>1. /\ N \in Nat /\ DOMAIN arr = 1 .. N
      /\ \A i \in 1 .. N : arr[i].timestamp \in Nat
      /\ \A i, j \in 1 .. N : i <= j => arr[i].timestamp <= arr[j].timestamp
  BY LenProperties DEF SortedByTime
<1>2. \A i \in 1 .. N : /\ i \in from <=> arr[i].timestamp >= target
                        /\ i \in after <=> arr[i].timestamp > target
  BY <1>1
<1>3. LowerBound(arr, target) = Bisect(arr, from) /\ UpperBound(arr, target) = Bisect(arr, after)
  BY DEF LowerBound, UpperBound
<1> HIDE DEF from, after, N
<1>4. UpwardClosed(N, from) /\ UpwardClosed(N, after)
  BY <1>1, <1>2 DEF UpwardClosed
<1>5. /\ Bisect(arr, from) \in 0 .. N /\ Bisect(arr, after) \in 0 .. N
      /\ \A i \in 1 .. N : i \in from <=> i > Bisect(arr, from)
      /\ \A i \in 1 .. N : i \in after <=> i > Bisect(arr, after)
  BY <1>1, <1>4, BisectFinds DEF N
<1> QED
  BY <1>2, <1>3, <1>5 DEF N

(* What a run of places a .. b shows are the positions there. *)
LEMMA PartInOrder ==
    ASSUME NEW log \in Seq(Entries), NEW P \in SUBSET (1 .. Len(log)), NEW s,
           InOrder(log, P, s), NEW Q \in SUBSET P,
           NEW a \in 1 .. Len(s) + 1, NEW b \in 0 .. Len(s),
           NEW place, Places(log, P, s, place),
           \A i \in 1 .. Len(s) : place[i] \in Q <=> i \in a .. b
    PROVE  InOrder(log, Q, SubSeq(s, a, b))
<1> DEFINE N == Len(s)
           part == SubSeq(s, a, b)
           k == Len(part)
           there == [i \in 1 .. k |-> place[a + i - 1]]
<1>1. s \in Seq(Entries) /\ N \in Nat /\ \A i \in 1 .. N : s[i] \in Entries
  BY LenProperties, ElementOfSeq DEF InOrder
<1>2. a \in 1 .. N + 1 /\ b \in 0 .. N /\ a \in Int /\ b \in Int /\ \A i \in a .. b : i \in 1 .. N
  BY <1>1
<1>3. /\ part \in Seq(Entries)
      /\ k = IF a <= b THEN b - a + 1 ELSE 0
      /\ \A i \in 1 .. b - a + 1 : part[i] = s[a + i - 1]
  <2> HIDE DEF N
  <2> QED
    BY <1>1, <1>2, SubSeqProperties
<1>4. /\ place \in [1 .. N -> P]
      /\ \A p \in P : \E i \in 1 .. N : place[i] = p
      /\ \A i, j \in 1 .. N : i < j => Earlier(log, place[i], place[j])
      /\ \A i \in 1 .. N : s[i] = log[place[i]]
  BY DEF Places
<1>5. \A i \in 1 .. N : place[i] \in Q <=> i \in a .. b
  OBVIOUS
<1> HIDE DEF N, part, k
<1>6. /\ k \in Nat
      /\ \A i \in 1 .. k : a + i - 1 \in 1 .. N /\ a + i - 1 \in a .. b /\ i \in 1 .. b - a + 1
      /\ \A i \in a .. b : i - a + 1 \in 1 .. k /\ a + (i - a + 1) - 1 = i
      /\ \A i, j \in 1 .. k : i < j => a + i - 1 < a + j - 1
  <2>1. k = IF a <= b THEN b - a + 1 ELSE 0
    BY <1>3
  <2>2. k \in Nat
    BY <1>2, <2>1
  <2>3. \A i \in 1 .. k : a + i - 1 \in a .. b /\ i \in 1 .. b - a + 1
    <3>1. CASE a <= b
      BY <1>2, <2>1, <3>1
    <3>2. CASE ~(a <= b)
      BY <1>2, <2>1, <3>2
    <3> QED
      BY <3>1, <3>2
  <2>4. \A i \in a .. b : i - a + 1 \in 1 .. k /\ a + (i - a + 1) - 1 = i
    BY <1>2, <2>1
  <2>5. \A i, j \in 1 .. k : i < j => a + i - 1 < a + j - 1
    BY <1>2, <2>2
  <2> QED
    BY <1>2, <2>2, <2>3, <2>4, <2>5
<1>7. \A i \in 1 .. k : there[i] = place[a + i - 1] /\ there[i] \in Q
  BY <1>5, <1>6
<1>8. there \in [1 .. k -> Q]
  BY <1>7
<1> HIDE DEF there
<1>9. \A p \in Q : \E i \in 1 .. k : there[i] = p
  <2> SUFFICES ASSUME NEW p \in Q
               PROVE  \E i \in 1 .. k : there[i] = p
    OBVIOUS
  <2>1. PICK i \in 1 .. N : place[i] = p
    BY <1>4
  <2>2. i \in a .. b
    BY <1>5, <2>1
  <2>3. i - a + 1 \in 1 .. k /\ there[i - a + 1] = place[a + (i - a + 1) - 1]
    BY <1>6, <1>7, <2>2
  <2> QED
    BY <1>6, <2>1, <2>2, <2>3
<1>10. \A i, j \in 1 .. k : i < j => Earlier(log, there[i], there[j])
  <2> SUFFICES ASSUME NEW i \in 1 .. k, NEW j \in 1 .. k, i < j
               PROVE  Earlier(log, there[i], there[j])
    OBVIOUS
  <2> DEFINE x == a + i - 1
             y == a + j - 1
  <2>1. x \in 1 .. N /\ y \in 1 .. N /\ x < y /\ there[i] = place[x] /\ there[j] = place[y]
    BY <1>6, <1>7
  <2> HIDE DEF x, y
  <2> QED
    BY <1>4, <2>1
<1>11. \A i \in 1 .. k : part[i] = log[there[i]]
  <2> SUFFICES ASSUME NEW i \in 1 .. k
               PROVE  part[i] = log[there[i]]
    OBVIOUS
  <2> DEFINE x == a + i - 1
  <2>1. x \in 1 .. N /\ part[i] = s[x] /\ there[i] = place[x]
    BY <1>3, <1>6, <1>7
  <2> HIDE DEF x
  <2> QED
    BY <1>4, <2>1
<1>12. Places(log, Q, part, there)
  BY <1>8, <1>9, <1>10, <1>11 DEF Places, k
<1> QED
  BY <1>3, <1>12 DEF InOrder, part

EarlierIn(log, P, p) == {q \in P : Earlier(log, q, p)}

(* The one sequence that is in order, by the rank of each position. *)
HistoryOf(log, P) ==
    [i \in 1 .. Cardinality(P) |->
        log[CHOOSE p \in P : Cardinality(EarlierIn(log, P, p)) = i - 1]]

(* Every sequence that is in order is this one: a position has as many     *)
(* before it as its place.                                                 *)
LEMMA OnlyOneOrder ==
    ASSUME NEW log \in Seq(Entries), NEW P \in SUBSET (1 .. Len(log)), NEW s, InOrder(log, P, s)
    PROVE  s = HistoryOf(log, P)
<1> DEFINE N == Len(s)
<1>1. s \in Seq(Entries) /\ N \in Nat /\ DOMAIN s = 1 .. N
  BY LenProperties DEF InOrder
<1>2. PICK place : Places(log, P, s, place)
  BY DEF InOrder
<1>3. /\ place \in [1 .. N -> P]
      /\ \A p \in P : \E i \in 1 .. N : place[i] = p
      /\ \A i, j \in 1 .. N : i < j => Earlier(log, place[i], place[j])
      /\ \A i \in 1 .. N : s[i] = log[place[i]]
  BY <1>2 DEF Places
<1>4. \A i, j \in 1 .. N : place[i] = place[j] => i = j
  BY <1>1, <1>2, PlacesDiffer
<1> HIDE DEF N
<1>5. \A i, j \in 1 .. N : Earlier(log, place[i], place[j]) <=> i < j
  <2>1. Len(log) \in Nat /\ \A p \in P : p \in Nat /\ log[p].timestamp \in Nat
    <3>1. Len(log) \in Nat /\ \A p \in 1 .. Len(log) : log[p].timestamp \in Nat /\ p \in Nat
      BY LenProperties, ElementOfSeq, EntryTime
    <3> QED
      BY <3>1
  <2>2. \A i \in 1 .. N : place[i] \in P
    BY <1>3
  <2>3. \A p, q \in P : ~(Earlier(log, p, q) /\ Earlier(log, q, p))
    BY <2>1 DEF Earlier
  <2>4. \A i, j \in 1 .. N : i < j \/ i = j \/ j < i
    BY <1>1
  <2> QED
    BY <1>3, <2>2, <2>3, <2>4
<1>6. \A n \in 0 .. N : IsFiniteSet(1 .. n) /\ Cardinality(1 .. n) = n
  BY <1>1, FS_Interval
<1>7. \A n \in 0 .. N : \A S : S = {place[j] : j \in 1 .. n} => Cardinality(S) = n
  <2> SUFFICES ASSUME NEW n \in 0 .. N
               PROVE  Cardinality({place[j] : j \in 1 .. n}) = n
    OBVIOUS
  <2> DEFINE S == {place[j] : j \in 1 .. n}
             map == [j \in 1 .. n |-> place[j]]
  <2>1. \A j \in 1 .. n : j \in 1 .. N
    BY <1>1
  <2>2. map \in [1 .. n -> S]
    OBVIOUS
  <2>3. \A i, j \in 1 .. n : map[i] = map[j] => i = j
    BY <1>4, <2>1
  <2>4. \A x \in S : \E j \in 1 .. n : map[j] = x
    OBVIOUS
  <2> HIDE DEF map, S
  <2>5. map \in Bijection(1 .. n, S)
    BY <2>2, <2>3, <2>4 DEF Bijection, Injection, Surjection, IsInjective
  <2>6. IsFiniteSet(1 .. n)
    BY <1>6
  <2>7. Cardinality(S) = Cardinality(1 .. n)
    BY <2>5, <2>6, FS_Bijection DEF ExistsBijection
  <2> QED
    BY <1>6, <2>7 DEF S
<1>8. Cardinality(P) = N
  <2>1. \A p : p \in P <=> p \in {place[j] : j \in 1 .. N}
    <3>1. \A j \in 1 .. N : place[j] \in P
      BY <1>3
    <3> QED
      BY <1>3, <3>1
  <2>2. P = {place[j] : j \in 1 .. N} /\ N \in 0 .. N
    BY <1>1, <2>1
  <2> QED
    BY <1>7, <2>2
<1>9. \A i \in 1 .. N : Cardinality(EarlierIn(log, P, place[i])) = i - 1
  <2> SUFFICES ASSUME NEW i \in 1 .. N
               PROVE  Cardinality(EarlierIn(log, P, place[i])) = i - 1
    OBVIOUS
  <2>1. i - 1 \in 0 .. N /\ \A j \in 1 .. N : j < i <=> j \in 1 .. i - 1
    BY <1>1
  <2>2. \A j \in 1 .. i - 1 : j \in 1 .. N
    BY <1>1
  <2>3. EarlierIn(log, P, place[i]) = {place[j] : j \in 1 .. i - 1}
    <3>1. ASSUME NEW p \in EarlierIn(log, P, place[i])
          PROVE  p \in {place[j] : j \in 1 .. i - 1}
      <4>1. p \in P /\ Earlier(log, p, place[i])
        BY DEF EarlierIn
      <4>2. PICK j \in 1 .. N : place[j] = p
        BY <1>3, <4>1
      <4>3. j \in 1 .. i - 1
        BY <1>5, <2>1, <4>1, <4>2
      <4> QED
        BY <4>2, <4>3
    <3>2. ASSUME NEW j \in 1 .. i - 1
          PROVE  place[j] \in EarlierIn(log, P, place[i])
      <4>1. j \in 1 .. N /\ j < i
        BY <2>1, <2>2
      <4>2. place[j] \in P /\ Earlier(log, place[j], place[i])
        BY <1>3, <1>5, <4>1
      <4> QED
        BY <4>2 DEF EarlierIn
    <3> QED
      BY <3>1, <3>2
  <2> QED
    BY <1>7, <2>1, <2>3
<1>10. \A i \in 1 .. N : s[i] = HistoryOf(log, P)[i]
  <2> SUFFICES ASSUME NEW i \in 1 .. N
               PROVE  s[i] = HistoryOf(log, P)[i]
    OBVIOUS
  <2> DEFINE chosen == CHOOSE p \in P : Cardinality(EarlierIn(log, P, p)) = i - 1
  <2>1. place[i] \in P /\ Cardinality(EarlierIn(log, P, place[i])) = i - 1
    BY <1>3, <1>9
  <2>2. chosen \in P /\ Cardinality(EarlierIn(log, P, chosen)) = i - 1
    BY <2>1
  <2>3. HistoryOf(log, P)[i] = log[chosen]
    BY <1>8 DEF HistoryOf
  <2> HIDE DEF chosen
  <2>4. PICK j \in 1 .. N : place[j] = chosen
    BY <1>3, <2>2
  <2>5. j - 1 = i - 1
    BY <1>9, <2>2, <2>4
  <2>6. j = i
    BY <1>1, <2>5
  <2> QED
    BY <1>3, <2>3, <2>4, <2>6
<1>11. HistoryOf(log, P) = [i \in 1 .. N |-> HistoryOf(log, P)[i]]
  BY <1>8 DEF HistoryOf
<1>12. s = [i \in 1 .. N |-> s[i]]
  BY <1>1, LenProperties DEF N
<1> QED
  BY <1>10, <1>11, <1>12

(* The lesser and the greater of two numbers.                              *)
LEMMA TwoEnds ==
    ASSUME NEW a \in Int, NEW b \in Int
    PROVE  /\ Min({a, b}) = IF a <= b THEN a ELSE b
           /\ Max({a, b}) = IF a <= b THEN b ELSE a
<1>1. ASSUME NEW x \in {a, b}, \A y \in {a, b} : x <= y
      PROVE  Min({a, b}) = x
  <2> DEFINE m == CHOOSE z \in {a, b} : \A y \in {a, b} : z <= y
  <2>1. m \in {a, b} /\ \A y \in {a, b} : m <= y
    BY <1>1
  <2>2. Min({a, b}) = m
    BY DEF Min
  <2> HIDE DEF m
  <2>3. m <= x /\ x <= m /\ m \in Int /\ x \in Int
    BY <1>1, <2>1
  <2> QED
    BY <2>2, <2>3
<1>2. ASSUME NEW x \in {a, b}, \A y \in {a, b} : x >= y
      PROVE  Max({a, b}) = x
  <2> DEFINE m == CHOOSE z \in {a, b} : \A y \in {a, b} : z >= y
  <2>1. m \in {a, b} /\ \A y \in {a, b} : m >= y
    BY <1>2
  <2>2. Max({a, b}) = m
    BY DEF Max
  <2> HIDE DEF m
  <2>3. m >= x /\ x >= m /\ m \in Int /\ x \in Int
    BY <1>2, <2>1
  <2> QED
    BY <2>2, <2>3
<1>3. CASE a <= b
  <2>1. Min({a, b}) = a /\ Max({a, b}) = b
    BY <1>1, <1>2, <1>3
  <2> QED
    BY <1>3, <2>1
<1>4. CASE ~(a <= b)
  <2>1. b <= a
    BY <1>4
  <2>2. Min({a, b}) = b /\ Max({a, b}) = a
    BY <1>1, <1>2, <2>1
  <2> QED
    BY <1>4, <2>2
<1> QED
  BY <1>3, <1>4

(* readTimeRange(): whatever is typed, the range is the one between the    *)
(* two ends.                                                               *)
LEMMA EndsAreTimes ==
    ASSUME NEW from \in Typed, NEW to \in Typed
    PROVE  /\ StartTime(from) \in Int /\ EndTime(to) \in Int
           /\ RangeStart(from, to) \in Int /\ RangeEnd(from, to) \in Int
           /\ RangeStart(from, to) <= RangeEnd(from, to)
           /\ \A t \in Int : t \in RangeStart(from, to) .. RangeEnd(from, to) <=>
                t \in (StartTime(from) .. EndTime(to)) \cup (EndTime(to) .. StartTime(from))
<1>1. StartTime(from) \in Int
  BY SizesAssumption DEF StartTime, Typed, DEFAULT_START
<1>2. EndTime(to) \in Int
  BY SizesAssumption DEF EndTime, Typed
<1> DEFINE a == StartTime(from)
           b == EndTime(to)
<1>3. RangeStart(from, to) = Min({a, b}) /\ RangeEnd(from, to) = Max({a, b})
  BY DEF RangeStart, RangeEnd
<1> HIDE DEF a, b
<1>4. /\ RangeStart(from, to) = IF a <= b THEN a ELSE b
      /\ RangeEnd(from, to) = IF a <= b THEN b ELSE a
  BY <1>1, <1>2, <1>3, TwoEnds DEF a, b
<1> QED
  BY <1>1, <1>2, <1>4 DEF a, b

(* The range asked for, and the positions of a key in it.                  *)
InRangeOf(e, from, to) == e.timestamp \in RangeStart(from, to) .. RangeEnd(from, to)

Asked(log, field, key, from, to) ==
    {i \in DOMAIN log : log[i][field] = key /\ InRangeOf(log[i], from, to)}

(* The bisections find all and only the rows in range. *)
LEMMA RowsAreAsked ==
    ASSUME NEW log \in Seq(Entries), NEW index, NEW field, IndexOver(index, field, log),
           NEW key \in DOMAIN HashKey, NEW from \in Typed, NEW to \in Typed
    PROVE  InOrder(log, Asked(log, field, key, from, to), Rows(Timeline(index, key), from, to))
<1> DEFINE s == Timeline(index, key)
           N == Len(s)
           P == Of(log, field, key, Len(log))
           Q == Asked(log, field, key, from, to)
           start == RangeStart(from, to)
           end == RangeEnd(from, to)
           a == LowerBound(s, start) + 1
           b == UpperBound(s, end)
<1>1. InOrder(log, P, s)
  BY DEF IndexOver
<1>2. /\ P \in SUBSET (1 .. Len(log)) /\ DOMAIN log = 1 .. Len(log)
      /\ \A p : p \in P <=> p \in 1 .. Len(log) /\ log[p][field] = key
  BY LenProperties DEF Of
<1>3. \A p \in P : p \in Q <=> log[p].timestamp \in start .. end
  BY <1>2 DEF Asked, InRangeOf
<1>4. Q \in SUBSET P
  BY <1>2 DEF Asked
<1>5. start \in Int /\ end \in Int
  BY EndsAreTimes
<1>6. Rows(s, from, to) = SubSeq(s, a, b)
  BY DEF Rows
<1> HIDE DEF P, Q, start, end, s
<1>7. SortedByTime(s) /\ s \in Seq(Entries) /\ N \in Nat /\ \A i \in 1 .. N : s[i].timestamp \in Nat
  BY <1>1, <1>2, InOrderSorted DEF SortedByTime
<1>8. /\ a \in 1 .. N + 1 /\ b \in 0 .. N
      /\ \A i \in 1 .. N : s[i].timestamp >= start <=> i > a - 1
      /\ \A i \in 1 .. N : s[i].timestamp > end <=> i > b
  <2>1. /\ LowerBound(s, start) \in 0 .. N /\ UpperBound(s, end) \in 0 .. N
        /\ \A i \in 1 .. N : s[i].timestamp >= start <=> i > LowerBound(s, start)
        /\ \A i \in 1 .. N : s[i].timestamp > end <=> i > UpperBound(s, end)
    BY <1>5, <1>7, BoundsCut
  <2> DEFINE lower == LowerBound(s, start)
  <2> HIDE DEF lower, N
  <2>2. lower \in 0 .. N /\ N \in Nat /\ a = lower + 1
    BY <1>7, <2>1 DEF lower
  <2>3. a \in 1 .. N + 1 /\ a - 1 = lower
    BY <2>2
  <2> QED
    BY <2>1, <2>3 DEF lower
<1> HIDE DEF a, b
<1>9. PICK place : Places(log, P, s, place)
  BY <1>1 DEF InOrder
<1>10. \A i \in 1 .. N : place[i] \in Q <=> i \in a .. b
  <2> SUFFICES ASSUME NEW i \in 1 .. N
               PROVE  place[i] \in Q <=> i \in a .. b
    OBVIOUS
  <2>1. place[i] \in P /\ s[i] = log[place[i]]
    BY <1>9 DEF Places
  <2>2. place[i] \in Q <=> s[i].timestamp \in start .. end
    BY <1>3, <2>1
  <2>3. s[i].timestamp \in Nat /\ (s[i].timestamp >= start <=> i > a - 1)
        /\ (s[i].timestamp > end <=> i > b)
    BY <1>7, <1>8
  <2>4. s[i].timestamp \in start .. end <=> i \in a .. b
    <3> DEFINE t == s[i].timestamp
    <3>1. t \in Int /\ (t >= start <=> i > a - 1) /\ (t > end <=> i > b)
      BY <2>3
    <3> HIDE DEF t, N
    <3>2. i \in Int /\ a \in Int /\ b \in Int
      BY <1>7, <1>8
    <3>3. t \in start .. end <=> i \in a .. b
      BY <1>5, <3>1, <3>2
    <3> QED
      BY <3>3 DEF t
  <2> QED
    BY <2>2, <2>4
<1>11. InOrder(log, Q, SubSeq(s, a, b))
  BY <1>1, <1>2, <1>4, <1>8, <1>9, <1>10, PartInOrder
<1> QED
  BY <1>6, <1>11 DEF a, b, s, start, end, Q

(* The pager shows all rows or a page of them. *)
LEMMA PagerShows ==
    ASSUME NEW rows \in Seq(Entries), NEW printed \in Printed(rows)
    PROVE  \E p \in {rows} \cup {q \in Prefixes(rows) : q # << >> /\ Len(q) % PageSize = 0} :
              p \in Seq(Entries) /\ printed = [rows |-> p]
<1>1. Len(rows) \in Nat /\ \A i \in 1 .. Len(rows) : rows[i] \in Entries
  BY LenProperties, ElementOfSeq
<1>2. PICK n \in {Len(rows)} \cup {k \in 1 .. Len(rows) : k % PageSize = 0} :
          printed = [rows |-> SubSeq(rows, 1, n)]
  BY DEF Printed
<1>3. CASE n = Len(rows)
  <2>1. SubSeq(rows, 1, Len(rows)) = rows
    BY <1>1
  <2> QED
    BY <1>2, <1>3, <2>1
<1>4. CASE n \in 1 .. Len(rows) /\ n % PageSize = 0
  <2> DEFINE q == SubSeq(rows, 1, n)
  <2>1. n \in 0 .. Len(rows) /\ n \in Nat /\ n # 0
    BY <1>1, <1>4
  <2>2. q \in Seq(Entries) /\ Len(q) = n
    BY <1>1, <1>4
  <2>3. q \in Prefixes(rows)
    BY <2>1 DEF Prefixes
  <2> HIDE DEF q
  <2>4. q # << >> /\ Len(q) % PageSize = 0
    BY <1>4, <2>1, <2>2
  <2> QED
    BY <1>2, <2>2, <2>3, <2>4 DEF q
<1> QED
  BY <1>2, <1>3, <1>4
-----------------------------------------------------------------------------
(* The count table                                                         *)

(* A node of the count table.                                              *)
CountNode == [resourceId : Nat, count : Nat]

(* A chain has at most one node of a resource, which was accessed.         *)
GoodCounts(chain) ==
    /\ chain \in Seq(CountNode)
    /\ \A i \in 1 .. Len(chain) : chain[i].count # 0
    /\ \A i, j \in 1 .. Len(chain) : chain[i].resourceId = chain[j].resourceId => i = j

(* The count under a resource, 0 if it has no node. *)
HoldsCount(chain, r, count) ==
    \/ count = 0 /\ \A i \in 1 .. Len(chain) : chain[i].resourceId # r
    \/ \E i \in 1 .. Len(chain) : chain[i].resourceId = r /\ chain[i].count = count

(* The types of a chain's parts.                                           *)
LEMMA CountFacts ==
    ASSUME NEW chain \in Seq(CountNode)
    PROVE  /\ Len(chain) \in Nat /\ DOMAIN chain = 1 .. Len(chain)
           /\ \A i \in 1 .. Len(chain) : /\ chain[i] \in CountNode /\ chain[i].resourceId \in Nat
                                         /\ chain[i].count \in Nat
<1>1. Len(chain) \in Nat /\ DOMAIN chain = 1 .. Len(chain)
      /\ \A i \in 1 .. Len(chain) : chain[i] \in CountNode
  BY LenProperties, ElementOfSeq
<1>2. \A n \in CountNode : n.resourceId \in Nat /\ n.count \in Nat
  BY DEF CountNode
<1> QED
  BY <1>1, <1>2

(* A resource that has no node gets one that counts 1.                     *)
LEMMA NewCount ==
    ASSUME NEW chain, GoodCounts(chain), NEW r \in Nat, CountNodes(chain, r) = {}
    PROVE  /\ GoodCounts(CountInto(chain, r))
           /\ \A i \in 1 .. Len(CountInto(chain, r)) :
                 \/ CountInto(chain, r)[i].resourceId = r
                 \/ \E j \in 1 .. Len(chain) : CountInto(chain, r)[i].resourceId = chain[j].resourceId
           /\ \A n \in Nat : HoldsCount(chain, r, n) => HoldsCount(CountInto(chain, r), r, n + 1)
           /\ \A other, n : other # r /\ HoldsCount(chain, other, n) =>
                 HoldsCount(CountInto(chain, r), other, n)
<1> DEFINE node == [resourceId |-> r, count |-> 1]
           longer == CountInto(chain, r)
           n == Len(chain)
<1>1. /\ chain \in Seq(CountNode) /\ n \in Nat /\ DOMAIN chain = 1 .. n
      /\ \A i \in 1 .. n : chain[i] \in CountNode /\ chain[i].resourceId \in Nat /\ chain[i].count # 0
  BY CountFacts DEF GoodCounts
<1>2. node \in CountNode /\ node.resourceId = r /\ node.count = 1
  BY DEF CountNode
<1>3. longer = <<node>> \o chain
  BY DEF CountInto
<1> HIDE DEF node, longer
<1>4. /\ longer \in Seq(CountNode) /\ Len(longer) = n + 1 /\ longer[1] = node
      /\ \A i \in 2 .. n + 1 : longer[i] = chain[i - 1]
  <2>1. <<node>> \in Seq(CountNode) /\ Len(<<node>>) = 1 /\ <<node>>[1] = node
    BY <1>2
  <2>2. /\ <<node>> \o chain \in Seq(CountNode) /\ Len(<<node>> \o chain) = 1 + n
        /\ \A i \in 1 .. 1 + n : (<<node>> \o chain)[i] = IF i <= 1 THEN <<node>>[i] ELSE chain[i - 1]
    BY <1>1, <2>1, ConcatProperties
  <2>3. /\ 1 \in 1 .. 1 + n /\ 1 + n = n + 1
        /\ \A i \in 2 .. n + 1 : i \in 1 .. 1 + n /\ ~(i <= 1)
    BY <1>1
  <2> HIDE DEF n
  <2> QED
    BY <1>3, <2>1, <2>2, <2>3
<1>5. \A i \in 1 .. n : chain[i].resourceId # r
  BY <1>1 DEF CountNodes
<1>6. \A i \in 1 .. n + 1 : i = 1 \/ (i \in 2 .. n + 1 /\ i - 1 \in 1 .. n)
  BY <1>1
<1>7. \A i \in 2 .. n + 1 : i - 1 \in 1 .. n /\ longer[i] = chain[i - 1]
  BY <1>1, <1>4
<1>8. \A i, j \in 1 .. n + 1 : longer[i].resourceId = longer[j].resourceId => i = j
  <2>1. \A i \in 2 .. n + 1 : longer[i].resourceId # r
    BY <1>5, <1>7
  <2>2. \A i, j \in 2 .. n + 1 : longer[i].resourceId = longer[j].resourceId => i = j
    <3> SUFFICES ASSUME NEW i \in 2 .. n + 1, NEW j \in 2 .. n + 1,
                        longer[i].resourceId = longer[j].resourceId
                 PROVE  i = j
      OBVIOUS
    <3>1. i - 1 = j - 1
      BY <1>7 DEF GoodCounts
    <3> QED
      BY <1>1, <3>1
  <2> QED
    BY <1>2, <1>4, <1>6, <2>1, <2>2
<1>9. \A i \in 1 .. n + 1 : longer[i].count # 0
  BY <1>1, <1>2, <1>4, <1>6, <1>7
<1>10. GoodCounts(longer)
  BY <1>4, <1>8, <1>9 DEF GoodCounts
<1>11. \A i \in 1 .. n + 1 : \/ longer[i].resourceId = r
                             \/ \E j \in 1 .. n : longer[i].resourceId = chain[j].resourceId
  BY <1>2, <1>4, <1>6, <1>7
<1>12. ASSUME NEW c \in Nat, HoldsCount(chain, r, c)
       PROVE  HoldsCount(longer, r, c + 1)
  <2>1. c = 0
    BY <1>5, <1>12 DEF HoldsCount
  <2>2. 1 \in 1 .. n + 1
    BY <1>1
  <2> QED
    BY <1>2, <1>4, <2>1, <2>2 DEF HoldsCount
<1>13. ASSUME NEW other, NEW c, other # r, HoldsCount(chain, other, c)
       PROVE  HoldsCount(longer, other, c)
  <2>1. CASE c = 0 /\ \A i \in 1 .. n : chain[i].resourceId # other
    <3>1. \A i \in 1 .. n + 1 : longer[i].resourceId # other
      BY <1>2, <1>4, <1>6, <1>13, <2>1
    <3> QED
      BY <1>4, <2>1, <3>1 DEF HoldsCount
  <2>2. CASE \E i \in 1 .. n : chain[i].resourceId = other /\ chain[i].count = c
    <3>1. PICK i \in 1 .. n : chain[i].resourceId = other /\ chain[i].count = c
      BY <2>2
    <3>2. i + 1 \in 2 .. n + 1 /\ i + 1 \in 1 .. n + 1 /\ (i + 1) - 1 = i
      BY <1>1
    <3>3. longer[i + 1] = chain[i]
      BY <1>4, <3>2
    <3> QED
      BY <1>4, <3>1, <3>2, <3>3 DEF HoldsCount
  <2> QED
    BY <1>13, <2>1, <2>2 DEF HoldsCount
<1>14. /\ \A c \in Nat : HoldsCount(chain, r, c) => HoldsCount(longer, r, c + 1)
       /\ \A other, c : other # r /\ HoldsCount(chain, other, c) => HoldsCount(longer, other, c)
  BY <1>12, <1>13
<1>15. \A i \in 1 .. Len(longer) : \/ longer[i].resourceId = r
                                  \/ \E j \in 1 .. n : longer[i].resourceId = chain[j].resourceId
  BY <1>4, <1>11
<1> QED
  BY <1>10, <1>14, <1>15 DEF longer

(* A resource that has a node counts one more.                             *)
LEMMA FoundCount ==
    ASSUME NEW chain, GoodCounts(chain), NEW r \in Nat, CountNodes(chain, r) # {}
    PROVE  /\ GoodCounts(CountInto(chain, r))
           /\ \A i \in 1 .. Len(CountInto(chain, r)) :
                 \/ CountInto(chain, r)[i].resourceId = r
                 \/ \E j \in 1 .. Len(chain) : CountInto(chain, r)[i].resourceId = chain[j].resourceId
           /\ \A n \in Nat : HoldsCount(chain, r, n) => HoldsCount(CountInto(chain, r), r, n + 1)
           /\ \A other, n : other # r /\ HoldsCount(chain, other, n) =>
                 HoldsCount(CountInto(chain, r), other, n)
<1> DEFINE longer == CountInto(chain, r)
           n == Len(chain)
           grown(i) == IF i \in CountNodes(chain, r) THEN [chain[i] EXCEPT !.count = @ + 1]
                       ELSE chain[i]
<1>1. /\ chain \in Seq(CountNode) /\ n \in Nat /\ DOMAIN chain = 1 .. n
      /\ \A i \in 1 .. n : /\ chain[i] \in CountNode /\ chain[i].resourceId \in Nat
                           /\ chain[i].count \in Nat /\ chain[i].count # 0
  BY CountFacts DEF GoodCounts
<1>2. longer = [i \in 1 .. n |-> grown(i)]
  BY <1>1 DEF CountInto
<1>3. \A i : i \in CountNodes(chain, r) <=> i \in 1 .. n /\ chain[i].resourceId = r
  BY <1>1 DEF CountNodes
<1> HIDE DEF longer
<1>4. \A i \in 1 .. n : grown(i) \in CountNode /\ grown(i).resourceId = chain[i].resourceId
                        /\ (chain[i].resourceId = r => grown(i).count = chain[i].count + 1)
                        /\ (chain[i].resourceId # r => grown(i).count = chain[i].count)
  <2> SUFFICES ASSUME NEW i \in 1 .. n
               PROVE  grown(i) \in CountNode /\ grown(i).resourceId = chain[i].resourceId
                      /\ (chain[i].resourceId = r => grown(i).count = chain[i].count + 1)
                      /\ (chain[i].resourceId # r => grown(i).count = chain[i].count)
    OBVIOUS
  <2>1. \A c \in CountNode, k \in Nat :
            /\ [c EXCEPT !.count = k] \in CountNode
            /\ [c EXCEPT !.count = k].resourceId = c.resourceId
            /\ [c EXCEPT !.count = k].count = k
    BY DEF CountNode
  <2>2. CASE chain[i].resourceId = r
    <3> DEFINE k == chain[i].count + 1
    <3>1. grown(i) = [chain[i] EXCEPT !.count = k] /\ k \in Nat /\ chain[i] \in CountNode
      BY <1>1, <1>3, <2>2
    <3> HIDE DEF k, grown
    <3>2. grown(i) \in CountNode /\ grown(i).resourceId = chain[i].resourceId /\ grown(i).count = k
      BY <2>1, <3>1
    <3> QED
      BY <2>2, <3>2 DEF k
  <2>3. CASE chain[i].resourceId # r
    BY <1>1, <1>3, <2>3
  <2> QED
    BY <2>2, <2>3
<1> HIDE DEF grown
<1>5. longer \in Seq(CountNode) /\ Len(longer) = n /\ \A i \in 1 .. n : longer[i] = grown(i)
  BY <1>1, <1>2, <1>4
<1>6. GoodCounts(longer)
  <2>1. \A i, j \in 1 .. n : longer[i].resourceId = longer[j].resourceId => i = j
    BY <1>4, <1>5 DEF GoodCounts
  <2>2. \A i \in 1 .. n : longer[i].count # 0
    BY <1>1, <1>4, <1>5
  <2> QED
    BY <1>5, <2>1, <2>2 DEF GoodCounts
<1>7. ASSUME NEW c \in Nat, HoldsCount(chain, r, c)
      PROVE  HoldsCount(longer, r, c + 1)
  <2>1. PICK i \in 1 .. n : chain[i].resourceId = r /\ chain[i].count = c
    BY <1>3, <1>7 DEF HoldsCount
  <2>2. longer[i].resourceId = r /\ longer[i].count = c + 1
    BY <1>4, <1>5, <2>1
  <2> QED
    BY <1>5, <2>2 DEF HoldsCount
<1>8. ASSUME NEW other, NEW c, other # r, HoldsCount(chain, other, c)
      PROVE  HoldsCount(longer, other, c)
  <2>1. CASE c = 0 /\ \A i \in 1 .. n : chain[i].resourceId # other
    <3>1. \A i \in 1 .. n : longer[i].resourceId # other
      BY <1>4, <1>5, <2>1
    <3> QED
      BY <1>5, <2>1, <3>1 DEF HoldsCount
  <2>2. CASE \E i \in 1 .. n : chain[i].resourceId = other /\ chain[i].count = c
    <3>1. PICK i \in 1 .. n : chain[i].resourceId = other /\ chain[i].count = c
      BY <2>2
    <3>2. longer[i].resourceId = other /\ longer[i].count = c
      BY <1>4, <1>5, <1>8, <3>1
    <3> QED
      BY <1>5, <3>2 DEF HoldsCount
  <2> QED
    BY <1>8, <2>1, <2>2 DEF HoldsCount
<1>9. \A i \in 1 .. Len(longer) : \/ longer[i].resourceId = r
                                 \/ \E j \in 1 .. n : longer[i].resourceId = chain[j].resourceId
  BY <1>4, <1>5
<1>10. /\ \A c \in Nat : HoldsCount(chain, r, c) => HoldsCount(longer, r, c + 1)
       /\ \A other, c : other # r /\ HoldsCount(chain, other, c) => HoldsCount(longer, other, c)
  BY <1>7, <1>8
<1> QED
  BY <1>6, <1>9, <1>10 DEF longer

(* The count table of a tally: every resource that was accessed has one    *)
(* node, in its bucket.                                                    *)
Table == 0 .. CountBuckets - 1

GoodTable(buckets) ==
    /\ buckets \in [Table -> Seq(CountNode)]
    /\ \A b \in Table : /\ GoodCounts(buckets[b])
                        /\ \A i \in 1 .. Len(buckets[b]) : buckets[b][i].resourceId % CountBuckets = b

Tallies(buckets, tally) ==
    /\ tally \in [Nat -> Nat]
    /\ GoodTable(buckets)
    /\ \A r \in Nat : HoldsCount(buckets[r % CountBuckets], r, tally[r])

(* One access more is tallied under its resource alone.                    *)
LEMMA CountedTallies ==
    ASSUME NEW buckets, NEW tally, Tallies(buckets, tally), NEW e \in Entries
    PROVE  Tallies(Counted(buckets, e), [tally EXCEPT ![e.resourceId] = @ + 1])
<1> DEFINE r == e.resourceId
           b == r % CountBuckets
           chain == buckets[b]
           longer == CountInto(chain, r)
           grown == Counted(buckets, e)
           more == [tally EXCEPT ![r] = @ + 1]
<1>1. r \in Nat
  BY SizesAssumption
<1>2. CountBuckets \in Nat \ {0} /\ \A k \in Nat : k % CountBuckets \in Table
  BY SizesAssumption, HomeInTable DEF Table
<1>3. /\ tally \in [Nat -> Nat] /\ b \in Table
      /\ buckets \in [Table -> Seq(CountNode)]
      /\ \A c \in Table : /\ GoodCounts(buckets[c])
                          /\ \A i \in 1 .. Len(buckets[c]) : buckets[c][i].resourceId % CountBuckets = c
      /\ \A k \in Nat : HoldsCount(buckets[k % CountBuckets], k, tally[k])
  BY <1>1, <1>2 DEF Tallies, GoodTable
<1>4. /\ GoodCounts(longer)
      /\ \A i \in 1 .. Len(longer) : \/ longer[i].resourceId = r
                                     \/ \E j \in 1 .. Len(chain) : longer[i].resourceId = chain[j].resourceId
      /\ \A n \in Nat : HoldsCount(chain, r, n) => HoldsCount(longer, r, n + 1)
      /\ \A other, n : other # r /\ HoldsCount(chain, other, n) => HoldsCount(longer, other, n)
  <2> HIDE DEF r, b
  <2>1. GoodCounts(chain)
    BY <1>3
  <2> HIDE DEF chain
  <2>2. CASE CountNodes(chain, r) = {}
    BY <1>1, <2>1, <2>2, NewCount
  <2>3. CASE CountNodes(chain, r) # {}
    BY <1>1, <2>1, <2>3, FoundCount
  <2> QED
    BY <2>2, <2>3
<1>5. grown = [buckets EXCEPT ![b] = longer]
  BY DEF Counted
<1> HIDE DEF grown, longer, b, r
<1>6. /\ grown \in [Table -> Seq(CountNode)] /\ grown[b] = longer
      /\ \A c \in Table : c # b => grown[c] = buckets[c]
  BY <1>3, <1>4, <1>5 DEF GoodCounts
<1>7. more \in [Nat -> Nat] /\ more[r] = tally[r] + 1 /\ \A k \in Nat : k # r => more[k] = tally[k]
  BY <1>1, <1>3
<1> HIDE DEF more
<1>8. r % CountBuckets = b
  BY DEF b
<1>9. GoodTable(grown)
  <2> SUFFICES ASSUME NEW c \in Table
               PROVE  /\ GoodCounts(grown[c])
                      /\ \A i \in 1 .. Len(grown[c]) : grown[c][i].resourceId % CountBuckets = c
    BY <1>6 DEF GoodTable
  <2>1. CASE c = b
    <3>1. \A i \in 1 .. Len(longer) : longer[i].resourceId % CountBuckets = b
      BY <1>3, <1>4, <1>8
    <3> QED
      BY <1>4, <1>6, <2>1, <3>1
  <2>2. CASE c # b
    BY <1>3, <1>6, <2>2
  <2> QED
    BY <2>1, <2>2
<1>10. ASSUME NEW k \in Nat
       PROVE  HoldsCount(grown[k % CountBuckets], k, more[k])
  <2>1. k % CountBuckets \in Table /\ HoldsCount(buckets[k % CountBuckets], k, tally[k])
    BY <1>2, <1>3
  <2>2. CASE k = r
    <3>1. HoldsCount(chain, r, tally[r]) /\ tally[r] \in Nat
      BY <1>3, <1>8, <2>1, <2>2
    <3>2. HoldsCount(longer, r, tally[r] + 1)
      BY <1>4, <3>1
    <3> QED
      BY <1>6, <1>7, <1>8, <2>2, <3>2
  <2>3. CASE k # r /\ k % CountBuckets = b
    <3>1. HoldsCount(longer, k, tally[k])
      BY <1>4, <2>1, <2>3
    <3> QED
      BY <1>6, <1>7, <2>3, <3>1
  <2>4. CASE k # r /\ k % CountBuckets # b
    BY <1>6, <1>7, <2>1, <2>4
  <2> QED
    BY <2>2, <2>3, <2>4
<1>11. Tallies(grown, more)
  BY <1>7, <1>9, <1>10 DEF Tallies
<1> QED
  BY <1>11 DEF grown, more, r

(* How often each resource was accessed in the range by the first n        *)
(* entries of a log.                                                       *)
InRangeUpTo(log, n, r, start, end) ==
    {i \in 1 .. n : log[i].resourceId = r /\ IsWithinRange(log[i].timestamp, start, end)}

TallyUpTo(log, n, start, end) ==
    [r \in Nat |-> Cardinality(InRangeUpTo(log, n, r, start, end))]

(* A log is finite, and so are its accesses.                               *)
LEMMA InRangeFinite ==
    ASSUME NEW log, NEW n \in Nat, NEW r, NEW start, NEW end
    PROVE  /\ IsFiniteSet(InRangeUpTo(log, n, r, start, end))
           /\ Cardinality(InRangeUpTo(log, n, r, start, end)) \in Nat
<1>1. IsFiniteSet(1 .. n) /\ InRangeUpTo(log, n, r, start, end) \subseteq 1 .. n
  BY FS_Interval DEF InRangeUpTo
<1>2. IsFiniteSet(InRangeUpTo(log, n, r, start, end))
  BY <1>1, FS_Subset
<1> QED
  BY <1>2, FS_CardinalityType

LEMMA TallyType ==
    ASSUME NEW log, NEW n \in Nat, NEW start, NEW end
    PROVE  TallyUpTo(log, n, start, end) \in [Nat -> Nat]
BY InRangeFinite DEF TallyUpTo

(* One entry more counts for its own resource, if it is in range. *)
LEMMA TallyStep ==
    ASSUME NEW log, NEW n \in Nat \ {0}, NEW start, NEW end, log[n].resourceId \in Nat
    PROVE  TallyUpTo(log, n, start, end) =
              IF IsWithinRange(log[n].timestamp, start, end)
              THEN [TallyUpTo(log, n - 1, start, end) EXCEPT ![log[n].resourceId] = @ + 1]
              ELSE TallyUpTo(log, n - 1, start, end)
<1> DEFINE Set(m, r) == InRangeUpTo(log, m, r, start, end)
           new == TallyUpTo(log, n, start, end)
           old == TallyUpTo(log, n - 1, start, end)
           within == IsWithinRange(log[n].timestamp, start, end)
<1>1. n - 1 \in Nat /\ \A i : i \in 1 .. n <=> i \in 1 .. n - 1 \/ i = n
  OBVIOUS
<1>2. n \notin 1 .. n - 1
  OBVIOUS
<1>3. \A r : /\ IsFiniteSet(Set(n - 1, r)) /\ n \notin Set(n - 1, r)
             /\ Set(n, r) = IF log[n].resourceId = r /\ within THEN Set(n - 1, r) \cup {n}
                            ELSE Set(n - 1, r)
  <2> SUFFICES ASSUME NEW r
               PROVE  /\ IsFiniteSet(Set(n - 1, r)) /\ n \notin Set(n - 1, r)
                      /\ Set(n, r) = IF log[n].resourceId = r /\ within THEN Set(n - 1, r) \cup {n}
                                     ELSE Set(n - 1, r)
    OBVIOUS
  <2>1. IsFiniteSet(Set(n - 1, r))
    BY <1>1, InRangeFinite
  <2> DEFINE In(i) == log[i].resourceId = r /\ IsWithinRange(log[i].timestamp, start, end)
  <2>2. Set(n, r) = {i \in 1 .. n : In(i)} /\ Set(n - 1, r) = {i \in 1 .. n - 1 : In(i)}
    BY DEF InRangeUpTo
  <2>3. In(n) <=> log[n].resourceId = r /\ within
    OBVIOUS
  <2> HIDE DEF In, Set, within
  <2>4. n \notin Set(n - 1, r)
    BY <1>2, <2>2
  <2>5. Set(n, r) = IF In(n) THEN Set(n - 1, r) \cup {n} ELSE Set(n - 1, r)
    BY <1>1, <2>2
  <2> QED
    BY <2>1, <2>3, <2>4, <2>5
<1>4. new = [r \in Nat |-> Cardinality(Set(n, r))] /\ old = [r \in Nat |-> Cardinality(Set(n - 1, r))]
  BY DEF TallyUpTo
<1> HIDE DEF Set, new, old, within
<1>5. \A r : Cardinality(Set(n, r)) = IF log[n].resourceId = r /\ within
                                      THEN Cardinality(Set(n - 1, r)) + 1
                                      ELSE Cardinality(Set(n - 1, r))
  <2> SUFFICES ASSUME NEW r
               PROVE  Cardinality(Set(n, r)) = IF log[n].resourceId = r /\ within
                                               THEN Cardinality(Set(n - 1, r)) + 1
                                               ELSE Cardinality(Set(n - 1, r))
    OBVIOUS
  <2>1. Cardinality(Set(n - 1, r) \cup {n}) = Cardinality(Set(n - 1, r)) + 1
    BY <1>3, FS_AddElement
  <2> QED
    BY <1>3, <2>1
<1>6. CASE within
  <2> DEFINE more == [old EXCEPT ![log[n].resourceId] = @ + 1]
  <2>1. more = [r \in Nat |-> IF r = log[n].resourceId THEN old[r] + 1 ELSE old[r]]
    BY <1>4
  <2>2. \A r \in Nat : new[r] = IF r = log[n].resourceId THEN old[r] + 1 ELSE old[r]
    BY <1>4, <1>5, <1>6
  <2>3. new = [r \in Nat |-> new[r]]
    BY <1>4
  <2> HIDE DEF more
  <2>4. new = more
    BY <2>1, <2>2, <2>3
  <2> QED
    BY <1>6, <2>4 DEF more, new, old, within
<1>7. CASE ~within
  <2>1. \A r \in Nat : new[r] = old[r]
    BY <1>4, <1>5, <1>7
  <2>2. new = old
    BY <1>4, <2>1
  <2> QED
    BY <1>7, <2>2 DEF new, old, within
<1> QED
  BY <1>6, <1>7

(* Only the entries themselves count. *)
LEMMA TallySame ==
    ASSUME NEW log, NEW other, NEW n \in Nat, NEW start, NEW end,
           \A i \in 1 .. n : log[i] = other[i]
    PROVE  TallyUpTo(log, n, start, end) = TallyUpTo(other, n, start, end)
<1>1. \A r : InRangeUpTo(log, n, r, start, end) = InRangeUpTo(other, n, r, start, end)
  BY DEF InRangeUpTo
<1> QED
  BY <1>1 DEF TallyUpTo

(* Entries out of range do not count. *)
LEMMA TallySkips ==
    ASSUME NEW log, NEW m \in Nat, NEW n \in Nat, m <= n, NEW start, NEW end,
           \A i \in m + 1 .. n : ~IsWithinRange(log[i].timestamp, start, end)
    PROVE  TallyUpTo(log, n, start, end) = TallyUpTo(log, m, start, end)
<1>1. \A i : i \in 1 .. n <=> i \in 1 .. m \/ i \in m + 1 .. n
  OBVIOUS
<1>2. \A r : InRangeUpTo(log, n, r, start, end) = InRangeUpTo(log, m, r, start, end)
  BY <1>1 DEF InRangeUpTo
<1> QED
  BY <1>2 DEF TallyUpTo

(* The tables that some tally has.                                         *)
TallyTables == {x \in [Table -> Seq(CountNode)] : \E t \in [Nat -> Nat] : Tallies(x, t)}

(* Counting leads from such a table to another.                            *)
LEMMA TablesClosed ==
    /\ \A x, t : Tallies(x, t) => x \in TallyTables
    /\ \A x \in TallyTables, e \in Entries : Counted(x, e) \in TallyTables
<1>1. \A x, t : Tallies(x, t) => x \in TallyTables
  BY DEF Tallies, GoodTable, TallyTables
<1>2. ASSUME NEW x \in TallyTables, NEW e \in Entries
      PROVE  Counted(x, e) \in TallyTables
  <2>1. PICK t : Tallies(x, t)
    BY DEF TallyTables
  <2>2. Tallies(Counted(x, e), [t EXCEPT ![e.resourceId] = @ + 1])
    BY <2>1, CountedTallies
  <2> QED
    BY <1>1, <2>2
<1> QED
  BY <1>1, <1>2

(* The inner loop of the ranking. *)
LEMMA CountedInSteps ==
    ASSUME NEW buckets \in TallyTables, NEW entries \in Seq(Entries), NEW start, NEW end
    PROVE  LET counted == CountedIn(buckets, entries, start, end)
           IN  /\ counted[0] = buckets
               /\ \A n \in 1 .. Len(entries) :
                     counted[n] = IF IsWithinRange(entries[n].timestamp, start, end)
                                  THEN Counted(counted[n - 1], entries[n]) ELSE counted[n - 1]
<1> DEFINE N == Len(entries)
           V == TallyTables
           Turn(n, x) == IF IsWithinRange(entries[n].timestamp, start, end)
                         THEN Counted(x, entries[n]) ELSE x
           step == [n \in 1 .. N |-> [x \in V |-> Turn(n, x)]]
           Loop(f) == f = [n \in 0 .. N |-> IF n = 0 THEN buckets ELSE Turn(n, f[n - 1])]
<1>1. N \in Nat /\ \A n \in 1 .. N : entries[n] \in Entries
  BY LenProperties, ElementOfSeq
<1>2. \A n \in 1 .. N, x \in V : Turn(n, x) \in V
  BY <1>1, TablesClosed
<1> HIDE DEF V
<1>3. step \in [1 .. N -> [V -> V]] /\ buckets \in V
  <2> HIDE DEF N, Turn
  <2> QED
    BY <1>2 DEF V
<1>4. PICK f : f \in LoopRuns(V, buckets, N, step)
  <2> HIDE DEF N, step
  <2> QED
    BY <1>1, <1>3, LoopExists
<1>5. f \in [0 .. N -> V] /\ f[0] = buckets /\ \A n \in 1 .. N : f[n] = step[n][f[n - 1]]
  BY <1>4 DEF LoopRuns
<1>6. \A n \in 1 .. N : n \in 0 .. N /\ n # 0 /\ n - 1 \in 0 .. N
  BY <1>1
<1>7. \A n \in 1 .. N : f[n] = Turn(n, f[n - 1])
  <2>1. \A n \in 1 .. N : f[n - 1] \in V
    BY <1>5, <1>6
  <2> HIDE DEF N, Turn
  <2> QED
    BY <1>5, <2>1
<1>8. Loop(f)
  <2>1. \A n \in 0 .. N : n # 0 => n \in 1 .. N
    BY <1>1
  <2> HIDE DEF N, Turn
  <2>2. \A n \in 0 .. N : f[n] = IF n = 0 THEN buckets ELSE Turn(n, f[n - 1])
    BY <1>5, <1>7, <2>1
  <2> QED
    BY <1>5, <2>2
<1> DEFINE counted == CountedIn(buckets, entries, start, end)
<1>9. Loop(counted)
  <2>1. counted = CHOOSE g : Loop(g)
    BY DEF CountedIn
  <2> HIDE DEF counted, Loop
  <2> QED
    BY <1>8, <2>1
<1> HIDE DEF counted
<1>10. counted[0] = buckets /\ \A n \in 1 .. N : counted[n] = Turn(n, counted[n - 1])
  <2>1. 0 \in 0 .. N
    BY <1>1
  <2> HIDE DEF N, Turn
  <2> QED
    BY <1>6, <1>9, <2>1
<1> QED
  BY <1>10 DEF counted

(* A chunk is counted: its entries come after the first m of the log.      *)
LEMMA ChunkIsCounted ==
    ASSUME NEW log, NEW m \in Nat, NEW entries \in Seq(Entries), NEW start, NEW end,
           \A n \in 1 .. Len(entries) : log[m + n] = entries[n],
           NEW buckets, Tallies(buckets, TallyUpTo(log, m, start, end))
    PROVE  Tallies(CountedIn(buckets, entries, start, end)[Len(entries)],
                   TallyUpTo(log, m + Len(entries), start, end))
<1> DEFINE N == Len(entries)
           counted == CountedIn(buckets, entries, start, end)
           tally(n) == TallyUpTo(log, n, start, end)
           T == {n \in 0 .. N : Tallies(counted[n], tally(m + n))}
<1>1. N \in Nat /\ \A n \in 1 .. N : entries[n] \in Entries
  BY LenProperties, ElementOfSeq
<1>2. /\ counted[0] = buckets
      /\ \A n \in 1 .. N :
            counted[n] = IF IsWithinRange(entries[n].timestamp, start, end)
                         THEN Counted(counted[n - 1], entries[n]) ELSE counted[n - 1]
  <2>1. buckets \in TallyTables
    BY TablesClosed
  <2> QED
    BY <2>1, CountedInSteps
<1> HIDE DEF counted
<1>3. 0 \in T
  <2>1. m + 0 = m /\ 0 \in 0 .. N
    BY <1>1
  <2> QED
    BY <1>2, <2>1
<1>4. ASSUME NEW n \in 1 .. N, n - 1 \in T
      PROVE  n \in T
  <2>1. n \in 0 .. N /\ m + n \in Nat \ {0} /\ (m + n) - 1 = m + (n - 1)
    BY <1>1
  <2>2. Tallies(counted[n - 1], tally(m + (n - 1)))
    BY <1>4
  <2> DEFINE e == entries[n]
             k == m + n
  <2>3. log[k] = e /\ e \in Entries /\ e.resourceId \in Nat
    <3>1. e \in Entries /\ log[k] = e
      BY <1>1
    <3> QED
      BY <3>1, SizesAssumption
  <2> HIDE DEF e
  <2>4. k \in Nat \ {0} /\ Tallies(counted[n - 1], TallyUpTo(log, k - 1, start, end))
    BY <2>1, <2>2
  <2> HIDE DEF k
  <2>5. TallyUpTo(log, k, start, end) =
            IF IsWithinRange(e.timestamp, start, end)
            THEN [TallyUpTo(log, k - 1, start, end) EXCEPT ![e.resourceId] = @ + 1]
            ELSE TallyUpTo(log, k - 1, start, end)
    BY <2>3, <2>4, TallyStep
  <2>6. counted[n] = IF IsWithinRange(e.timestamp, start, end)
                     THEN Counted(counted[n - 1], e) ELSE counted[n - 1]
    BY <1>2 DEF e
  <2>7. Tallies(counted[n], TallyUpTo(log, k, start, end))
    <3> DEFINE old == TallyUpTo(log, k - 1, start, end)
    <3>1. Tallies(counted[n - 1], old)
      BY <2>4
    <3> HIDE DEF old
    <3>2. Tallies(Counted(counted[n - 1], e), [old EXCEPT ![e.resourceId] = @ + 1])
      BY <2>3, <3>1, CountedTallies
    <3>3. CASE IsWithinRange(e.timestamp, start, end)
      BY <2>5, <2>6, <3>2, <3>3 DEF old
    <3>4. CASE ~IsWithinRange(e.timestamp, start, end)
      BY <2>5, <2>6, <3>1, <3>4 DEF old
    <3> QED
      BY <3>3, <3>4
  <2> QED
    BY <2>1, <2>7 DEF k
<1>5. N \in T
  <2>1. N \in 0 .. N
    BY <1>1
  <2> HIDE DEF T, N
  <2>2. \A n \in 0 .. N : n \in T
    BY <1>1, <1>3, <1>4, UpTo
  <2> QED
    BY <2>1, <2>2
<1> QED
  BY <1>5 DEF counted

(* The table before the scan.                                              *)
EmptyTable == [b \in Table |-> << >>]

LEMMA NothingTallied ==
    ASSUME NEW log, NEW start, NEW end
    PROVE  Tallies(EmptyTable, TallyUpTo(log, 0, start, end))
<1>1. \A r \in Nat : TallyUpTo(log, 0, start, end)[r] = 0
  <2>1. \A r : InRangeUpTo(log, 0, r, start, end) = {}
    BY DEF InRangeUpTo
  <2> QED
    BY <2>1, FS_EmptySet DEF TallyUpTo
<1>2. TallyUpTo(log, 0, start, end) \in [Nat -> Nat]
  BY TallyType
<1>3. << >> \in Seq(CountNode) /\ 1 .. Len(<< >>) = {}
  OBVIOUS
<1>4. GoodCounts(<< >>) /\ \A r : HoldsCount(<< >>, r, 0)
  BY <1>3 DEF GoodCounts, HoldsCount
<1>5. EmptyTable \in [Table -> Seq(CountNode)] /\ \A b \in Table : EmptyTable[b] = << >>
  BY <1>3 DEF EmptyTable
<1>6. GoodTable(EmptyTable)
  BY <1>3, <1>4, <1>5 DEF GoodTable
<1>7. \A r \in Nat : r % CountBuckets \in Table
  BY SizesAssumption, HomeInTable DEF Table
<1> QED
  BY <1>1, <1>2, <1>4, <1>5, <1>6, <1>7 DEF Tallies

(* What the outer loop does with a chunk. *)
ChunkTurn(x, chunk, start, end) ==
    IF MayHold(chunk, start, end)
    THEN CountedIn(x, chunk.entries, start, end)[Len(chunk.entries)] ELSE x

LEMMA ChunkTurnType ==
    ASSUME NEW x \in TallyTables, NEW chunk \in Chunk, NEW start, NEW end
    PROVE  ChunkTurn(x, chunk, start, end) \in TallyTables
<1> DEFINE entries == chunk.entries
           N == Len(entries)
           counted == CountedIn(x, entries, start, end)
<1>1. entries \in Seq(Entries)
  BY DEF Chunk
<1> HIDE DEF entries
<1>2. N \in Nat /\ \A n \in 1 .. N : entries[n] \in Entries
  BY <1>1, LenProperties, ElementOfSeq
<1>3. /\ counted[0] = x
      /\ \A n \in 1 .. N :
            counted[n] = IF IsWithinRange(entries[n].timestamp, start, end)
                         THEN Counted(counted[n - 1], entries[n]) ELSE counted[n - 1]
  BY <1>1, CountedInSteps
<1> HIDE DEF counted, N
<1>4. counted[0] \in TallyTables
      /\ \A n \in 1 .. N : counted[n - 1] \in TallyTables => counted[n] \in TallyTables
  BY <1>2, <1>3, TablesClosed
<1>5. \A n \in 0 .. N : counted[n] \in TallyTables
  BY <1>2, <1>4, LoopStays
<1>6. counted[N] \in TallyTables
  <2>1. N \in 0 .. N
    BY <1>2
  <2> QED
    BY <1>5, <2>1
<1> QED
  BY <1>6 DEF ChunkTurn, counted, N, entries

(* The outer loop of the ranking.                                          *)
LEMMA ScannedSteps ==
    ASSUME NEW stored \in Seq(Chunk), NEW start, NEW end
    PROVE  LET scanned == Scanned(stored, start, end)
           IN  /\ scanned[0] = EmptyTable
               /\ \A n \in 1 .. Len(stored) :
                     scanned[n] = ChunkTurn(scanned[n - 1], stored[n], start, end)
<1> DEFINE N == Len(stored)
           V == TallyTables
           Turn(n, x) == ChunkTurn(x, stored[n], start, end)
           step == [n \in 1 .. N |-> [x \in V |-> Turn(n, x)]]
           Loop(f) == f = [n \in 0 .. N |-> IF n = 0 THEN EmptyTable ELSE Turn(n, f[n - 1])]
<1>1. N \in Nat /\ \A n \in 1 .. N : stored[n] \in Chunk
  BY LenProperties, ElementOfSeq
<1>2. \A n \in 1 .. N, x \in V : Turn(n, x) \in V
  BY <1>1, ChunkTurnType
<1>3. EmptyTable \in V
  BY NothingTallied, TablesClosed
<1> HIDE DEF V
<1>4. step \in [1 .. N -> [V -> V]]
  <2> HIDE DEF N, Turn
  <2> QED
    BY <1>2
<1>5. PICK f : f \in LoopRuns(V, EmptyTable, N, step)
  <2> HIDE DEF N, step
  <2> QED
    BY <1>1, <1>3, <1>4, LoopExists
<1>6. f \in [0 .. N -> V] /\ f[0] = EmptyTable /\ \A n \in 1 .. N : f[n] = step[n][f[n - 1]]
  BY <1>5 DEF LoopRuns
<1>7. \A n \in 1 .. N : n \in 0 .. N /\ n # 0 /\ n - 1 \in 0 .. N
  BY <1>1
<1>8. \A n \in 1 .. N : f[n] = Turn(n, f[n - 1])
  <2>1. \A n \in 1 .. N : f[n - 1] \in V
    BY <1>6, <1>7
  <2> HIDE DEF N, Turn
  <2> QED
    BY <1>6, <2>1
<1>9. Loop(f)
  <2>1. \A n \in 0 .. N : n # 0 => n \in 1 .. N
    BY <1>1
  <2> HIDE DEF N, Turn
  <2>2. \A n \in 0 .. N : f[n] = IF n = 0 THEN EmptyTable ELSE Turn(n, f[n - 1])
    BY <1>6, <1>8, <2>1
  <2> QED
    BY <1>6, <2>2
<1> DEFINE scanned == Scanned(stored, start, end)
<1>10. Loop(scanned)
  <2>1. scanned = CHOOSE g : Loop(g)
    BY DEF Scanned, ChunkTurn, EmptyTable, Table
  <2> HIDE DEF scanned, Loop
  <2> QED
    BY <1>9, <2>1
<1> HIDE DEF scanned
<1>11. scanned[0] = EmptyTable /\ \A n \in 1 .. N : scanned[n] = Turn(n, scanned[n - 1])
  <2>1. 0 \in 0 .. N
    BY <1>1
  <2> HIDE DEF N, Turn
  <2> QED
    BY <1>7, <1>10, <2>1
<1> QED
  BY <1>11 DEF scanned

(* A chunk that is skipped has nothing in the range asked for. *)
LEMMA ChunkSkipped ==
    ASSUME NEW chunk \in Chunk, RangeExact(chunk), NEW start \in Int, NEW end \in Int,
           ~MayHold(chunk, start, end)
    PROVE  \A i \in 1 .. Len(chunk.entries) :
              ~IsWithinRange(chunk.entries[i].timestamp, start, end)
<1> SUFFICES ASSUME NEW i \in 1 .. Len(chunk.entries)
             PROVE  ~IsWithinRange(chunk.entries[i].timestamp, start, end)
  OBVIOUS
<1>1. chunk.entries \in Seq(Entries) /\ chunk.minTimestamp \in Nat /\ chunk.maxTimestamp \in Nat
  BY DEF Chunk
<1>2. chunk.entries[i] \in ToSet(chunk.entries)
  BY <1>1, LenProperties DEF ToSet
<1>3. chunk.entries[i].timestamp \in chunk.minTimestamp .. chunk.maxTimestamp
  BY <1>2 DEF RangeExact, TimesOf
<1> DEFINE t == chunk.entries[i].timestamp
           low == chunk.minTimestamp
           high == chunk.maxTimestamp
<1>4. t \in low .. high /\ low \in Nat /\ high \in Nat /\ ~(high >= start /\ low <= end)
  BY <1>1, <1>3 DEF MayHold
<1> HIDE DEF t, low, high
<1>5. ~(t >= start /\ t <= end)
  BY <1>4
<1> QED
  BY <1>5 DEF IsWithinRange, t

(* printTop10Resources(): although chunks are skipped, the table has the   *)
(* exact count of every resource.                                          *)
LEMMA ScannedTallies ==
    ASSUME NEW stored, GoodStore(stored), NEW start \in Int, NEW end \in Int
    PROVE  Tallies(Scanned(stored, start, end)[Len(stored)],
                   TallyUpTo(EntriesOf(stored), Len(EntriesOf(stored)), start, end))
<1> DEFINE N == Len(stored)
           scanned == Scanned(stored, start, end)
<1>1. /\ N \in Nat /\ stored \in Seq(Chunk)
      /\ \A n \in 1 .. N : /\ stored[n] \in Chunk /\ RangeExact(stored[n])
                           /\ stored[n].entries \in Seq(Entries)
  <2>1. N \in Nat /\ stored \in Seq(Chunk) /\ \A n \in 1 .. N : stored[n] \in Chunk /\ RangeExact(stored[n])
    BY LenProperties, ElementOfSeq DEF GoodStore
  <2>2. \A c \in Chunk : c.entries \in Seq(Entries)
    BY DEF Chunk
  <2> QED
    BY <2>1, <2>2
<1>2. PICK flat : Joined(stored, flat) /\ EntriesOf(stored) = flat[N]
  BY <1>1, EntriesAreJoined
<1>3. /\ flat \in [0 .. N -> Seq(Entries)] /\ flat[0] = << >>
      /\ \A n \in 1 .. N : flat[n] = flat[n - 1] \o stored[n].entries
  BY <1>2 DEF Joined
<1>4. /\ scanned[0] = EmptyTable
      /\ \A n \in 1 .. N : scanned[n] = ChunkTurn(scanned[n - 1], stored[n], start, end)
  BY <1>1, ScannedSteps
<1> DEFINE T == {n \in 0 .. N : Tallies(scanned[n], TallyUpTo(flat[n], Len(flat[n]), start, end))}
<1> HIDE DEF scanned
<1>5. 0 \in T
  <2>1. Len(flat[0]) = 0 /\ 0 \in 0 .. N
    BY <1>1, <1>3
  <2> QED
    BY <1>4, <2>1, NothingTallied
<1>6. ASSUME NEW n \in 1 .. N, n - 1 \in T
      PROVE  n \in T
  <2> DEFINE before == flat[n - 1]
             chunk == stored[n]
             entries == chunk.entries
             log == flat[n]
             m == Len(before)
             k == Len(entries)
             x == scanned[n - 1]
  <2>1. n \in 0 .. N /\ n - 1 \in 0 .. N
    BY <1>1
  <2>2. /\ before \in Seq(Entries) /\ entries \in Seq(Entries) /\ log = before \o entries
        /\ chunk \in Chunk /\ RangeExact(chunk)
        /\ Tallies(x, TallyUpTo(before, m, start, end))
        /\ scanned[n] = ChunkTurn(x, chunk, start, end)
    BY <1>1, <1>3, <1>4, <1>6, <2>1
  <2> HIDE DEF before, log, x, chunk
  <2>3. m \in Nat /\ k \in Nat
    BY <2>2, LenProperties
  <2>4. /\ Len(log) = m + k
        /\ \A i \in 1 .. m : log[i] = before[i]
        /\ \A i \in 1 .. k : log[m + i] = entries[i]
    <3>1. /\ Len(before \o entries) = m + k
          /\ \A i \in 1 .. m + k : (before \o entries)[i] = IF i <= m THEN before[i] ELSE entries[i - m]
      BY <2>2, ConcatProperties
    <3> HIDE DEF m, k
    <3>2. /\ \A i \in 1 .. m : i \in 1 .. m + k /\ i <= m
          /\ \A i \in 1 .. k : m + i \in 1 .. m + k /\ ~(m + i <= m) /\ (m + i) - m = i
      BY <2>3
    <3> QED
      BY <2>2, <3>1, <3>2
  <2> HIDE DEF m, k, entries
  <2>5. Tallies(x, TallyUpTo(log, m, start, end))
    <3>1. TallyUpTo(log, m, start, end) = TallyUpTo(before, m, start, end)
      BY <2>3, <2>4, TallySame
    <3> QED
      BY <2>2, <3>1
  <2>6. Tallies(scanned[n], TallyUpTo(log, m + k, start, end))
    <3>1. CASE MayHold(chunk, start, end)
      <4>1. scanned[n] = CountedIn(x, entries, start, end)[k]
        BY <2>2, <3>1 DEF ChunkTurn, entries, k
      <4>2. Tallies(CountedIn(x, entries, start, end)[Len(entries)],
                    TallyUpTo(log, m + Len(entries), start, end))
        <5>1. \A i \in 1 .. Len(entries) : log[m + i] = entries[i]
          BY <2>4 DEF k
        <5> QED
          BY <2>2, <2>3, <2>5, <5>1, ChunkIsCounted
      <4> QED
        BY <4>1, <4>2 DEF k
    <3>2. CASE ~MayHold(chunk, start, end)
      <4>1. scanned[n] = x
        BY <2>2, <3>2 DEF ChunkTurn
      <4>2. \A i \in 1 .. k : ~IsWithinRange(entries[i].timestamp, start, end)
        BY <2>2, <3>2, ChunkSkipped DEF entries, k
      <4>3. \A i \in m + 1 .. m + k : ~IsWithinRange(log[i].timestamp, start, end)
        <5>1. \A i \in m + 1 .. m + k : i - m \in 1 .. k /\ m + (i - m) = i
          BY <2>3
        <5> QED
          BY <2>4, <4>2, <5>1
      <4>4. m + k \in Nat /\ m <= m + k
        BY <2>3
      <4>5. TallyUpTo(log, m + k, start, end) = TallyUpTo(log, m, start, end)
        BY <2>3, <4>3, <4>4, TallySkips
      <4> QED
        BY <2>5, <4>1, <4>5
    <3> QED
      BY <3>1, <3>2
  <2> QED
    BY <2>1, <2>4, <2>6 DEF log
<1>7. N \in T
  <2>1. N \in 0 .. N
    BY <1>1
  <2> HIDE DEF T, N
  <2>2. \A n \in 0 .. N : n \in T
    BY <1>1, <1>5, <1>6, UpTo
  <2> QED
    BY <2>1, <2>2
<1> QED
  BY <1>2, <1>7 DEF scanned
-----------------------------------------------------------------------------
(* The ranking                                                             *)

(* The best of a set of nodes, in the order of their counts; a place that  *)
(* is free counts nothing.                                                 *)
TopOf(top, S) ==
    /\ top \in [1 .. TopSize -> CountNode]
    /\ \A i, j \in 1 .. TopSize : i <= j => top[i].count >= top[j].count
    /\ \A i \in 1 .. TopSize : top[i].count # 0 => top[i] \in S
    /\ \A i, j \in 1 .. TopSize : top[i].count # 0 /\ top[i] = top[j] => i = j
    /\ \A n \in S : \/ \E i \in 1 .. TopSize : top[i] = n
                    \/ \A i \in 1 .. TopSize : top[i].count >= n.count

(* The ten places before the first node.                                   *)
FreePlaces == [p \in 1 .. TopSize |-> [resourceId |-> 0, count |-> 0]]

LEMMA FreePlacesAreTop == TopOf(FreePlaces, {})
<1> DEFINE node == [resourceId |-> 0, count |-> 0]
<1>1. node \in CountNode /\ node.count = 0
  BY DEF CountNode
<1>2. FreePlaces = [p \in 1 .. TopSize |-> node]
  BY DEF FreePlaces
<1> HIDE DEF node
<1>3. FreePlaces \in [1 .. TopSize -> CountNode] /\ \A p \in 1 .. TopSize : FreePlaces[p].count = 0
  BY <1>1, <1>2
<1> QED
  BY <1>3 DEF TopOf

(* A place is shifted if the node beats it or one before it.               *)
Shifting(top, node, p) == \E q \in 1 .. p : node.count > top[q].count

(* insertIntoTop10() keeps the best of the nodes seen, one more included.  *)
LEMMA InsertedTop ==
    ASSUME NEW top, NEW S \in SUBSET CountNode, TopOf(top, S), NEW node \in CountNode, node \notin S, node.count # 0
    PROVE  TopOf(InsertIntoTop10(top, node), S \cup {node})
<1> DEFINE N == TopSize
           new == InsertIntoTop10(top, node)
           Shifts(p) == Shifting(top, node, p)
<1>1. N \in Nat \ {0}
  BY SizesAssumption
<1>2. /\ \A i \in 1 .. N : top[i] \in CountNode /\ top[i].count \in Nat
      /\ node.count \in Nat
  <2>1. \A n \in CountNode : n.count \in Nat
    BY DEF CountNode
  <2> QED
    BY <2>1 DEF TopOf
<1>3. /\ \A i, j \in 1 .. N : i <= j => top[i].count >= top[j].count
      /\ \A i \in 1 .. N : top[i].count # 0 => top[i] \in S
      /\ \A i, j \in 1 .. N : top[i].count # 0 /\ top[i] = top[j] => i = j
      /\ \A n \in S : \/ \E i \in 1 .. N : top[i] = n
                      \/ \A i \in 1 .. N : top[i].count >= n.count
  BY DEF TopOf
<1>4. new = [p \in 1 .. N |-> IF ~Shifts(p) THEN top[p]
                              ELSE IF Shifts(p - 1) THEN top[p - 1] ELSE node]
  BY DEF InsertIntoTop10, Shifting
<1> HIDE DEF N, new
<1>5. /\ ~Shifts(0)
      /\ \A p \in 1 .. N : Shifts(p) <=> node.count > top[p].count
  <2>1. ~Shifts(0)
    BY DEF Shifting
  <2>2. ASSUME NEW p \in 1 .. N, node.count > top[p].count
        PROVE  Shifts(p)
    <3>1. p \in 1 .. p
      BY <1>1
    <3> QED
      BY <2>2, <3>1 DEF Shifting
  <2>3. ASSUME NEW p \in 1 .. N, Shifts(p)
        PROVE  node.count > top[p].count
    <3>1. PICK q \in 1 .. p : node.count > top[q].count
      BY <2>3 DEF Shifting
    <3>2. q \in 1 .. N /\ q <= p
      BY <1>1
    <3>3. top[q].count >= top[p].count
      BY <1>3, <3>2
    <3> QED
      BY <1>2, <3>1, <3>2, <3>3
  <2> QED
    BY <2>1, <2>2, <2>3
<1> HIDE DEF Shifts
<1>6. \A p \in 1 .. N : p - 1 = 0 \/ p - 1 \in 1 .. N
  BY <1>1
(* What stands at a place. *)
<1>7. \A p \in 1 .. N :
          \/ ~Shifts(p) /\ new[p] = top[p]
          \/ Shifts(p) /\ p - 1 \in 1 .. N /\ Shifts(p - 1) /\ new[p] = top[p - 1]
          \/ Shifts(p) /\ ~Shifts(p - 1) /\ new[p] = node
  BY <1>4, <1>5, <1>6
<1>8. \A p, q \in 1 .. N : p <= q /\ Shifts(p) => Shifts(q)
  <2> SUFFICES ASSUME NEW p \in 1 .. N, NEW q \in 1 .. N, p <= q, Shifts(p)
               PROVE  Shifts(q)
    OBVIOUS
  <2>1. node.count > top[p].count /\ top[p].count >= top[q].count
    BY <1>3, <1>5
  <2>2. node.count > top[q].count
    BY <1>2, <2>1
  <2> QED
    BY <1>5, <2>2
<1>9. new \in [1 .. N -> CountNode]
  <2>1. \A p \in 1 .. N : new[p] \in CountNode
    BY <1>2, <1>7
  <2> QED
    BY <1>4, <2>1
<1>10. \A p \in 1 .. N : new[p].count \in Nat
  BY <1>2, <1>7
<1>11. ASSUME NEW i \in 1 .. N, NEW j \in 1 .. N, i < j
       PROVE  new[i].count >= new[j].count
  <2>1. CASE ~Shifts(i)
    <3>1. new[i] = top[i] /\ top[i].count >= node.count
      BY <1>2, <1>5, <1>7, <2>1
    <3>2. CASE new[j] = top[j]
      BY <1>3, <1>11, <3>1, <3>2
    <3>3. CASE new[j] = top[j - 1] /\ j - 1 \in 1 .. N
      <4>1. i <= j - 1
        BY <1>11
      <4>2. top[i].count >= top[j - 1].count
        BY <1>3, <3>3, <4>1
      <4> QED
        BY <3>1, <3>3, <4>2
    <3>4. CASE new[j] = node
      BY <3>1, <3>4
    <3> QED
      BY <1>7, <3>2, <3>3, <3>4
  <2>2. CASE Shifts(i)
    <3>1. i <= j - 1 /\ j - 1 \in 1 .. N /\ i <= j
      BY <1>1, <1>11
    <3>2. Shifts(j) /\ Shifts(j - 1)
      BY <1>8, <2>2, <3>1
    <3>3. new[j] = top[j - 1]
      BY <1>7, <3>2
    <3>4. CASE new[i] = top[i - 1] /\ i - 1 \in 1 .. N
      <4>1. i - 1 <= j - 1
        BY <1>11
      <4>2. top[i - 1].count >= top[j - 1].count
        BY <1>3, <3>1, <3>4, <4>1
      <4> QED
        BY <3>3, <3>4, <4>2
    <3>5. CASE new[i] = node
      <4>1. node.count > top[j - 1].count
        BY <1>5, <3>1, <3>2
      <4>2. node.count >= top[j - 1].count
        BY <1>2, <3>1, <4>1
      <4> QED
        BY <3>3, <3>5, <4>2
    <3> QED
      BY <1>7, <2>2, <3>4, <3>5
  <2> QED
    BY <2>1, <2>2
<1>12. \A i, j \in 1 .. N : i <= j => new[i].count >= new[j].count
  <2>1. \A i, j \in 1 .. N : i <= j => i < j \/ i = j
    BY <1>1
  <2> QED
    BY <1>10, <1>11, <2>1
<1>13. \A i \in 1 .. N : new[i].count # 0 => new[i] \in S \cup {node}
  BY <1>3, <1>7
<1>14. ASSUME NEW i \in 1 .. N, NEW j \in 1 .. N, i < j, new[i].count # 0
       PROVE  new[i] # new[j]
  <2>1. \A p \in 1 .. N : top[p].count # 0 => top[p] # node
    BY <1>3
  <2>2. CASE ~Shifts(i)
    <3>1. new[i] = top[i] /\ top[i].count # 0
      BY <1>7, <1>14, <2>2
    <3>2. CASE new[j] = top[j]
      BY <1>1, <1>3, <1>14, <3>1, <3>2
    <3>3. CASE new[j] = top[j - 1] /\ j - 1 \in 1 .. N /\ Shifts(j - 1)
      <4>1. i # j - 1
        BY <2>2, <3>3
      <4> QED
        BY <1>3, <3>1, <3>3, <4>1
    <3>4. CASE new[j] = node
      BY <2>1, <3>1, <3>4
    <3> QED
      BY <1>7, <3>2, <3>3, <3>4
  <2>3. CASE Shifts(i)
    <3>1. i <= j - 1 /\ j - 1 \in 1 .. N /\ i <= j /\ i - 1 # j - 1
      BY <1>1, <1>14
    <3>2. Shifts(j) /\ Shifts(j - 1)
      BY <1>8, <2>3, <3>1
    <3>3. new[j] = top[j - 1]
      BY <1>7, <3>2
    <3>4. CASE new[i] = top[i - 1] /\ i - 1 \in 1 .. N
      <4>1. top[i - 1].count # 0
        BY <1>14, <3>4
      <4>2. top[i - 1] # top[j - 1]
        BY <1>3, <3>1, <3>4, <4>1
      <4> QED
        BY <3>3, <3>4, <4>2
    <3>5. CASE new[i] = node
      <4>1. node.count > top[j - 1].count
        BY <1>5, <3>1, <3>2
      <4>2. node # top[j - 1]
        BY <1>2, <3>1, <4>1
      <4> QED
        BY <3>3, <3>5, <4>2
    <3> QED
      BY <1>7, <2>3, <3>4, <3>5
  <2> QED
    BY <2>2, <2>3
<1>15. \A i, j \in 1 .. N : new[i].count # 0 /\ new[i] = new[j] => i = j
  <2>1. \A i, j \in 1 .. N : i < j \/ i = j \/ j < i
    BY <1>1
  <2>2. \A i, j \in 1 .. N : new[i].count # 0 /\ new[i] = new[j] => new[j].count # 0
    OBVIOUS
  <2> QED
    BY <1>14, <2>1, <2>2
(* A place never gets worse. *)
<1>16. \A p \in 1 .. N : new[p].count >= top[p].count
  <2> SUFFICES ASSUME NEW p \in 1 .. N
               PROVE  new[p].count >= top[p].count
    OBVIOUS
  <2>1. CASE new[p] = top[p]
    BY <1>2, <2>1
  <2>2. CASE new[p] = top[p - 1] /\ p - 1 \in 1 .. N
    <3>1. p - 1 <= p
      BY <1>1
    <3> QED
      BY <1>3, <2>2, <3>1
  <2>3. CASE new[p] = node /\ Shifts(p)
    <3>1. node.count > top[p].count
      BY <1>5, <2>3
    <3>2. node.count >= top[p].count
      BY <1>2, <3>1
    <3> QED
      BY <2>3, <3>2
  <2> QED
    BY <1>7, <2>1, <2>2, <2>3
<1>17. ASSUME NEW n \in S
       PROVE  \/ \E i \in 1 .. N : new[i] = n
              \/ \A i \in 1 .. N : new[i].count >= n.count
  <2>1. CASE \A i \in 1 .. N : top[i].count >= n.count
    <3>1. n.count \in Nat
      BY DEF CountNode
    <3>2. \A i \in 1 .. N : new[i].count >= n.count
      BY <1>2, <1>10, <1>16, <2>1, <3>1
    <3> QED
      BY <3>2
  <2>2. CASE \E i \in 1 .. N : top[i] = n
    <3>1. PICK i \in 1 .. N : top[i] = n
      BY <2>2
    <3>2. CASE ~Shifts(i)
      BY <1>7, <3>1, <3>2
    <3>3. CASE Shifts(i) /\ i # N
      <4>1. i + 1 \in 1 .. N /\ (i + 1) - 1 = i /\ i <= i + 1
        BY <1>1, <3>3
      <4>2. Shifts(i + 1)
        BY <1>8, <3>3, <4>1
      <4>3. new[i + 1] = top[i]
        BY <1>7, <3>3, <4>1, <4>2
      <4> QED
        BY <3>1, <4>1, <4>3
    <3>4. CASE i = N
      <4>1. \A p \in 1 .. N : p <= N
        BY <1>1
      <4>2. \A p \in 1 .. N : top[p].count >= n.count
        BY <1>3, <3>1, <3>4, <4>1
      <4> QED
        BY <2>1, <4>2
    <3> QED
      BY <3>2, <3>3, <3>4
  <2> QED
    BY <1>3, <2>1, <2>2
<1>18. \/ \E i \in 1 .. N : new[i] = node
       \/ \A i \in 1 .. N : new[i].count >= node.count
  <2> DEFINE T == {p \in 1 .. N : Shifts(p)}
  <2>1. CASE T = {}
    <3>1. \A i \in 1 .. N : new[i] = top[i] /\ top[i].count >= node.count
      BY <1>2, <1>5, <1>7, <2>1
    <3> QED
      BY <3>1
  <2>2. CASE T # {}
    <3>1. PICK p \in T : \A q \in T : p <= q
      <4>1. T \in SUBSET Nat
        BY <1>1
      <4> HIDE DEF T
      <4> QED
        BY <2>2, <4>1, LeastExists
    <3>2. p \in 1 .. N /\ Shifts(p)
      OBVIOUS
    <3>3. ~Shifts(p - 1)
      <4>1. CASE p - 1 = 0
        BY <1>5, <4>1
      <4>2. CASE p - 1 \in 1 .. N
        <5>1. ~(p <= p - 1)
          BY <3>2
        <5>2. p - 1 \notin T
          <6> HIDE DEF T
          <6> QED
            BY <3>1, <5>1
        <5> QED
          BY <4>2, <5>2
      <4> QED
        BY <1>6, <3>2, <4>1, <4>2
    <3> QED
      BY <1>7, <3>2, <3>3
  <2> QED
    BY <2>1, <2>2
<1>19. \A n \in S \cup {node} : \/ \E i \in 1 .. N : new[i] = n
                                \/ \A i \in 1 .. N : new[i].count >= n.count
  BY <1>17, <1>18
<1> QED
  BY <1>9, <1>12, <1>13, <1>15, <1>19 DEF TopOf, N, new

(* What the ten places can hold.                                           *)
Tops == [1 .. TopSize -> CountNode]

(* insertIntoTop10() fills places with nodes.                              *)
LEMMA InsertType ==
    ASSUME NEW top \in Tops, NEW node \in CountNode
    PROVE  InsertIntoTop10(top, node) \in Tops
<1> DEFINE Shifts(p) == Shifting(top, node, p)
           new == InsertIntoTop10(top, node)
<1>1. TopSize \in Nat \ {0}
  BY SizesAssumption
<1>2. new = [p \in 1 .. TopSize |-> IF ~Shifts(p) THEN top[p]
                                    ELSE IF Shifts(p - 1) THEN top[p - 1] ELSE node]
  BY DEF InsertIntoTop10, Shifting
<1>3. ~Shifts(0)
  BY DEF Shifting
<1> HIDE DEF Shifts, new
<1>4. \A p \in 1 .. TopSize : top[p] \in CountNode /\ (p - 1 = 0 \/ top[p - 1] \in CountNode)
  <2>1. \A p \in 1 .. TopSize : p - 1 = 0 \/ p - 1 \in 1 .. TopSize
    BY <1>1
  <2> QED
    BY <2>1 DEF Tops
<1>5. \A p \in 1 .. TopSize :
        (IF ~Shifts(p) THEN top[p] ELSE IF Shifts(p - 1) THEN top[p - 1] ELSE node) \in CountNode
  BY <1>3, <1>4
<1>6. new \in Tops
  BY <1>2, <1>5 DEF Tops
<1> QED
  BY <1>6 DEF new

(* The loop over the nodes of a chain. *)
LEMMA RankedChainSteps ==
    ASSUME NEW top \in Tops, NEW chain \in Seq(CountNode)
    PROVE  LET ranked == RankedChain(top, chain)
           IN  /\ ranked[0] = top
               /\ \A n \in 1 .. Len(chain) : ranked[n] = InsertIntoTop10(ranked[n - 1], chain[n])
<1> DEFINE N == Len(chain)
           V == Tops
           Turn(n, x) == InsertIntoTop10(x, chain[n])
           step == [n \in 1 .. N |-> [x \in V |-> Turn(n, x)]]
           Loop(f) == f = [n \in 0 .. N |-> IF n = 0 THEN top ELSE Turn(n, f[n - 1])]
<1>1. N \in Nat /\ \A n \in 1 .. N : chain[n] \in CountNode
  BY LenProperties, ElementOfSeq
<1>2. \A n \in 1 .. N, x \in V : Turn(n, x) \in V
  BY <1>1, InsertType
<1> HIDE DEF V
<1>3. step \in [1 .. N -> [V -> V]] /\ top \in V
  <2> HIDE DEF N, Turn
  <2> QED
    BY <1>2 DEF V
<1>4. PICK f : f \in LoopRuns(V, top, N, step)
  <2> HIDE DEF N, step
  <2> QED
    BY <1>1, <1>3, LoopExists
<1>5. f \in [0 .. N -> V] /\ f[0] = top /\ \A n \in 1 .. N : f[n] = step[n][f[n - 1]]
  BY <1>4 DEF LoopRuns
<1>6. \A n \in 1 .. N : n \in 0 .. N /\ n # 0 /\ n - 1 \in 0 .. N
  BY <1>1
<1>7. \A n \in 1 .. N : f[n] = Turn(n, f[n - 1])
  <2>1. \A n \in 1 .. N : f[n - 1] \in V
    BY <1>5, <1>6
  <2> HIDE DEF N, Turn
  <2> QED
    BY <1>5, <2>1
<1>8. Loop(f)
  <2>1. \A n \in 0 .. N : n # 0 => n \in 1 .. N
    BY <1>1
  <2> HIDE DEF N, Turn
  <2>2. \A n \in 0 .. N : f[n] = IF n = 0 THEN top ELSE Turn(n, f[n - 1])
    BY <1>5, <1>7, <2>1
  <2> QED
    BY <1>5, <2>2
<1> DEFINE ranked == RankedChain(top, chain)
<1>9. Loop(ranked)
  <2>1. ranked = CHOOSE g : Loop(g)
    BY DEF RankedChain
  <2> HIDE DEF ranked, Loop
  <2> QED
    BY <1>8, <2>1
<1> HIDE DEF ranked
<1>10. ranked[0] = top /\ \A n \in 1 .. N : ranked[n] = Turn(n, ranked[n - 1])
  <2>1. 0 \in 0 .. N
    BY <1>1
  <2> HIDE DEF N, Turn
  <2> QED
    BY <1>6, <1>9, <2>1
<1> QED
  BY <1>10 DEF ranked

(* What the loop over the buckets does with a chain.                       *)
ChainTurn(x, chain) == RankedChain(x, chain)[Len(chain)]

LEMMA ChainTurnType ==
    ASSUME NEW x \in Tops, NEW chain \in Seq(CountNode)
    PROVE  ChainTurn(x, chain) \in Tops
<1> DEFINE N == Len(chain)
           ranked == RankedChain(x, chain)
<1>1. N \in Nat /\ \A n \in 1 .. N : chain[n] \in CountNode
  BY LenProperties, ElementOfSeq
<1>2. ranked[0] = x /\ \A n \in 1 .. N : ranked[n] = InsertIntoTop10(ranked[n - 1], chain[n])
  BY RankedChainSteps
<1> HIDE DEF ranked, N
<1>3. ranked[0] \in Tops
      /\ \A n \in 1 .. N : ranked[n - 1] \in Tops => ranked[n] \in Tops
  BY <1>1, <1>2, InsertType
<1>4. \A n \in 0 .. N : ranked[n] \in Tops
  BY <1>1, <1>3, LoopStays
<1>5. N \in 0 .. N
  BY <1>1
<1> QED
  BY <1>4, <1>5 DEF ChainTurn, ranked, N

(* The first m nodes of a chain.                                           *)
ChainNodes(chain, m) == {chain[i] : i \in 1 .. m}

(* The nodes of a chain are ranked after those of other chains. *)
LEMMA ChainIsRanked ==
    ASSUME NEW top, NEW S \in SUBSET CountNode, TopOf(top, S),
           NEW chain, GoodCounts(chain), \A i \in 1 .. Len(chain) : chain[i] \notin S
    PROVE  TopOf(ChainTurn(top, chain), S \cup ChainNodes(chain, Len(chain)))
<1> DEFINE N == Len(chain)
           ranked == RankedChain(top, chain)
           T == {n \in 0 .. N : TopOf(ranked[n], S \cup ChainNodes(chain, n))}
<1>1. /\ chain \in Seq(CountNode) /\ N \in Nat
      /\ \A i \in 1 .. N : chain[i] \in CountNode /\ chain[i].count # 0
  BY CountFacts DEF GoodCounts
<1>2. ranked[0] = top /\ \A n \in 1 .. N : ranked[n] = InsertIntoTop10(ranked[n - 1], chain[n])
  BY <1>1, RankedChainSteps DEF TopOf, Tops
<1> HIDE DEF ranked
<1>3. 0 \in T
  <2>1. ChainNodes(chain, 0) = {} /\ 0 \in 0 .. N
    BY <1>1 DEF ChainNodes
  <2> QED
    BY <1>2, <2>1
<1>4. ASSUME NEW n \in 1 .. N, n - 1 \in T
      PROVE  n \in T
  <2> DEFINE before == S \cup ChainNodes(chain, n - 1)
             node == chain[n]
  <2>1. n \in 0 .. N /\ \A i : i \in 1 .. n <=> i \in 1 .. n - 1 \/ i = n
    BY <1>1
  <2>2. \A i \in 1 .. n - 1 : i \in 1 .. N /\ i # n
    BY <1>1
  <2>3. node \in CountNode /\ node.count # 0
    BY <1>1
  <2>4. node \notin before
    <3>1. \A i \in 1 .. n - 1 : chain[i] # node
      BY <2>2 DEF GoodCounts
    <3> QED
      BY <3>1 DEF ChainNodes
  <2>5. before \in SUBSET CountNode
    BY <1>1, <2>2 DEF ChainNodes
  <2>6. TopOf(ranked[n - 1], before)
    BY <1>4
  <2>7. S \cup ChainNodes(chain, n) = before \cup {node}
    BY <2>1 DEF ChainNodes
  <2>8. ranked[n] = InsertIntoTop10(ranked[n - 1], node)
    BY <1>2
  <2> HIDE DEF before, node
  <2>9. TopOf(ranked[n], before \cup {node})
    BY <2>3, <2>4, <2>5, <2>6, <2>8, InsertedTop
  <2> QED
    BY <2>1, <2>7, <2>9
<1>5. N \in T
  <2>1. N \in 0 .. N
    BY <1>1
  <2> HIDE DEF T, N
  <2>2. \A n \in 0 .. N : n \in T
    BY <1>1, <1>3, <1>4, UpTo
  <2> QED
    BY <2>1, <2>2
<1> QED
  BY <1>5 DEF ranked, ChainTurn

(* The loop over the chains. *)
LEMMA RankedSteps ==
    ASSUME NEW buckets \in [Table -> Seq(CountNode)]
    PROVE  LET ranked == Ranked(buckets)
           IN  /\ ranked[0] = FreePlaces
               /\ \A b \in 1 .. CountBuckets : ranked[b] = ChainTurn(ranked[b - 1], buckets[b - 1])
<1> DEFINE N == CountBuckets
           V == Tops
           Turn(n, x) == ChainTurn(x, buckets[n - 1])
           step == [n \in 1 .. N |-> [x \in V |-> Turn(n, x)]]
           Loop(f) == f = [n \in 0 .. N |-> IF n = 0 THEN FreePlaces ELSE Turn(n, f[n - 1])]
<1>1. N \in Nat /\ \A n \in 1 .. N : n - 1 \in Table
  BY SizesAssumption DEF Table
<1>2. \A n \in 1 .. N, x \in V : Turn(n, x) \in V
  BY <1>1, ChainTurnType
<1>3. FreePlaces \in V
  BY FreePlacesAreTop DEF TopOf, Tops
<1> HIDE DEF V
<1>4. step \in [1 .. N -> [V -> V]]
  <2> HIDE DEF N, Turn
  <2> QED
    BY <1>2
<1>5. PICK f : f \in LoopRuns(V, FreePlaces, N, step)
  <2> HIDE DEF N, step
  <2> QED
    BY <1>1, <1>3, <1>4, LoopExists
<1>6. f \in [0 .. N -> V] /\ f[0] = FreePlaces /\ \A n \in 1 .. N : f[n] = step[n][f[n - 1]]
  BY <1>5 DEF LoopRuns
<1>7. \A n \in 1 .. N : n \in 0 .. N /\ n # 0 /\ n - 1 \in 0 .. N
  BY <1>1
<1>8. \A n \in 1 .. N : f[n] = Turn(n, f[n - 1])
  <2>1. \A n \in 1 .. N : f[n - 1] \in V
    BY <1>6, <1>7
  <2> HIDE DEF N, Turn
  <2> QED
    BY <1>6, <2>1
<1>9. Loop(f)
  <2>1. \A n \in 0 .. N : n # 0 => n \in 1 .. N
    BY <1>1
  <2> HIDE DEF N, Turn
  <2>2. \A n \in 0 .. N : f[n] = IF n = 0 THEN FreePlaces ELSE Turn(n, f[n - 1])
    BY <1>6, <1>8, <2>1
  <2> QED
    BY <1>6, <2>2
<1> DEFINE ranked == Ranked(buckets)
<1>10. Loop(ranked)
  <2>1. ranked = CHOOSE g : Loop(g)
    BY DEF Ranked, ChainTurn, FreePlaces
  <2> HIDE DEF ranked, Loop
  <2> QED
    BY <1>9, <2>1
<1> HIDE DEF ranked
<1>11. ranked[0] = FreePlaces /\ \A n \in 1 .. N : ranked[n] = Turn(n, ranked[n - 1])
  <2>1. 0 \in 0 .. N
    BY <1>1
  <2> HIDE DEF N, Turn
  <2> QED
    BY <1>7, <1>10, <2>1
<1> QED
  BY <1>11 DEF ranked

(* The nodes of the first m chains.                                        *)
TableNodes(buckets, m) ==
    UNION {ChainNodes(buckets[b], Len(buckets[b])) : b \in 0 .. m - 1}

(* All nodes of the table are ranked, each once: a resource has one        *)
(* bucket.                                                                 *)
LEMMA TableIsRanked ==
    ASSUME NEW buckets, GoodTable(buckets)
    PROVE  TopOf(Ranked(buckets)[CountBuckets], TableNodes(buckets, CountBuckets))
<1> DEFINE N == CountBuckets
           ranked == Ranked(buckets)
           T == {n \in 0 .. N : TopOf(ranked[n], TableNodes(buckets, n))}
<1>1. N \in Nat /\ \A n \in 1 .. N : n - 1 \in Table
  BY SizesAssumption DEF Table
<1>2. /\ buckets \in [Table -> Seq(CountNode)]
      /\ \A b \in Table : GoodCounts(buckets[b])
      /\ \A b \in Table : \A i \in 1 .. Len(buckets[b]) :
            buckets[b][i] \in CountNode /\ buckets[b][i].resourceId % CountBuckets = b
  BY CountFacts DEF GoodTable
<1>3. ranked[0] = FreePlaces
      /\ \A n \in 1 .. N : ranked[n] = ChainTurn(ranked[n - 1], buckets[n - 1])
  BY <1>2, RankedSteps
<1> HIDE DEF ranked
<1>4. 0 \in T
  <2>1. TableNodes(buckets, 0) = {} /\ 0 \in 0 .. N
    BY <1>1 DEF TableNodes
  <2> QED
    BY <1>3, <2>1, FreePlacesAreTop
<1>5. ASSUME NEW n \in 1 .. N, n - 1 \in T
      PROVE  n \in T
  <2> DEFINE b == n - 1
             before == TableNodes(buckets, b)
             chain == buckets[b]
  <2>1. b \in Table /\ n \in 0 .. N /\ \A c : c \in 0 .. n - 1 <=> c \in 0 .. b - 1 \/ c = b
    BY <1>1
  <2>2. \A c \in 0 .. b - 1 : c \in Table /\ c # b
    BY <1>1 DEF Table
  <2>3. TopOf(ranked[b], before)
    BY <1>5
  <2>4. ranked[n] = ChainTurn(ranked[b], chain)
    BY <1>3
  <2> HIDE DEF b
  <2>5. \A m \in before : m \in CountNode /\ m.resourceId % CountBuckets # b
    <3> SUFFICES ASSUME NEW m \in before
                 PROVE  m \in CountNode /\ m.resourceId % CountBuckets # b
      OBVIOUS
    <3>1. PICK c \in 0 .. b - 1 : m \in ChainNodes(buckets[c], Len(buckets[c]))
      BY DEF TableNodes
    <3>2. PICK i \in 1 .. Len(buckets[c]) : m = buckets[c][i]
      BY <3>1 DEF ChainNodes
    <3> QED
      BY <1>2, <2>2, <3>2
  <2>6. GoodCounts(chain) /\ \A i \in 1 .. Len(chain) : chain[i] \notin before
    BY <1>2, <2>1, <2>5
  <2>7. TableNodes(buckets, n) = before \cup ChainNodes(chain, Len(chain))
    BY <2>1 DEF TableNodes
  <2> HIDE DEF before, chain
  <2>8. TopOf(ranked[n], before \cup ChainNodes(chain, Len(chain)))
    BY <2>3, <2>4, <2>5, <2>6, ChainIsRanked
  <2> QED
    BY <2>1, <2>7, <2>8
<1>6. N \in T
  <2>1. N \in 0 .. N
    BY <1>1
  <2> HIDE DEF T, N
  <2>2. \A n \in 0 .. N : n \in T
    BY <1>1, <1>4, <1>5, UpTo
  <2> QED
    BY <2>1, <2>2
<1> QED
  BY <1>6 DEF ranked

(* The nodes a tally asks for.                                             *)
NodesOf(tally) == {[resourceId |-> r, count |-> tally[r]] : r \in {x \in Nat : tally[x] > 0}}

(* The nodes of a count table are those of the tally. *)
LEMMA TableHolds ==
    ASSUME NEW buckets, NEW tally, Tallies(buckets, tally)
    PROVE  TableNodes(buckets, CountBuckets) = NodesOf(tally)
<1>1. /\ tally \in [Nat -> Nat]
      /\ \A b \in Table : /\ GoodCounts(buckets[b])
                          /\ \A i \in 1 .. Len(buckets[b]) : buckets[b][i].resourceId % CountBuckets = b
      /\ \A r \in Nat : HoldsCount(buckets[r % CountBuckets], r, tally[r])
  BY DEF Tallies, GoodTable
<1>2. CountBuckets \in Nat \ {0} /\ \A k \in Nat : k % CountBuckets \in Table
  BY SizesAssumption, HomeInTable DEF Table
<1>3. \A n \in CountNode : n = [resourceId |-> n.resourceId, count |-> n.count]
                           /\ n.resourceId \in Nat /\ n.count \in Nat
  BY DEF CountNode
<1>4. ASSUME NEW n \in TableNodes(buckets, CountBuckets)
      PROVE  n \in NodesOf(tally)
  <2>1. PICK b \in Table : n \in ChainNodes(buckets[b], Len(buckets[b]))
    BY DEF TableNodes, Table
  <2> DEFINE chain == buckets[b]
             r == n.resourceId
  <2>2. PICK i \in 1 .. Len(chain) : n = chain[i]
    BY <2>1 DEF ChainNodes
  <2>3. /\ chain \in Seq(CountNode) /\ n \in CountNode /\ n.count # 0
        /\ \A j \in 1 .. Len(chain) : chain[j].resourceId = r => i = j
    BY <1>1, <2>2, CountFacts DEF GoodCounts
  <2>4. r \in Nat /\ r % CountBuckets = b
    BY <1>1, <1>3, <2>2, <2>3
  <2>5. HoldsCount(chain, r, tally[r])
    BY <1>1, <2>4
  <2>6. tally[r] = n.count
    BY <2>2, <2>3, <2>5 DEF HoldsCount
  <2>7. tally[r] > 0
    BY <1>3, <2>3, <2>6
  <2> QED
    BY <1>3, <2>3, <2>4, <2>6, <2>7 DEF NodesOf
<1>5. ASSUME NEW n \in NodesOf(tally)
      PROVE  n \in TableNodes(buckets, CountBuckets)
  <2>1. PICK r \in Nat : tally[r] > 0 /\ n = [resourceId |-> r, count |-> tally[r]]
    BY DEF NodesOf
  <2> DEFINE b == r % CountBuckets
             chain == buckets[b]
  <2>2. b \in Table /\ HoldsCount(chain, r, tally[r]) /\ GoodCounts(chain)
    BY <1>1, <1>2
  <2>3. PICK i \in 1 .. Len(chain) : chain[i].resourceId = r /\ chain[i].count = tally[r]
    BY <2>1, <2>2 DEF HoldsCount
  <2>4. chain[i] \in CountNode
    BY <2>2, CountFacts DEF GoodCounts
  <2>5. chain[i] = n
    BY <1>3, <2>1, <2>3, <2>4
  <2>6. n \in ChainNodes(chain, Len(chain))
    BY <2>5 DEF ChainNodes
  <2> QED
    BY <2>2, <2>6 DEF TableNodes, Table
<1> QED
  BY <1>4, <1>5

(* The occupied places come first. *)
LEMMA OccupiedFirst ==
    ASSUME NEW top, NEW S, TopOf(top, S)
    PROVE  \E k \in 0 .. TopSize :
              /\ k = Cardinality({p \in 1 .. TopSize : \A q \in 1 .. p : top[q].count # 0})
              /\ \A p \in 1 .. TopSize : p <= k <=> top[p].count # 0
<1> DEFINE N == TopSize
           U == {p \in 1 .. N : \A q \in 1 .. p : top[q].count # 0}
           free == {p \in 1 .. N : top[p].count = 0}
<1>1. N \in Nat
  BY SizesAssumption
<1>2. \A p \in 1 .. N : top[p].count \in Nat
  BY DEF TopOf, CountNode
<1>3. \A p, q \in 1 .. N : p <= q => top[p].count >= top[q].count
  BY DEF TopOf
<1> HIDE DEF N
<1>4. \E k \in 0 .. N : \A p \in 1 .. N : p <= k <=> top[p].count # 0
  <2>1. CASE free = {}
    <3>1. N \in 0 .. N /\ \A p \in 1 .. N : p <= N /\ top[p].count # 0
      BY <1>1, <2>1
    <3> QED
      BY <3>1
  <2>2. CASE free # {}
    <3>1. PICK f \in free : \A p \in free : f <= p
      <4>1. free \in SUBSET Nat
        BY <1>1
      <4> HIDE DEF free
      <4> QED
        BY <2>2, <4>1, LeastExists
    <3>2. f \in 1 .. N /\ top[f].count = 0
      OBVIOUS
    <3>3. ASSUME NEW p \in 1 .. N, p <= f - 1
          PROVE  top[p].count # 0
      <4>1. ~(f <= p)
        BY <1>1, <3>2, <3>3
      <4> QED
        BY <3>1, <4>1
    <3>4. ASSUME NEW p \in 1 .. N, ~(p <= f - 1)
          PROVE  top[p].count = 0
      <4>1. f <= p
        BY <1>1, <3>2, <3>4
      <4> QED
        BY <1>2, <1>3, <3>2, <4>1
    <3>5. f - 1 \in 0 .. N
      BY <1>1, <3>2
    <3> QED
      BY <3>3, <3>4, <3>5
  <2> QED
    BY <2>1, <2>2
<1>5. PICK k \in 0 .. N : \A p \in 1 .. N : p <= k <=> top[p].count # 0
  BY <1>4
<1>6. \A p : p \in U <=> p \in 1 .. k
  <2>1. \A p \in 1 .. N : p \in 1 .. p /\ \A q \in 1 .. p : q \in 1 .. N /\ q <= p
    BY <1>1
  <2>2. \A p \in 1 .. k : p \in 1 .. N /\ p <= k /\ \A q \in 1 .. p : q <= k
    BY <1>1
  <2>3. \A p \in 1 .. N : p <= k => p \in 1 .. k
    BY <1>1
  <2> QED
    BY <1>5, <2>1, <2>2, <2>3
<1>7. U = 1 .. k
  <2> HIDE DEF U
  <2> QED
    BY <1>6
<1>8. Cardinality(1 .. k) = k
  BY <1>1, FS_Interval
<1> QED
  BY <1>5, <1>7, <1>8 DEF N

(* A ranking as the abstract log allows it.                                *)
RightRanking(ranking, nodes) ==
    LET size == Min({Cardinality(nodes), TopSize})
    IN  /\ ranking \in [1 .. size -> nodes]
        /\ Cardinality(ToSet(ranking)) = size
        /\ \A i, j \in 1 .. size : i < j => ranking[i].count >= ranking[j].count
        /\ \A n \in nodes \ ToSet(ranking), i \in 1 .. size : n.count <= ranking[i].count

(* The occupied places are such a ranking.                                 *)
LEMMA RankingIsRight ==
    ASSUME NEW top, NEW S \in SUBSET CountNode, TopOf(top, S), IsFiniteSet(S),
           \A n \in S : n.count # 0
    PROVE  RightRanking(Ranking(top), S) /\ Ranking(top) \in Seq(CountNode)
<1> DEFINE N == TopSize
           r == Ranking(top)
<1>1. N \in Nat \ {0}
  BY SizesAssumption
<1>2. PICK K \in 0 .. N :
          /\ K = Cardinality({p \in 1 .. N : \A q \in 1 .. p : top[q].count # 0})
          /\ \A p \in 1 .. N : p <= K <=> top[p].count # 0
  BY OccupiedFirst
<1>3. /\ top \in [1 .. N -> CountNode]
      /\ \A i, j \in 1 .. N : i <= j => top[i].count >= top[j].count
      /\ \A i \in 1 .. N : top[i].count # 0 => top[i] \in S
      /\ \A i, j \in 1 .. N : top[i].count # 0 /\ top[i] = top[j] => i = j
      /\ \A n \in S : \/ \E i \in 1 .. N : top[i] = n
                      \/ \A i \in 1 .. N : top[i].count >= n.count
  BY DEF TopOf
<1>4. r = SubSeq(top, 1, K)
  BY <1>2 DEF Ranking
<1> HIDE DEF N, r
<1>5. top \in Seq(CountNode) /\ Len(top) = N
  BY <1>1, <1>3
<1>6. /\ r \in Seq(CountNode) /\ Len(r) = K
      /\ \A i \in 1 .. K : r[i] = top[i]
  BY <1>1, <1>4, <1>5
<1>7. \A i \in 1 .. K : i \in 1 .. N /\ i <= K
  BY <1>1
<1>8. \A i \in 1 .. K : r[i] \in S /\ top[i].count # 0
  BY <1>2, <1>3, <1>6, <1>7
<1>9. DOMAIN r = 1 .. K /\ r = [i \in 1 .. K |-> r[i]]
  BY <1>6, LenProperties
<1>10. r \in [1 .. K -> S]
  BY <1>8, <1>9
<1>11. \A i, j \in 1 .. K : r[i] = r[j] => i = j
  BY <1>3, <1>6, <1>7, <1>8
<1>12. ToSet(r) = {r[i] : i \in 1 .. K}
  BY <1>9 DEF ToSet
<1>13. IsFiniteSet(1 .. K) /\ Cardinality(1 .. K) = K
  BY FS_Interval
<1>14. Cardinality(ToSet(r)) = K
  <2> DEFINE T == ToSet(r)
  <2>1. r \in [1 .. K -> T] /\ \A x \in T : \E i \in 1 .. K : r[i] = x
    BY <1>9, <1>12
  <2> HIDE DEF T
  <2>2. r \in Bijection(1 .. K, T)
    BY <1>11, <2>1 DEF Bijection, Injection, Surjection, IsInjective
  <2>3. Cardinality(T) = Cardinality(1 .. K)
    BY <1>13, <2>2, FS_Bijection DEF ExistsBijection
  <2> QED
    BY <1>13, <2>3 DEF T
<1>15. ToSet(r) \subseteq S
  BY <1>8, <1>12
<1>16. Cardinality(S) \in Nat /\ K <= Cardinality(S)
  BY <1>14, <1>15, FS_Subset, FS_CardinalityType
(* A node that stands nowhere is no better than any place. *)
<1>17. ASSUME NEW n \in S, n \notin ToSet(r)
       PROVE  \A i \in 1 .. N : top[i].count >= n.count
  <2>1. ASSUME NEW i \in 1 .. N
        PROVE  top[i] # n
    <3>1. CASE i <= K
      <4>1. i \in 1 .. K
        BY <1>1, <3>1
      <4> QED
        BY <1>6, <1>12, <1>17, <4>1
    <3>2. CASE ~(i <= K)
      BY <1>2, <3>2
    <3> QED
      BY <3>1, <3>2
  <2> QED
    BY <1>3, <2>1
<1>18. K < N => Cardinality(S) = K
  <2> SUFFICES ASSUME K < N
               PROVE  Cardinality(S) = K
    OBVIOUS
  <2>1. K + 1 \in 1 .. N /\ ~(K + 1 <= K)
    BY <1>1
  <2>2. top[K + 1].count = 0
    BY <1>2, <2>1
  <2>3. \A n \in S : n \in ToSet(r)
    <3> SUFFICES ASSUME NEW n \in S, n \notin ToSet(r)
                 PROVE  FALSE
      OBVIOUS
    <3>1. 0 >= n.count
      BY <1>17, <2>1, <2>2
    <3>2. n.count \in Nat /\ n.count # 0
      BY DEF CountNode
    <3> QED
      BY <3>1, <3>2
  <2>4. S = ToSet(r)
    BY <1>15, <2>3
  <2> QED
    BY <1>14, <2>4
<1>19. Min({Cardinality(S), N}) = K
  <2> DEFINE c == Cardinality(S)
  <2>1. c \in Nat /\ K <= c /\ (K < N => c = K)
    BY <1>16, <1>18
  <2> HIDE DEF c
  <2>2. Min({c, N}) = IF c <= N THEN c ELSE N
    <3>1. c \in Int /\ N \in Int
      BY <1>1, <2>1
    <3> QED
      BY <3>1, TwoEnds
  <2>3. (IF c <= N THEN c ELSE N) = K
    BY <1>1, <2>1
  <2> QED
    BY <2>2, <2>3 DEF c
<1>20. \A i, j \in 1 .. K : i < j => r[i].count >= r[j].count
  <2>1. \A i, j \in 1 .. K : i < j => i <= j
    BY <1>1
  <2> QED
    BY <1>3, <1>6, <1>7, <2>1
<1>21. \A n \in S \ ToSet(r), i \in 1 .. K : n.count <= r[i].count
  <2> SUFFICES ASSUME NEW n \in S, n \notin ToSet(r), NEW i \in 1 .. K
               PROVE  n.count <= r[i].count
    OBVIOUS
  <2>1. r[i].count >= n.count
    BY <1>6, <1>7, <1>17
  <2>2. r[i].count \in Nat /\ n.count \in Nat
    <3>1. r[i] \in CountNode /\ n \in CountNode
      BY <1>8
    <3> QED
      BY <3>1 DEF CountNode
  <2> QED
    BY <2>1, <2>2
<1>22. RightRanking(r, S)
  BY <1>10, <1>14, <1>19, <1>20, <1>21 DEF RightRanking, N
<1> QED
  BY <1>6, <1>22 DEF r
-----------------------------------------------------------------------------
(* The abstract log                                                        *)

(* The operators that the abstract specification shares with this module. *)
LEMMA SameCardinality == \A S : Abstract!Cardinality(S) = Cardinality(S)
BY DEF Abstract!Cardinality, Cardinality

LEMMA SameMin == \A S : Abstract!Min(S) = Min(S)
BY DEF Abstract!Min, Min

LEMMA SameToSet == \A s : Abstract!ToSet(s) = ToSet(s)
BY DEF Abstract!ToSet, ToSet

LEMMA SamePrefixes == \A s : Abstract!Prefixes(s) = Prefixes(s)
BY DEF Abstract!Prefixes, Prefixes

(* The history of the abstract log is the order of the timelines.          *)
LEMMA SameHistory ==
    ASSUME NEW positions
    PROVE  Abstract!History(positions) = HistoryOf(Stored, positions)
<1> DEFINE F(p) == Abstract!Cardinality({q \in positions : Abstract!Earlier(q, p)})
           G(p) == Cardinality(EarlierIn(Stored, positions, p))
           f(i) == CHOOSE p \in positions : F(p) = i - 1
           g(i) == CHOOSE p \in positions : G(p) = i - 1
           N == Cardinality(positions)
<1>1. \A p : F(p) = G(p)
  <2>1. \A p : {q \in positions : Abstract!Earlier(q, p)} = EarlierIn(Stored, positions, p)
    BY DEF EarlierIn, Earlier, Abstract!Earlier
  <2> QED
    BY <2>1, SameCardinality
<1>2. Abstract!History(positions) = [i \in 1 .. N |-> Stored[f(i)]]
  BY SameCardinality DEF Abstract!History
<1>3. HistoryOf(Stored, positions) = [i \in 1 .. N |-> Stored[g(i)]]
  BY DEF HistoryOf
<1>4. \A i : f(i) = g(i)
  <2> HIDE DEF F, G
  <2> QED
    BY <1>1, Zenon
<1> HIDE DEF f, g
<1> QED
  BY <1>2, <1>3, <1>4

(* Both specifications mean the same range.                                *)
LEMMA SameRange ==
    ASSUME NEW e \in Entries, NEW from \in Typed, NEW to \in Typed
    PROVE  /\ Abstract!InRange(e, from, to) <=> InRangeOf(e, from, to)
           /\ Abstract!InRange(e, from, to) <=>
                IsWithinRange(e.timestamp, RangeStart(from, to), RangeEnd(from, to))
<1> DEFINE t == e.timestamp
           a == StartTime(from)
           b == EndTime(to)
           start == RangeStart(from, to)
           end == RangeEnd(from, to)
<1>1. t \in Int
  BY EntryTime
<1>2. Abstract!InRange(e, from, to) <=> t \in (a .. b) \cup (b .. a)
  BY DEF Abstract!InRange, StartTime, EndTime, DEFAULT_START
<1>3. start \in Int /\ end \in Int /\ (t \in start .. end <=> t \in (a .. b) \cup (b .. a))
  BY <1>1, EndsAreTimes
<1> HIDE DEF a, b, start, end, t
<1>4. t \in start .. end <=> t >= start /\ t <= end
  BY <1>1, <1>3
<1> QED
  BY <1>2, <1>3, <1>4 DEF InRangeOf, IsWithinRange, start, end, t

(* The tally of the range asked for.                                       *)
TallyAsked(from, to) == TallyUpTo(Stored, Len(Stored), RangeStart(from, to), RangeEnd(from, to))

(* The nodes of the tally are those of the abstract log.                   *)
LEMMA SameNodes ==
    ASSUME Stored \in Seq(Entries), NEW from \in Typed, NEW to \in Typed
    PROVE  /\ IsFiniteSet(NodesOf(TallyAsked(from, to)))
           /\ NodesOf(TallyAsked(from, to)) =
                {[resourceId |-> r, count |-> Abstract!Accesses(r, from, to)] :
                    r \in {x \in Abstract!Resources : Abstract!Accesses(x, from, to) > 0}}
<1> DEFINE N == Len(Stored)
           start == RangeStart(from, to)
           end == RangeEnd(from, to)
           tally == TallyAsked(from, to)
           accesses(r) == Abstract!Accesses(r, from, to)
           Set(r) == InRangeUpTo(Stored, N, r, start, end)
           node(i) == [resourceId |-> Stored[i].resourceId, count |-> tally[Stored[i].resourceId]]
<1>1. /\ N \in Nat /\ DOMAIN Stored = 1 .. N
      /\ \A i \in 1 .. N : Stored[i] \in Entries /\ Stored[i].resourceId \in Nat
  <2>1. N \in Nat /\ DOMAIN Stored = 1 .. N /\ \A i \in 1 .. N : Stored[i] \in Entries
    BY LenProperties, ElementOfSeq
  <2> QED
    BY <2>1, SizesAssumption
<1>2. \A r : accesses(r) = Cardinality(Set(r))
  <2> SUFFICES ASSUME NEW r
               PROVE  accesses(r) = Cardinality(Set(r))
    OBVIOUS
  <2>1. {i \in DOMAIN Stored : Stored[i].resourceId = r /\ Abstract!InRange(Stored[i], from, to)}
            = Set(r)
    BY <1>1, SameRange DEF InRangeUpTo
  <2> QED
    BY <2>1, SameCardinality DEF Abstract!Accesses
<1>3. \A r \in Nat : tally[r] = accesses(r)
  BY <1>2 DEF TallyAsked, TallyUpTo
<1>4. Abstract!Resources \subseteq Nat
  BY SizesAssumption DEF Abstract!Resources
<1>5. ASSUME NEW r \in Nat, tally[r] > 0
      PROVE  \E i \in 1 .. N : Stored[i].resourceId = r
  <2>1. Cardinality(Set(r)) # 0
    BY <1>2, <1>3, <1>5
  <2>2. Set(r) # {}
    BY <2>1, FS_EmptySet
  <2> QED
    BY <2>2 DEF InRangeUpTo
<1>6. \A i \in 1 .. N : Stored[i].resourceId \in Abstract!Resources
  BY <1>1 DEF Abstract!Resources
<1> HIDE DEF N, tally, accesses, Set
<1>7. IsFiniteSet(NodesOf(tally))
  <2>1. IsFiniteSet({node(i) : i \in 1 .. N})
    <3>1. IsFiniteSet(1 .. N)
      BY <1>1, FS_Interval
    <3> DEFINE f == [i \in 1 .. N |-> node(i)]
               T == {node(i) : i \in 1 .. N}
    <3>2. f \in Surjection(1 .. N, T)
      BY DEF Surjection
    <3> HIDE DEF f, T
    <3>3. IsFiniteSet(T)
      BY <3>1, <3>2, FS_Surjection
    <3> QED
      BY <3>3 DEF T
  <2>2. NodesOf(tally) \subseteq {node(i) : i \in 1 .. N}
    BY <1>5 DEF NodesOf
  <2> QED
    BY <2>1, <2>2, FS_Subset
<1>8. NodesOf(tally) = {[resourceId |-> r, count |-> accesses(r)] :
                            r \in {x \in Abstract!Resources : accesses(x) > 0}}
  <2>1. {x \in Nat : tally[x] > 0} = {x \in Abstract!Resources : accesses(x) > 0}
    BY <1>3, <1>4, <1>5, <1>6
  <2>2. \A r \in {x \in Nat : tally[x] > 0} : tally[r] = accesses(r)
    BY <1>3
  <2> DEFINE R == {x \in Nat : tally[x] > 0}
  <2>3. NodesOf(tally) = {[resourceId |-> r, count |-> tally[r]] : r \in R}
    BY DEF NodesOf
  <2> HIDE DEF R
  <2>4. {[resourceId |-> r, count |-> tally[r]] : r \in R} = {[resourceId |-> r, count |-> accesses(r)] : r \in R}
    BY <2>2 DEF R
  <2> QED
    BY <2>1, <2>3, <2>4 DEF R
<1> QED
  BY <1>7, <1>8 DEF tally, accesses

(* userJourney() and resourceJourney() print the history of the key in the *)
(* range.                                                                  *)
LEMMA JourneyAnswers ==
    ASSUME Stored \in Seq(Entries), NEW index, NEW field, IndexOver(index, field, Stored),
           NEW key \in DOMAIN HashKey, NEW from \in Typed, NEW to \in Typed,
           NEW printed \in Printed(Rows(Timeline(index, key), from, to))
    PROVE  /\ printed \in [rows : Seq(Entries)]
           /\ printed \in Abstract!Shown(Abstract!History(
                            {i \in DOMAIN Stored :
                                Stored[i][field] = key /\ Abstract!InRange(Stored[i], from, to)}))
<1> DEFINE rows == Rows(Timeline(index, key), from, to)
           asked == Asked(Stored, field, key, from, to)
           positions == {i \in DOMAIN Stored :
                            Stored[i][field] = key /\ Abstract!InRange(Stored[i], from, to)}
<1>1. InOrder(Stored, asked, rows)
  BY RowsAreAsked
<1>2. DOMAIN Stored = 1 .. Len(Stored) /\ \A i \in DOMAIN Stored : Stored[i] \in Entries
  BY LenProperties, ElementOfSeq
<1>3. positions = asked
  BY <1>2, SameRange DEF Asked
<1>4. asked \in SUBSET (1 .. Len(Stored))
  BY <1>2 DEF Asked
<1>5. printed \in Printed(rows)
  OBVIOUS
<1> HIDE DEF rows, asked, positions
<1>6. rows \in Seq(Entries)
  BY <1>1 DEF InOrder
<1>7. rows = Abstract!History(asked)
  BY <1>1, <1>4, OnlyOneOrder, SameHistory
<1>8. PICK p \in {rows} \cup {q \in Prefixes(rows) : q # << >> /\ Len(q) % PageSize = 0} :
          p \in Seq(Entries) /\ printed = [rows |-> p]
  BY <1>5, <1>6, PagerShows
<1>9. printed \in Abstract!Shown(rows)
  BY <1>8, SamePrefixes DEF Abstract!Shown
<1> QED
  BY <1>3, <1>7, <1>8, <1>9 DEF positions

(* printTop10Resources() prints a ranking of the range.                    *)
LEMMA RankingAnswers ==
    ASSUME GoodStore(chunks), Stored \in Seq(Entries), NEW from \in Typed, NEW to \in Typed
    PROVE  LET counts == Scanned(chunks, RangeStart(from, to), RangeEnd(from, to))[Len(chunks)]
               ranking == Ranking(Ranked(counts)[CountBuckets])
           IN  ranking \in Seq(CountNode) /\ ranking \in Abstract!Rankings(from, to)
<1> DEFINE start == RangeStart(from, to)
           end == RangeEnd(from, to)
           counts == Scanned(chunks, start, end)[Len(chunks)]
           top == Ranked(counts)[CountBuckets]
           ranking == Ranking(top)
           tally == TallyAsked(from, to)
           nodes == NodesOf(tally)
<1>1. start \in Int /\ end \in Int
  BY EndsAreTimes
<1>2. Tallies(counts, tally)
  BY <1>1, ScannedTallies DEF TallyAsked, Stored
<1> HIDE DEF counts, tally
<1>3. TopOf(top, TableNodes(counts, CountBuckets))
  BY <1>2, TableIsRanked DEF Tallies
<1>4. TableNodes(counts, CountBuckets) = nodes
  BY <1>2, TableHolds
<1>5. nodes \in SUBSET CountNode /\ \A n \in nodes : n.count # 0
  <2>1. tally \in [Nat -> Nat]
    BY <1>2 DEF Tallies
  <2> QED
    BY <2>1 DEF NodesOf, CountNode
<1>6. /\ IsFiniteSet(nodes)
      /\ nodes = {[resourceId |-> r, count |-> Abstract!Accesses(r, from, to)] :
                    r \in {x \in Abstract!Resources : Abstract!Accesses(x, from, to) > 0}}
  BY SameNodes DEF tally
<1> HIDE DEF nodes, top
<1>7. RightRanking(ranking, nodes) /\ ranking \in Seq(CountNode)
  BY <1>3, <1>4, <1>5, <1>6, RankingIsRight
<1> HIDE DEF ranking
<1>8. ranking \in Abstract!Rankings(from, to)
  BY <1>6, <1>7, SameCardinality, SameMin, SameToSet DEF RightRanking, Abstract!Rankings
<1> QED
  BY <1>7, <1>8 DEF ranking, top, counts, start, end
-----------------------------------------------------------------------------
(* The invariant and the theorems                                          *)

(* Every chunk has the exact range of its entries, and all but the last    *)
(* are full.                                                               *)
StoreInv == GoodStore(chunks)

(* Both indices group the store while no load is on its way. *)
IndexInv ==
    /\ GoodIndex(userIndex) /\ GoodIndex(resourceIndex)
    /\ pc # "load" => /\ IndexOver(userIndex, "userId", Stored)
                      /\ IndexOver(resourceIndex, "resourceId", Stored)

Inv == StoreInv /\ IndexInv

(* buildIndices() after a reset of the indices. *)
LEMMA BuiltIsOver ==
    ASSUME StoreInv, NEW field \in Fields
    PROVE  IndexOver(Built(EmptyIndex, field), field, Stored)
<1>1. Stored \in Seq(Entries)
  BY EntriesAreJoined DEF Stored, StoreInv, GoodStore
<1> HIDE DEF Stored
<1> QED
  BY <1>1, IndexIsBuilt DEF Built

LEMMA EmptyStoreIsGood == GoodStore(<< >>)
<1>1. << >> \in Seq(Chunk) /\ 1 .. Len(<< >>) = {}
  OBVIOUS
<1> QED
  BY <1>1 DEF GoodStore

LEMMA QueriesLeave ==
    ASSUME Query \/ ShowMenu
    PROVE  UNCHANGED <<chunks, userIndex, resourceIndex>> /\ pc # "load"
BY DEF Query, UserJourney, ResourceJourney, Top10Resources, ShowMenu

(* The invariant is inductive: it needs no other. *)
LEMMA InvHolds == Spec => []Inv
<1>1. Init => Inv
  BY EmptyStoreIsGood, EmptyIndexIsGood DEF Init, Inv, StoreInv, IndexInv
<1>2. Inv /\ [Next]_vars => Inv'
  <2> SUFFICES ASSUME Inv, [Next]_vars PROVE Inv'
    OBVIOUS
  <2>1. ASSUME NEW e \in Entries, Insert(e) PROVE Inv'
    <3>1. GoodStore(WithEntry(chunks, e))
      BY WithEntryAppends DEF Inv, StoreInv
    <3> QED
      BY <2>1, <3>1 DEF Insert, Inv, StoreInv, IndexInv
  <2>2. CASE BuildIndices
    <3>1. /\ IndexOver(Built(EmptyIndex, "userId"), "userId", Stored)
          /\ IndexOver(Built(EmptyIndex, "resourceId"), "resourceId", Stored)
      BY BuiltIsOver DEF Inv, Fields
    <3>2. Stored' = Stored
      BY <2>2 DEF BuildIndices, Stored
    <3> QED
      BY <2>2, <3>1, <3>2 DEF BuildIndices, Inv, StoreInv, IndexInv, IndexOver
  <2>3. CASE Reset
    BY <2>3, EmptyStoreIsGood DEF Reset, Inv, StoreInv, IndexInv
  <2>4. CASE Query \/ ShowMenu
    <3>1. UNCHANGED <<chunks, userIndex, resourceIndex>> /\ pc # "load"
      BY <2>4, QueriesLeave
    <3>2. Stored' = Stored
      BY <3>1 DEF Stored
    <3> QED
      BY <3>1, <3>2 DEF Inv, StoreInv, IndexInv
  <2>5. CASE UNCHANGED vars
    BY <2>5 DEF vars, Inv, StoreInv, IndexInv, Stored
  <2> QED
    BY <2>1, <2>2, <2>3, <2>4, <2>5 DEF Next
<1> QED
  BY <1>1, <1>2, PTL DEF Spec

(* The range of every chunk is at all times the exact range of its         *)
(* entries, in whatever order LogStore::insert() gets them.                *)
THEOREM RangesExact == Spec => []ChunkRanges
<1>1. Inv => ChunkRanges
  <2>1. StoreInv => \A i \in DOMAIN chunks : RangeExact(chunks[i])
    BY LenProperties DEF StoreInv, GoodStore
  <2> QED
    BY <2>1 DEF Inv, ChunkRanges
<1> QED
  BY <1>1, InvHolds, PTL

(* After buildIndices() every entry of the store stands in the timeline of *)
(* its user and of its resource, as often as it was inserted and in the    *)
(* order of time, whatever ids share a bucket and also after a reload.     *)
THEOREM TimelinesAreComplete == Spec => []TimelinesComplete
<1>1. Inv => TimelinesComplete
  <2> SUFFICES ASSUME Inv, pc # "load"
               PROVE  /\ TimelinesAre(userIndex, Stored, "userId")
                      /\ TimelinesAre(resourceIndex, Stored, "resourceId")
    BY DEF TimelinesComplete
  <2>1. Stored \in Seq(Entries)
    BY EntriesAreJoined DEF Inv, Stored, StoreInv, GoodStore
  <2>2. /\ IndexOver(userIndex, "userId", Stored)
        /\ IndexOver(resourceIndex, "resourceId", Stored)
    BY DEF Inv, IndexInv
  <2> QED
    BY <2>1, <2>2, TimelinesFollow DEF Fields
<1> QED
  BY <1>1, InvHolds, PTL

(* No entry of a chunk that the ranking skips lies in the range asked for. *)
SkipsNothing ==
    \A i \in DOMAIN chunks : \A start, end \in Int :
        ~MayHold(chunks[i], start, end) =>
            \A n \in 1 .. Len(chunks[i].entries) :
                ~IsWithinRange(chunks[i].entries[n].timestamp, start, end)

(* printTop10Resources() loses no access by skipping chunks: no range that *)
(* can be asked for has an entry in a chunk whose own range misses it.     *)
THEOREM SkippingIsSafe == Spec => []SkipsNothing
<1>1. Inv => SkipsNothing
  <2> SUFFICES ASSUME Inv, NEW i \in DOMAIN chunks, NEW start \in Int, NEW end \in Int,
                      ~MayHold(chunks[i], start, end)
               PROVE  \A n \in 1 .. Len(chunks[i].entries) :
                         ~IsWithinRange(chunks[i].entries[n].timestamp, start, end)
    BY DEF SkipsNothing
  <2>1. chunks[i] \in Chunk /\ RangeExact(chunks[i])
    BY LenProperties, ElementOfSeq DEF Inv, StoreInv, GoodStore
  <2> QED
    BY <2>1, ChunkSkipped
<1> QED
  BY <1>1, InvHolds, PTL

(* The types that no other part of the invariant has.                      *)
Answers ==
    /\ inserted \in 0 .. MaxEntries
    /\ pc \in {"load", "menu", "answered"}
    /\ \/ answer = None
       \/ answer \in [rows : Seq(Entries)]
       \/ answer \in [ranking : Seq(CountNode)]

LEMMA StoredType ==
    ASSUME Inv
    PROVE  GoodStore(chunks) /\ Stored \in Seq(Entries)
BY EntriesAreJoined DEF Inv, Stored, StoreInv, GoodStore

LEMMA KeysOfQueries == Users \subseteq DOMAIN HashKey /\ Resources \subseteq DOMAIN HashKey
BY SizesAssumption DEF Users, Resources

(* What a query prints, and how the log specified abstractly answers. *)
LEMMA QueriesAnswer ==
    ASSUME Inv, Query
    PROVE  /\ pc' = "answered" /\ UNCHANGED <<chunks, inserted>>
           /\ \/ answer' \in [rows : Seq(Entries)]
              \/ answer' \in [ranking : Seq(CountNode)]
           /\ \E from, to \in Times \cup {Enter} :
                \/ \E user \in Abstract!Users : Abstract!UserJourney(user, from, to)
                \/ \E resource \in Abstract!Resources : Abstract!ResourceJourney(resource, from, to)
                \/ Abstract!Top10Resources(from, to)
<1>1. GoodStore(chunks) /\ Stored \in Seq(Entries)
  BY StoredType
<1>2. Abstract!Users = Users /\ Abstract!Resources = Resources
  BY DEF Users, Resources, Abstract!Users, Abstract!Resources
<1>3. PICK from \in Typed, to \in Typed :
          \/ \E user \in Users : UserJourney(user, from, to)
          \/ \E resource \in Resources : ResourceJourney(resource, from, to)
          \/ Top10Resources(from, to)
  BY DEF Query
<1>4. Typed = Times \cup {Enter}
  BY DEF Typed
<1>5. ASSUME NEW user \in Users, UserJourney(user, from, to)
      PROVE  /\ answer' \in [rows : Seq(Entries)] /\ UNCHANGED <<chunks, inserted>>
             /\ pc' = "answered" /\ Abstract!UserJourney(user, from, to)
  <2>1. /\ answer' \in Printed(Rows(Timeline(userIndex, user), from, to))
        /\ question' = <<"user", user, from, to>> /\ pc = "menu" /\ pc' = "answered"
        /\ UNCHANGED <<chunks, inserted>>
    BY <1>5 DEF UserJourney
  <2>2. IndexOver(userIndex, "userId", Stored)
    BY <2>1 DEF Inv, IndexInv
  <2>3. user \in DOMAIN HashKey
    BY KeysOfQueries
  <2>4. /\ answer' \in [rows : Seq(Entries)]
        /\ answer' \in Abstract!Shown(Abstract!History(
                         {i \in DOMAIN Stored :
                             Stored[i]["userId"] = user /\ Abstract!InRange(Stored[i], from, to)}))
    BY <1>1, <2>1, <2>2, <2>3, JourneyAnswers
  <2>5. UNCHANGED Stored
    BY <2>1 DEF Stored
  <2> QED
    BY <2>1, <2>4, <2>5 DEF Abstract!UserJourney
<1>6. ASSUME NEW resource \in Resources, ResourceJourney(resource, from, to)
      PROVE  /\ answer' \in [rows : Seq(Entries)] /\ UNCHANGED <<chunks, inserted>>
             /\ pc' = "answered" /\ Abstract!ResourceJourney(resource, from, to)
  <2>1. /\ answer' \in Printed(Rows(Timeline(resourceIndex, resource), from, to))
        /\ question' = <<"resource", resource, from, to>> /\ pc = "menu" /\ pc' = "answered"
        /\ UNCHANGED <<chunks, inserted>>
    BY <1>6 DEF ResourceJourney
  <2>2. IndexOver(resourceIndex, "resourceId", Stored)
    BY <2>1 DEF Inv, IndexInv
  <2>3. resource \in DOMAIN HashKey
    BY KeysOfQueries
  <2>4. /\ answer' \in [rows : Seq(Entries)]
        /\ answer' \in Abstract!Shown(Abstract!History(
                         {i \in DOMAIN Stored :
                             Stored[i]["resourceId"] = resource
                             /\ Abstract!InRange(Stored[i], from, to)}))
    BY <1>1, <2>1, <2>2, <2>3, JourneyAnswers
  <2>5. UNCHANGED Stored
    BY <2>1 DEF Stored
  <2> QED
    BY <2>1, <2>4, <2>5 DEF Abstract!ResourceJourney
<1>7. CASE Top10Resources(from, to)
  <2> DEFINE counts == Scanned(chunks, RangeStart(from, to), RangeEnd(from, to))[Len(chunks)]
             ranking == Ranking(Ranked(counts)[CountBuckets])
  <2>1. /\ answer' = [ranking |-> ranking] /\ question' = <<"top", from, to>>
        /\ pc' = "answered" /\ UNCHANGED <<chunks, inserted>>
    BY <1>7 DEF Top10Resources
  <2>2. ranking \in Seq(CountNode) /\ ranking \in Abstract!Rankings(from, to)
    BY <1>1, RankingAnswers
  <2>3. UNCHANGED Stored
    BY <2>1 DEF Stored
  <2> HIDE DEF ranking
  <2>4. Abstract!Top10Resources(from, to)
    BY <2>1, <2>2, <2>3 DEF Abstract!Top10Resources
  <2> QED
    BY <1>4, <2>1, <2>2, <2>4
<1> QED
  BY <1>2, <1>3, <1>4, <1>5, <1>6, <1>7

(* The state variables keep their types, and all chunks but the last are   *)
(* full: LogStore::insert() allocates a chunk only when it must, and every *)
(* query prints rows or a ranking.                                         *)
THEOREM TypeCorrect == Spec => []TypeOK
<1>1. Init => Answers
  BY SizesAssumption DEF Init, Answers
<1>2. Inv /\ Answers /\ [Next]_vars => Answers'
  <2> SUFFICES ASSUME Inv, Answers, [Next]_vars
               PROVE  Answers'
    OBVIOUS
  <2>1. ASSUME NEW e \in Entries, Insert(e)
        PROVE  Answers'
    <3>1. inserted + 1 \in 0 .. MaxEntries
      BY <2>1, SizesAssumption DEF Insert, Answers
    <3> QED
      BY <2>1, <3>1 DEF Insert, Answers
  <2>2. CASE BuildIndices
    BY <2>2 DEF BuildIndices, Answers
  <2>3. CASE Reset
    BY <2>3 DEF Reset, Answers
  <2>4. CASE Query
    BY <2>4, QueriesAnswer DEF Answers
  <2>5. CASE ShowMenu
    BY <2>5 DEF ShowMenu, Answers
  <2>6. CASE UNCHANGED vars
    BY <2>6 DEF vars, Answers
  <2> QED
    BY <2>1, <2>2, <2>3, <2>4, <2>5, <2>6 DEF Next
<1>3. Inv /\ Answers => TypeOK
  <2> SUFFICES ASSUME Inv, Answers
               PROVE  TypeOK
    OBVIOUS
  <2>1. /\ chunks \in Seq(Chunk)
        /\ \A i \in DOMAIN chunks : /\ Len(chunks[i].entries) \in 1 .. ChunkSize
                                    /\ i < Len(chunks) => Len(chunks[i].entries) = ChunkSize
    BY LenProperties DEF Inv, StoreInv, GoodStore
  <2>2. userIndex \in Index /\ resourceIndex \in Index
    BY DEF Inv, IndexInv, GoodIndex, Index, EmptyIndex, Buckets, Node
  <2> QED
    BY <2>1, <2>2 DEF Answers, TypeOK, CountNode
<1> QED
  BY <1>1, <1>2, <1>3, InvHolds, PTL DEF Spec

LEMMA NothingStored == EntriesOf(<< >>) = << >>
<1>1. << >> \in Seq(Chunk) /\ Len(<< >>) = 0
  OBVIOUS
<1>2. PICK flat : Joined(<< >>, flat) /\ EntriesOf(<< >>) = flat[Len(<< >>)]
  BY <1>1, EntriesAreJoined
<1> QED
  BY <1>1, <1>2 DEF Joined

(* The chunks, the indices with their bisections and the ranking implement *)
(* the abstract log: every query of the program prints exactly what the    *)
(* log says.                                                               *)
THEOREM QueriesImplementLog == Spec => ImplementsLog
<1>1. Init => Abstract!Init
  BY NothingStored DEF Init, Abstract!Init, Stored
<1>2. Inv /\ [Next]_vars => [Abstract!Next]_<<Stored, question, answer>>
  <2> SUFFICES ASSUME Inv, [Next]_vars
               PROVE  Abstract!Next \/ UNCHANGED <<Stored, question, answer>>
    OBVIOUS
  <2>1. ASSUME NEW e \in Entries, Insert(e)
        PROVE  Abstract!Next
    <3>1. chunks' = WithEntry(chunks, e) /\ UNCHANGED <<question, answer>>
      BY <2>1 DEF Insert
    <3>2. Stored' = Append(Stored, e)
      BY <3>1, StoredType, WithEntryAppends DEF Stored
    <3>3. Abstract!Insert(e)
      BY <3>1, <3>2 DEF Abstract!Insert
    <3> QED
      BY <3>3 DEF Abstract!Next
  <2>2. CASE BuildIndices
    BY <2>2 DEF BuildIndices, Stored
  <2>3. CASE Reset
    <3>1. Abstract!Reset
      BY <2>3, NothingStored DEF Reset, Stored, Abstract!Reset
    <3> QED
      BY <3>1 DEF Abstract!Next
  <2>4. CASE Query
    BY <2>4, QueriesAnswer DEF Abstract!Next
  <2>5. CASE ShowMenu
    <3>1. Abstract!ShowMenu
      BY <2>5 DEF ShowMenu, Stored, Abstract!ShowMenu
    <3> QED
      BY <3>1 DEF Abstract!Next
  <2>6. CASE UNCHANGED vars
    BY <2>6 DEF vars, Stored
  <2> QED
    BY <2>1, <2>2, <2>3, <2>4, <2>5, <2>6 DEF Next
<1> QED
  BY <1>1, <1>2, InvHolds, PTL DEF Spec, ImplementsLog, Abstract!Spec
=============================================================================
