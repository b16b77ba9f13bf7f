-------------------------- MODULE HaloEngine_proofs --------------------------
(***************************************************************************)
(* Proofs about HaloEngine for all contents of the CSV, any number of      *)
(* edits and reloads, and edits at any point of the program.  Only the     *)
(* last theorem, FreshSnapshots, says when the CSV may change.             *)
(***************************************************************************)
EXTENDS EngineProperties, CommonLemmas, SequenceTheorems

(* Where the program is before it has built its first indices. *)
Unindexed ==
    \/ pc \in {"boot", "loadBinary", "fallback", "loadCsv", "index"}
    \/ pc \in {"dumpOpen", "dumpHeader", "dumpBody"} /\ afterDump = "index"

(* Where queries may follow its pointers, or may without another reindex.  *)
Indexed ==
    \/ pc = "menu"
    \/ pc \in {"dumpOpen", "dumpHeader", "dumpBody"} /\ afterDump = "menu"

(* The indices hold the pointers to all rows, and no others, wherever      *)
(* queries may follow them.  What keeps the memory and the pointers in     *)
(* step is that reset() of the store is called at two places only: while   *)
(* there is no index yet, and on the way to a reload that either rebuilds  *)
(* the index or leaves the store empty.                                    *)
IndexInv ==
    /\ afterDump \in {"index", "menu"}
    /\ Unindexed => index = {}
    /\ Indexed => index = AllPointers \/ rows = << >>
    /\ pc = "reload" => rows = << >>

LEMMA IndexInvariant == Spec => []IndexInv
<1>1. Init => IndexInv
  BY DEF Init, IndexInv, Unindexed, Indexed
<1>2. IndexInv /\ [Next]_vars => IndexInv'
  <2> SUFFICES ASSUME IndexInv, [Next]_vars PROVE IndexInv'
    OBVIOUS
  <2> USE DEF IndexInv, Unindexed, Indexed
  <2>1. UNCHANGED <<rows, gen>> => AllPointers' = AllPointers
    BY DEF AllPointers, Pointers
  <2>2. CASE Boot
    <3>1. CASE Start
      BY <3>1 DEF Start
    <3>2. CASE CheckSnapshot
      BY <3>2 DEF CheckSnapshot, store
    <3>3. CASE LoadBinary
      BY <3>3 DEF LoadBinary
    <3>4. CASE Fallback
      BY <3>4 DEF Fallback
    <3>5. CASE LoadCsv
      BY <3>5 DEF LoadCsv
    <3>6. CASE BuildIndices
      BY <2>1, <3>6 DEF BuildIndices, store
    <3> QED
      BY <2>2, <3>1, <3>2, <3>3, <3>4, <3>5, <3>6 DEF Boot
  <2>3. CASE Dump
    BY <2>1, <2>3 DEF Dump, DumpOpen, DumpHeader, DumpBody, store
  <2>4. CASE Menu
    <3>1. CASE ForceReload
      BY <3>1 DEF ForceReload, ResetStore
    <3>2. CASE Reload
      BY <3>2 DEF Reload
    <3>3. CASE Reindex
      BY <2>1, <3>3 DEF Reindex, store
    <3>4. CASE Exit
      BY <3>4 DEF Exit, store
    <3> QED
      BY <2>4, <3>1, <3>2, <3>3, <3>4 DEF Menu
  <2>5. ASSUME NEW name \in Names \cup {defaultUser}, Query(name)
        PROVE  IndexInv'
    BY <2>1, <2>5 DEF Query
  <2>6. CASE Crash
    BY <2>6 DEF Crash, store
  <2>7. ASSUME NEW content \in Contents, Edit(content)
        PROVE  IndexInv'
    BY <2>1, <2>7 DEF Edit, store
  <2>8. CASE Delete
    BY <2>1, <2>8 DEF Delete, store
  <2>9. CASE UNCHANGED vars
    BY <2>1, <2>9 DEF vars, store
  <2> QED
    BY <2>2, <2>3, <2>4, <2>5, <2>6, <2>7, <2>8, <2>9 DEF Next
<1> QED
  BY <1>1, <1>2, PTL DEF Spec

(* At the menu every pointer of the indices is live, unless the last       *)
(* reload has failed: for every history of edits, crashes and reloads.     *)
THEOREM IndexStaysLive == Spec => []IndexIsLive
<1>1. IndexInv => IndexIsLive
  <2>1. \A p \in AllPointers : p.gen = gen
    BY DEF AllPointers, Pointers
  <2> QED
    BY <2>1 DEF IndexInv, IndexIsLive, Indexed, Emptied
<1> QED
  BY <1>1, IndexInvariant, PTL
-----------------------------------------------------------------------------
(* No string has two ids. *)
Distinct(s) == \A i, j \in 1 .. Len(s) : s[i] = s[j] => i = j

(* One sequence of strings continues another. *)
Continues(s, t) == Len(t) <= Len(s) /\ \A i \in 1 .. Len(t) : s[i] = t[i]

LEMMA WithNameProperties ==
    ASSUME NEW S, NEW s \in Seq(S), NEW name \in S
    PROVE  /\ WithName(s, name) \in Seq(S)
           /\ Continues(WithName(s, name), s)
           /\ Distinct(s) => Distinct(WithName(s, name))
           /\ \E i \in 1 .. Len(WithName(s, name)) : WithName(s, name)[i] = name
<1>1. CASE Contains(s, name)
  BY <1>1 DEF WithName, Contains, Continues
<1>2. CASE ~Contains(s, name)
  <2> DEFINE t == Append(s, name)
  <2>1. WithName(s, name) = t /\ \A i \in 1 .. Len(s) : s[i] # name
    BY <1>2 DEF WithName, Contains
  <2>2. /\ t \in Seq(S) /\ Len(s) \in Nat /\ Len(t) = Len(s) + 1 /\ t[Len(s) + 1] = name
        /\ \A i \in 1 .. Len(s) : t[i] = s[i]
    BY AppendProperties
  <2> HIDE DEF t
  <2>3. Continues(t, s) /\ \E i \in 1 .. Len(t) : t[i] = name
    BY <2>2 DEF Continues
  <2>4. Distinct(s) => Distinct(t)
    BY <2>1, <2>2 DEF Distinct
  <2> QED
    BY <2>1, <2>2, <2>3, <2>4
<1> QED
  BY <1>1, <1>2

(* Interning takes one name after the other. *)
LEMMA InternedSteps ==
    ASSUME NEW S, NEW strings \in Seq(S), NEW names \in Seq(S)
    PROVE  \E after \in [0 .. Len(names) -> Seq(S)] :
              /\ after[0] = strings
              /\ \A n \in 1 .. Len(names) : after[n] = WithName(after[n - 1], names[n])
              /\ Interned(strings, names) = after[Len(names)]
<1> DEFINE N == Len(names)
           step == [n \in 1 .. N |-> [s \in Seq(S) |-> WithName(s, names[n])]]
           Loop(f) == f = [n \in 0 .. N |-> IF n = 0 THEN strings ELSE WithName(f[n - 1], names[n])]
<1>1. N \in Nat /\ \A n \in 1 .. N : names[n] \in S
  BY ElementOfSeq, LenProperties
<1>2. step \in [1 .. N -> [Seq(S) -> Seq(S)]]
  BY <1>1, WithNameProperties
<1>3. PICK f \in [0 .. N -> Seq(S)] :
          f[0] = strings /\ \A n \in 1 .. N : f[n] = step[n][f[n - 1]]
  <2>1. N \in Nat /\ strings \in Seq(S)
    BY <1>1
  <2> HIDE DEF step, N
  <2>2. \E f : f \in LoopRuns(Seq(S), strings, N, step)
    BY <1>2, <2>1, LoopExists, Zenon
  <2> QED
    BY <2>2 DEF LoopRuns
<1>4. \A n \in 1 .. N : f[n] = WithName(f[n - 1], names[n])
  <2> SUFFICES ASSUME NEW n \in 1 .. N PROVE f[n] = WithName(f[n - 1], names[n])
    OBVIOUS
  <2>1. f[n - 1] \in Seq(S)
    BY <1>1
  <2>2. step[n] = [s \in Seq(S) |-> WithName(s, names[n])]
    OBVIOUS
  <2> HIDE DEF step
  <2> QED
    BY <1>3, <2>1, <2>2
<1>5. Loop(f)
  BY <1>1, <1>3, <1>4
<1> DEFINE g == CHOOSE after : Loop(after)
<1>6. Loop(g) /\ Interned(strings, names) = g[N]
  <2>1. Loop(g)
    <3> HIDE DEF Loop
    <3> QED
      BY <1>5
  <2>2. Interned(strings, names) = g[N]
    BY DEF Interned
  <2> QED
    BY <2>1, <2>2
<1> HIDE DEF g
<1>7. g[0] = strings /\ \A n \in 1 .. N : g[n] = WithName(g[n - 1], names[n])
  <2>1. \A n \in 1 .. N : n \in 0 .. N /\ n # 0
    BY <1>1
  <2>2. 0 \in 0 .. N
    BY <1>1
  <2> HIDE DEF N
  <2> QED
    BY <1>6, <2>1, <2>2
<1>8. \A n \in 0 .. N : g[n] = f[n]
  <2> SUFFICES ASSUME NEW k \in 0 .. N, g[k] # f[k] PROVE FALSE
    OBVIOUS
  <2> DEFINE T == {n \in 0 .. N : g[n] # f[n]}
  <2>1. PICK m \in T : \A n \in T : m <= n
    <3>1. T \in SUBSET Nat /\ T # {}
      BY <1>1
    <3> QED
      BY <3>1, LeastExists
  <2>2. m \in 0 .. N /\ g[m] # f[m]
    OBVIOUS
  <2>3. CASE m = 0
    BY <1>3, <1>7, <2>2, <2>3
  <2>4. CASE m # 0
    <3>1. m - 1 \in 0 .. N /\ m \in 1 .. N /\ ~(m <= m - 1)
      BY <1>1, <2>2, <2>4
    <3>2. m - 1 \notin T
      BY <2>1, <3>1
    <3> QED
      BY <1>4, <1>7, <2>2, <3>1, <3>2
  <2> QED
    BY <2>3, <2>4
<1>9. Interned(strings, names) = f[N]
  BY <1>1, <1>6, <1>8
<1> QED
  BY <1>3, <1>4, <1>9

(* Interning keeps the ids that were given out and gives every name one. *)
LEMMA InternedProperties ==
    ASSUME NEW S, NEW strings \in Seq(S), NEW names \in Seq(S)
    PROVE  /\ Interned(strings, names) \in Seq(S)
           /\ Continues(Interned(strings, names), strings)
           /\ Distinct(strings) => Distinct(Interned(strings, names))
           /\ \A k \in 1 .. Len(names) :
                 \E i \in 1 .. Len(Interned(strings, names)) : Interned(strings, names)[i] = names[k]
<1> DEFINE N == Len(names)
<1>1. N \in Nat /\ \A n \in 1 .. N : names[n] \in S
  BY ElementOfSeq, LenProperties
<1>2. PICK after \in [0 .. N -> Seq(S)] :
          /\ after[0] = strings
          /\ \A n \in 1 .. N : after[n] = WithName(after[n - 1], names[n])
          /\ Interned(strings, names) = after[N]
  BY InternedSteps
<1> DEFINE Good(n) ==
             /\ Continues(after[n], strings)
             /\ Distinct(strings) => Distinct(after[n])
             /\ \A k \in 1 .. n : \E i \in 1 .. Len(after[n]) : after[n][i] = names[k]
           T == {n \in 0 .. N : ~Good(n)}
<1>3. SUFFICES Good(N)
  BY <1>1, <1>2
<1>4. SUFFICES ASSUME N \in T PROVE FALSE
  BY <1>1
<1>5. PICK m \in T : \A n \in T : m <= n
  <2>1. T \in SUBSET Nat /\ T # {}
    BY <1>4, <1>1
  <2> QED
    BY <2>1, LeastExists
<1>6. m \in 0 .. N /\ ~Good(m)
  OBVIOUS
<1>7. CASE m = 0
  <2>1. Good(0)
    BY <1>2 DEF Continues
  <2> QED
    BY <1>6, <1>7, <2>1
<1>8. CASE m # 0
  <2>1. m - 1 \in 0 .. N /\ m \in 1 .. N /\ Good(m - 1)
    <3> HIDE DEF Good
    <3>1. m - 1 \in 0 .. N /\ m \in 1 .. N /\ ~(m <= m - 1)
      BY <1>1, <1>6, <1>8
    <3>2. m - 1 \notin T
      BY <1>5, <3>1
    <3> QED
      BY <3>1, <3>2
  <2> DEFINE s == after[m - 1]
             t == after[m]
             name == names[m]
  <2>2. s \in Seq(S) /\ t \in Seq(S) /\ name \in S /\ t = WithName(s, name)
    BY <1>1, <1>2, <2>1
  <2> HIDE DEF s, t, name
  <2>3. /\ Continues(t, s)
        /\ Distinct(s) => Distinct(t)
        /\ \E i \in 1 .. Len(t) : t[i] = name
    BY <2>2, WithNameProperties
  <2>4. Len(s) \in Nat /\ Len(t) \in Nat /\ Len(strings) \in Nat
    BY <2>2
  <2>5. /\ Continues(s, strings)
        /\ Distinct(strings) => Distinct(s)
        /\ \A k \in 1 .. m - 1 : \E i \in 1 .. Len(s) : s[i] = names[k]
    BY <2>1 DEF s
  <2>6. Continues(t, strings)
    BY <2>3, <2>4, <2>5 DEF Continues
  <2>7. \A k \in 1 .. m : \E i \in 1 .. Len(t) : t[i] = names[k]
    <3> SUFFICES ASSUME NEW k \in 1 .. m PROVE \E i \in 1 .. Len(t) : t[i] = names[k]
      OBVIOUS
    <3>1. CASE k = m
      BY <2>3, <3>1 DEF name
    <3>2. CASE k \in 1 .. m - 1
      <4>1. PICK i \in 1 .. Len(s) : s[i] = names[k]
        BY <2>5, <3>2
      <4>2. i \in 1 .. Len(t) /\ t[i] = s[i]
        BY <2>3, <2>4 DEF Continues
      <4> QED
        BY <4>1, <4>2
    <3> QED
      BY <2>1, <3>1, <3>2
  <2>8. Good(m)
    BY <2>3, <2>5, <2>6, <2>7 DEF t
  <2> QED
    BY <1>6, <2>8
<1> QED
  BY <1>7, <1>8

(* A pool that is interned again into an empty one is the same pool. *)
LEMMA InternedAfresh ==
    ASSUME NEW S, NEW p \in Seq(S), Distinct(p)
    PROVE  Interned(<< >>, p) = p
<1> DEFINE N == Len(p)
<1>1. N \in Nat /\ << >> \in Seq(S) /\ \A n \in 1 .. N : p[n] \in S
  BY ElementOfSeq, LenProperties
<1>2. PICK after \in [0 .. N -> Seq(S)] :
          /\ after[0] = << >>
          /\ \A n \in 1 .. N : after[n] = WithName(after[n - 1], p[n])
          /\ Interned(<< >>, p) = after[N]
  <2> DEFINE e == << >>
  <2>1. e \in Seq(S)
    BY <1>1
  <2> HIDE DEF e
  <2>2. \E after \in [0 .. N -> Seq(S)] :
          /\ after[0] = e
          /\ \A n \in 1 .. N : after[n] = WithName(after[n - 1], p[n])
          /\ Interned(e, p) = after[N]
    BY <2>1, InternedSteps
  <2> QED
    BY <2>2 DEF e
<1> DEFINE Good(n) == Len(after[n]) = n /\ \A i \in 1 .. n : after[n][i] = p[i]
           T == {n \in 0 .. N : ~Good(n)}
<1>3. SUFFICES Good(N)
  <2>1. ASSUME Good(N) PROVE after[N] = p
    <3>1. after[N] \in Seq(S) /\ Len(after[N]) = Len(p)
            /\ \A i \in 1 .. Len(after[N]) : after[N][i] = p[i]
      BY <1>1, <1>2, <2>1
    <3> QED
      BY <3>1, SeqEqual
  <2> QED
    BY <1>2, <2>1
<1>4. SUFFICES ASSUME N \in T PROVE FALSE
  BY <1>1
<1>5. PICK m \in T : \A n \in T : m <= n
  <2>1. T \in SUBSET Nat /\ T # {}
    BY <1>4, <1>1
  <2> QED
    BY <2>1, LeastExists
<1>6. m \in 0 .. N /\ ~Good(m)
  OBVIOUS
<1>7. CASE m = 0
  <2>1. Good(0)
    BY <1>2
  <2> QED
    BY <1>6, <1>7, <2>1
<1>8. CASE m # 0
  <2>1. m - 1 \in 0 .. N /\ m \in 1 .. N /\ Good(m - 1)
    <3> HIDE DEF Good
    <3>1. m - 1 \in 0 .. N /\ m \in 1 .. N /\ ~(m <= m - 1)
      BY <1>1, <1>6, <1>8
    <3>2. m - 1 \notin T
      BY <1>5, <3>1
    <3> QED
      BY <3>1, <3>2
  <2> DEFINE s == after[m - 1]
             t == after[m]
  <2>2. s \in Seq(S) /\ p[m] \in S /\ t = WithName(s, p[m])
    BY <1>1, <1>2, <2>1
  <2>3. Len(s) = m - 1 /\ \A i \in 1 .. m - 1 : s[i] = p[i]
    BY <2>1
  <2> HIDE DEF s, t
  <2>4. ~Contains(s, p[m])
    <3>1. \A i \in 1 .. m - 1 : i \in 1 .. N /\ i # m
      BY <1>1, <2>1
    <3>2. \A i \in 1 .. m - 1 : p[i] # p[m]
      BY <2>1, <3>1 DEF Distinct
    <3>3. \A i \in 1 .. Len(s) : s[i] # p[m]
      BY <2>3, <3>2
    <3> QED
      BY <3>3 DEF Contains
  <2>5. t = Append(s, p[m])
    BY <2>2, <2>4 DEF WithName
  <2>6. Len(t) = m /\ t[m] = p[m] /\ \A i \in 1 .. m - 1 : t[i] = p[i]
    BY <2>1, <2>2, <2>3, <2>5, AppendProperties
  <2>7. \A i \in 1 .. m : t[i] = p[i]
    <3>1. \A i \in 1 .. m : i = m \/ i \in 1 .. m - 1
      BY <2>1
    <3> QED
      BY <2>6, <3>1
  <2>8. Good(m)
    BY <2>6, <2>7 DEF t
  <2> QED
    BY <1>6, <2>8
<1> QED
  BY <1>7, <1>8

(* A name that was interned has an id, and the id the name. *)
LEMMA IdFound ==
    ASSUME NEW S, NEW s \in Seq(S), NEW name, \E i \in 1 .. Len(s) : s[i] = name
    PROVE  IdOf(s, name) \in 0 .. Len(s) - 1 /\ NameOf(s, IdOf(s, name)) = name
<1>1. DOMAIN s = 1 .. Len(s) /\ Len(s) \in Nat
  BY LenProperties
<1> DEFINE i == CHOOSE j \in DOMAIN s : s[j] = name
<1>2. i \in 1 .. Len(s) /\ s[i] = name
  BY <1>1
<1> HIDE DEF i
<1>3. IdOf(s, name) = i - 1
  BY DEF IdOf, i
<1>4. i - 1 \in 0 .. Len(s) - 1 /\ i - 1 < Len(s) /\ (i - 1) + 1 = i
  BY <1>1, <1>2
<1> QED
  BY <1>2, <1>3, <1>4 DEF NameOf

(* Ids are those of strings. *)
IdsIn(s) == 0 .. Len(s) - 1

(* What the ids of a sequence of names decode to is the names. *)
LEMMA DecodedIds ==
    ASSUME NEW S, NEW s \in Seq(S), NEW names \in Seq(S),
           \A k \in 1 .. Len(names) : \E i \in 1 .. Len(s) : s[i] = names[k]
    PROVE  Ids(s, names) \in Seq(IdsIn(s)) /\ Decoded(s, Ids(s, names)) = names
<1>1. DOMAIN names = 1 .. Len(names) /\ Len(names) \in Nat
  BY LenProperties
<1>2. \A k \in 1 .. Len(names) :
          IdOf(s, names[k]) \in IdsIn(s) /\ NameOf(s, IdOf(s, names[k])) = names[k]
  BY IdFound DEF IdsIn
<1>3. Ids(s, names) = [k \in 1 .. Len(names) |-> IdOf(s, names[k])]
  BY <1>1 DEF Ids
<1>4. Ids(s, names) \in [1 .. Len(names) -> IdsIn(s)]
  BY <1>2, <1>3
<1>5. Ids(s, names) \in Seq(IdsIn(s))
  BY <1>1, <1>4, SeqDef
<1>6. Decoded(s, Ids(s, names)) = [k \in 1 .. Len(names) |-> names[k]]
  BY <1>2, <1>3 DEF Decoded
<1> QED
  BY <1>1, <1>5, <1>6

(* Strings that are added change no name. *)
LEMMA DecodedStays ==
    ASSUME NEW S, NEW s \in Seq(S), NEW t \in Seq(S), Continues(t, s),
           NEW ids \in Seq(IdsIn(s))
    PROVE  ids \in Seq(IdsIn(t)) /\ Decoded(t, ids) = Decoded(s, ids)
<1>1. DOMAIN ids = 1 .. Len(ids) /\ Len(ids) \in Nat /\ Len(s) \in Nat /\ Len(t) \in Nat
        /\ \A k \in DOMAIN ids : ids[k] \in IdsIn(s)
  BY LenProperties, ElementOfSeq
<1>2. IdsIn(s) \subseteq IdsIn(t) /\ \A id \in IdsIn(s) : NameOf(t, id) = NameOf(s, id)
  BY <1>1 DEF IdsIn, NameOf, Continues
<1>3. ids \in Seq(IdsIn(t))
  BY <1>2, SeqMonotonic
<1> QED
  BY <1>1, <1>2, <1>3 DEF Decoded
-----------------------------------------------------------------------------
PoolName == Names \cup {NoName}

Header == [meta : [size : Nat, mtime : Nat], chunks : Nat]

RowsIn(file) == [i \in 1 .. Len(file) - 2 |-> file[i + 2].row]

(* A file that is as long as its header says. *)
Complete(file) == Len(file) >= 2 /\ Len(file) = 2 + file[1].chunks

(* A snapshot file, or one that was cut short: if nothing is missing it    *)
(* holds one of the versions vs of the CSV.                                *)
WellFormed(file, vs) ==
    /\ Len(file) >= 1 => file[1] \in Header
    /\ Len(file) >= 2 =>
          /\ file[2] \in [strings : Seq(PoolName)] /\ Distinct(file[2].strings)
          /\ Len(file) <= 2 + file[1].chunks
          /\ \A i \in 3 .. Len(file) : file[i].row \in IdsIn(file[2].strings)
    /\ Complete(file) => Decoded(file[2].strings, RowsIn(file)) \in vs

(* Some of a sequence's first elements. *)
LEMMA PrefixProperties ==
    ASSUME NEW S, NEW s \in Seq(S), NEW p \in Prefixes(s)
    PROVE  /\ p \in Seq(S) /\ Len(p) \in Nat /\ Len(p) <= Len(s)
           /\ \A i \in 1 .. Len(p) : p[i] = s[i]
           /\ Len(p) = Len(s) => p = s
<1>1. PICK l \in 0 .. Len(s) : p = SubSeq(s, 1, l)
  BY DEF Prefixes
<1>2. p \in Seq(S) /\ Len(p) = l /\ \A i \in 1 .. l : p[i] = s[i]
  BY <1>1
<1>3. Len(p) = Len(s) => p = s
  BY <1>2, SeqEqual
<1> QED
  BY <1>2, <1>3

LEMMA WholePrefix ==
    ASSUME NEW S, NEW s \in Seq(S)
    PROVE  s \in Prefixes(s) /\ << >> \in Prefixes(s)
<1>1. SubSeq(s, 1, Len(s)) = s /\ SubSeq(s, 1, 0) = << >>
  BY SubSeqFull, SubSeqEmpty
<1>2. Len(s) \in 0 .. Len(s) /\ 0 \in 0 .. Len(s)
  BY LenProperties
<1> QED
  BY <1>1, <1>2 DEF Prefixes

(* A file that is cut short holds less, and is seen to be incomplete. *)
LEMMA CutShort ==
    ASSUME NEW S, NEW file \in Seq(S), NEW part \in Prefixes(file), NEW vs,
           WellFormed(file, vs)
    PROVE  /\ part \in Seq(S) /\ WellFormed(part, vs)
           /\ Complete(part) => part = file
<1>1. /\ part \in Seq(S) /\ Len(part) \in Nat /\ Len(file) \in Nat /\ Len(part) <= Len(file)
      /\ \A i \in 1 .. Len(part) : part[i] = file[i]
      /\ Len(part) = Len(file) => part = file
  BY PrefixProperties
<1>2. Len(part) >= 1 => part[1] = file[1] /\ file[1] \in Header
  BY <1>1 DEF WellFormed
<1>3. ASSUME Len(part) >= 2
      PROVE  /\ part[2] = file[2] /\ part[1] = file[1]
             /\ file[1].chunks \in Nat
             /\ part[2] \in [strings : Seq(PoolName)] /\ Distinct(part[2].strings)
             /\ Len(file) <= 2 + file[1].chunks
             /\ \A i \in 3 .. Len(part) : part[i].row \in IdsIn(part[2].strings)
  <2>1. part[2] = file[2] /\ part[1] = file[1] /\ file[1] \in Header /\ Len(file) >= 2
    BY <1>1, <1>2, <1>3
  <2>2. \A i \in 3 .. Len(part) : i \in 3 .. Len(file) /\ part[i] = file[i]
    BY <1>1
  <2> QED
    BY <2>1, <2>2 DEF WellFormed, Header
<1>4. Complete(part) => part = file
  BY <1>1, <1>3 DEF Complete
<1>5. /\ Len(part) >= 1 => part[1] \in Header
      /\ Len(part) >= 2 =>
            /\ part[2] \in [strings : Seq(PoolName)] /\ Distinct(part[2].strings)
            /\ Len(part) <= 2 + part[1].chunks
            /\ \A i \in 3 .. Len(part) : part[i].row \in IdsIn(part[2].strings)
  BY <1>1, <1>2, <1>3
<1>6. Complete(part) => Decoded(part[2].strings, RowsIn(part)) \in vs
  BY <1>4 DEF WellFormed
<1> QED
  BY <1>1, <1>4, <1>5, <1>6 DEF WellFormed

(* What is known of a file remains true when the CSV gets another version. *)
LEMMA MoreVersions ==
    ASSUME NEW file, NEW vs, NEW ws, vs \subseteq ws, WellFormed(file, vs)
    PROVE  WellFormed(file, ws)
BY DEF WellFormed

(* The longest part of the strings that load() can read. *)
LEMMA LongestReadable ==
    ASSUME NEW S, NEW strings \in Seq(S),
           NEW part, part = CHOOSE p \in Prefixes(strings) :
              /\ FitsBuffer(p)
              /\ \A q \in Prefixes(strings) : FitsBuffer(q) => Len(q) <= Len(p)
    PROVE  part \in Seq(S) /\ (FitsBuffer(strings) => part = strings)
<1> DEFINE Longest(p) ==
              /\ FitsBuffer(p)
              /\ \A q \in Prefixes(strings) : FitsBuffer(q) => Len(q) <= Len(p)
           T == {Len(strings) - Len(q) : q \in {p \in Prefixes(strings) : FitsBuffer(p)}}
<1>1. \A q \in Prefixes(strings) : Len(q) \in Nat /\ Len(q) <= Len(strings)
  BY PrefixProperties
<1>2. << >> \in Prefixes(strings) /\ strings \in Prefixes(strings) /\ FitsBuffer(<< >>)
  BY WholePrefix DEF FitsBuffer, ToSet
<1>3. PICK d \in T : \A e \in T : d <= e
  <2>1. Len(strings) \in Nat
    OBVIOUS
  <2>2. T \in SUBSET Nat
    BY <1>1, <2>1
  <2>3. T # {}
    BY <1>2
  <2> QED
    BY <2>2, <2>3, LeastExists
<1>4. PICK p \in Prefixes(strings) : FitsBuffer(p) /\ d = Len(strings) - Len(p)
  OBVIOUS
<1>5. Longest(p)
  <2> SUFFICES ASSUME NEW q \in Prefixes(strings), FitsBuffer(q) PROVE Len(q) <= Len(p)
    BY <1>4
  <2>1. Len(strings) - Len(q) \in T
    OBVIOUS
  <2>2. Len(strings) \in Nat /\ Len(q) \in Nat /\ Len(p) \in Nat
    BY <1>1
  <2>3. Len(strings) - Len(p) <= Len(strings) - Len(q)
    BY <1>3, <1>4, <2>1
  <2> HIDE DEF T
  <2> QED
    BY <2>2, <2>3
<1>6. part \in Prefixes(strings) /\ Longest(part)
  <2> HIDE DEF T
  <2> QED
    BY <1>5
<1>7. part \in Seq(S) /\ Len(part) <= Len(strings) /\ (Len(part) = Len(strings) => part = strings)
  BY <1>6, PrefixProperties
<1>8. FitsBuffer(strings) => Len(strings) <= Len(part)
  BY <1>2, <1>6
<1> QED
  BY <1>7, <1>8
-----------------------------------------------------------------------------
(* The conjuncts of TypeOK, by what they speak of. *)
DiskType ==
    /\ csv \in [content : Contents, mtime : 0 .. lastModified] \cup {Missing}
    /\ lastModified \in 0 .. edits
    /\ edits \in 0 .. MaxEdits
    /\ versions \subseteq Contents

FileType == bin \in Seq(Section) /\ image \in Seq(Section)

StoreType == pool \in Seq(PoolName) /\ rows \in Seq(IdsIn(pool))

ControlType ==
    pc \in ProgramPoints /\ afterDump \in {"index", "menu"} /\ gen \in 0 .. MaxReloads + 1

QueryType ==
    index \subseteq [id : Nat, gen : Nat, row : Nat] /\ defaultUser \in PoolName

(* What the program has read, and not yet thrown away, is nothing or one   *)
(* version of the CSV.                                                     *)
StoreInv ==
    /\ Distinct(pool)
    /\ pc \in {"boot", "loadBinary", "loadCsv", "reload"} => pool = << >> /\ rows = << >>
    /\ pc \in {"boot", "loadBinary", "fallback"} => gen = 0
    /\ pc \in {"dumpOpen", "dumpHeader", "dumpBody", "index", "reindex"} =>
          Decoded(pool, rows) \in versions
    /\ pc = "menu" => Decoded(pool, rows) \in versions \/ rows = << >>
    /\ csv # Missing => csv.content \in versions

FileInv == WellFormed(bin, versions) /\ WellFormed(image, versions)

(* The strengthening of StoreIsOneVersion that is inductive.  It must know *)
(* what the snapshot file may hold, because a boot loads it: a file that   *)
(* is not cut short is one version, and one that is, is seen to be so.     *)
StateInv ==
    DiskType /\ FileType /\ StoreType /\ ControlType /\ QueryType /\ StoreInv /\ FileInv

LEMMA TypeParts ==
    TypeOK <=> DiskType /\ FileType /\ StoreType /\ ControlType /\ QueryType
BY DEF TypeOK, DiskType, FileType, StoreType, ControlType, QueryType, PoolName, IdsIn

LEMMA ContentNames ==
    ASSUME NEW content \in Contents
    PROVE  content \in Seq(PoolName) /\ Len(content) \in Nat
<1>1. content \in Seq(STRING)
  BY ContentsAssumption
<1>2. \A i \in 1 .. Len(content) : content[i] \in ToSet(content)
  BY <1>1 DEF ToSet
<1>3. \A i \in 1 .. Len(content) : content[i] \in PoolName
  BY <1>2 DEF Names, PoolName
<1> QED
  BY <1>1, <1>3

LEMMA MetadataType ==
    ASSUME DiskType
    PROVE  Metadata \in [size : Nat, mtime : Nat]
<1>1. CASE csv = Missing
  BY <1>1 DEF Metadata
<1>2. CASE csv # Missing
  <2>1. csv \in [content : Contents, mtime : 0 .. lastModified] /\ lastModified \in Nat
    BY <1>2 DEF DiskType
  <2>2. Len(csv.content) \in Nat /\ csv.mtime \in Nat
    BY <2>1, ContentNames
  <2> QED
    BY <1>2, <2>2 DEF Metadata
<1> QED
  BY <1>1, <1>2

(* The file that is written is complete, and holds what the store holds. *)
LEMMA ImageProperties ==
    ASSUME DiskType, StoreType
    PROVE  /\ Image \in Seq(Section) /\ Complete(Image)
           /\ Image[1] \in Header /\ Image[1].meta = Metadata
           /\ Decoded(Image[2].strings, RowsIn(Image)) = Decoded(pool, rows)
           /\ Distinct(pool) /\ Decoded(pool, rows) \in versions =>
                 WellFormed(Image, versions)
<1> DEFINE N == Len(rows)
           head == <<[meta |-> Metadata, chunks |-> N], [strings |-> pool]>>
           body == [i \in DOMAIN rows |-> [row |-> rows[i]]]
<1>1. /\ N \in Nat /\ DOMAIN rows = 1 .. N
      /\ \A i \in 1 .. N : rows[i] \in IdsIn(pool) /\ rows[i] \in Nat
  BY LenProperties, ElementOfSeq DEF StoreType, IdsIn
<1>2. head[1] \in Section /\ head[1] \in Header /\ head[2] \in Section
  BY <1>1, MetadataType DEF Section, Header, StoreType, PoolName
<1>3. head \in Seq(Section) /\ Len(head) = 2
  BY <1>2
<1>4. body \in Seq(Section) /\ Len(body) = N
  <2>1. \A i \in 1 .. N : [row |-> rows[i]] \in Section
    BY <1>1 DEF Section
  <2> QED
    BY <1>1, <2>1
<1>5. Image = head \o body
  BY DEF Image
<1>6. /\ Image \in Seq(Section) /\ Len(Image) = 2 + N
      /\ Image[1] = head[1] /\ Image[2] = head[2]
      /\ \A i \in 1 .. N : Image[i + 2] = body[i]
  <2> HIDE DEF head, body
  <2>1. /\ Image \in Seq(Section) /\ Len(Image) = Len(head) + Len(body)
        /\ \A i \in 1 .. Len(head) + Len(body) :
              Image[i] = IF i <= Len(head) THEN head[i] ELSE body[i - Len(head)]
    <3>1. /\ head \o body \in Seq(Section) /\ Len(head \o body) = Len(head) + Len(body)
          /\ \A i \in 1 .. Len(head) + Len(body) :
                (head \o body)[i] = IF i <= Len(head) THEN head[i] ELSE body[i - Len(head)]
      <4>1. head \in Seq(Section) /\ body \in Seq(Section)
        BY <1>3, <1>4
      <4>2. \A a, b \in Seq(Section) :
                /\ a \o b \in Seq(Section) /\ Len(a \o b) = Len(a) + Len(b)
                /\ \A i \in 1 .. Len(a) + Len(b) :
                      (a \o b)[i] = IF i <= Len(a) THEN a[i] ELSE b[i - Len(a)]
        <5> TAKE a, b \in Seq(Section)
        <5> QED
          BY ConcatProperties
      <4> QED
        BY <4>1, <4>2, Zenon
    <3> QED
      BY <1>5, <3>1
  <2>2. \A i \in 1 .. N : i + 2 \in 1 .. 2 + N /\ ~(i + 2 <= 2) /\ (i + 2) - 2 = i
    BY <1>1
  <2>3. \A i \in 1 .. N : Image[i + 2] = body[i]
    BY <1>3, <1>4, <2>1, <2>2
  <2> QED
    BY <1>1, <1>3, <1>4, <2>1, <2>3
<1>7. Image[1].meta = Metadata /\ Image[1].chunks = N /\ Image[2].strings = pool
  BY <1>6
<1>8. \A i \in 1 .. N : Image[i + 2].row = rows[i]
  <2>1. \A i \in 1 .. N : body[i].row = rows[i]
    BY <1>1
  <2> HIDE DEF body
  <2> QED
    BY <1>6, <2>1
<1> HIDE DEF head, body
<1>9. RowsIn(Image) = rows
  <2>1. Len(Image) - 2 = N
    BY <1>1, <1>6
  <2>2. RowsIn(Image) = [i \in 1 .. N |-> rows[i]]
    BY <1>8, <2>1 DEF RowsIn
  <2> QED
    BY <1>1, <2>2 DEF StoreType
<1>10. Complete(Image)
  BY <1>1, <1>6, <1>7 DEF Complete
<1>11. ASSUME Distinct(pool), Decoded(pool, rows) \in versions
       PROVE  WellFormed(Image, versions)
  <2>1. Image[2] \in [strings : Seq(PoolName)]
    BY <1>6 DEF StoreType, head
  <2>2. \A i \in 3 .. Len(Image) : Image[i].row \in IdsIn(pool)
    <3>1. \A i \in 3 .. Len(Image) : i - 2 \in 1 .. N /\ (i - 2) + 2 = i
      BY <1>1, <1>6
    <3> QED
      BY <1>1, <1>8, <3>1
  <2> QED
    BY <1>1, <1>2, <1>6, <1>7, <1>9, <1>11, <2>1, <2>2 DEF WellFormed
<1> QED
  BY <1>2, <1>6, <1>7, <1>9, <1>10, <1>11

(* What a boot reads of a snapshot file that is complete is its content. *)
LEMMA ReadableProperties ==
    ASSUME bin \in Seq(Section), WellFormed(bin, versions)
    PROVE  /\ ReadableStrings \in Seq(PoolName)
           /\ Len(bin) >= 2 /\ FitsBuffer(bin[2].strings) => ReadableStrings = bin[2].strings
           /\ Loadable => Complete(bin) /\ ReadableRows = RowsIn(bin)
           /\ ReadableRows # << >> =>
                 /\ Len(bin) >= 2 /\ FitsBuffer(bin[2].strings)
                 /\ ReadableRows = RowsIn(bin) /\ ReadableRows \in Seq(IdsIn(bin[2].strings))
<1>1. Len(bin) \in Nat
  OBVIOUS
<1>2. ReadableStrings \in Seq(PoolName)
      /\ (Len(bin) >= 2 /\ FitsBuffer(bin[2].strings) => ReadableStrings = bin[2].strings)
  <2>1. CASE Len(bin) < 2
    <3>1. ReadableStrings = << >> /\ ~(Len(bin) >= 2)
      BY <1>1, <2>1 DEF ReadableStrings
    <3>2. << >> \in Seq(PoolName)
      OBVIOUS
    <3> QED
      BY <3>1, <3>2
  <2>2. CASE ~(Len(bin) < 2)
    <3> DEFINE strings == bin[2].strings
               part == CHOOSE p \in Prefixes(strings) :
                  /\ FitsBuffer(p)
                  /\ \A q \in Prefixes(strings) : FitsBuffer(q) => Len(q) <= Len(p)
    <3>1. strings \in Seq(PoolName)
      BY <1>1, <2>2 DEF WellFormed
    <3>2. ReadableStrings = part
      BY <2>2 DEF ReadableStrings
    <3> HIDE DEF strings
    <3>3. \E r : r = part
      OBVIOUS
    <3>4. part \in Seq(PoolName) /\ (FitsBuffer(strings) => part = strings)
      <4>1. ASSUME NEW r, r = part
            PROVE  r \in Seq(PoolName) /\ (FitsBuffer(strings) => r = strings)
        BY <3>1, <4>1, LongestReadable
      <4> QED
        BY <3>3, <4>1
    <3> HIDE DEF part
    <3> QED
      BY <3>2, <3>4 DEF strings
  <2> QED
    BY <2>1, <2>2
<1>3. Loadable => Complete(bin) /\ ReadableRows = RowsIn(bin)
  BY DEF Loadable, Complete, ReadableRows, RowsIn
<1>4. ASSUME ReadableRows # << >>
      PROVE  /\ Len(bin) >= 2 /\ FitsBuffer(bin[2].strings)
             /\ ReadableRows = RowsIn(bin) /\ ReadableRows \in Seq(IdsIn(bin[2].strings))
  <2>1. Len(bin) >= 2 /\ FitsBuffer(bin[2].strings) /\ ReadableRows = RowsIn(bin)
    BY <1>4 DEF ReadableRows, RowsIn
  <2>2. Len(bin) - 2 \in Nat
    BY <1>1, <2>1
  <2>3. \A i \in 1 .. Len(bin) - 2 : bin[i + 2].row \in IdsIn(bin[2].strings)
    <3>1. \A i \in 1 .. Len(bin) - 2 : i + 2 \in 3 .. Len(bin)
      BY <1>1
    <3>2. \A i \in 3 .. Len(bin) : bin[i].row \in IdsIn(bin[2].strings)
      BY <2>1 DEF WellFormed
    <3> QED
      BY <3>1, <3>2
  <2>4. RowsIn(bin) \in [1 .. Len(bin) - 2 -> IdsIn(bin[2].strings)]
    BY <2>3 DEF RowsIn
  <2> QED
    BY <2>1, <2>2, <2>4, SeqDef
<1> QED
  BY <1>2, <1>3, <1>4

(* A file that was loaded is one version of the CSV; of one that was not,  *)
(* the strings and rows that were read are in the store.                   *)
LEMMA LoadBinaryKeepsStore ==
    ASSUME StateInv, LoadBinary
    PROVE  StoreType' /\ Distinct(pool') /\ (Loadable => Decoded(pool', rows') \in versions)
<1>1. pool = << >> /\ rows = << >> /\ bin \in Seq(Section) /\ WellFormed(bin, versions)
  BY DEF LoadBinary, StateInv, StoreInv, FileType, FileInv
<1>2. /\ ReadableStrings \in Seq(PoolName)
      /\ Len(bin) >= 2 /\ FitsBuffer(bin[2].strings) => ReadableStrings = bin[2].strings
      /\ Loadable => Complete(bin) /\ ReadableRows = RowsIn(bin)
      /\ ReadableRows # << >> =>
            /\ Len(bin) >= 2 /\ FitsBuffer(bin[2].strings)
            /\ ReadableRows = RowsIn(bin) /\ ReadableRows \in Seq(IdsIn(bin[2].strings))
  BY <1>1, ReadableProperties
<1>3. pool' = Interned(<< >>, ReadableStrings)
  BY <1>1 DEF LoadBinary
<1>4. pool' \in Seq(PoolName) /\ Distinct(pool')
  <2> DEFINE e == << >>
  <2>1. e \in Seq(PoolName) /\ Distinct(e)
    BY DEF Distinct
  <2> HIDE DEF e
  <2>2. Interned(e, ReadableStrings) \in Seq(PoolName) /\ Distinct(Interned(e, ReadableStrings))
    BY <1>2, <2>1, InternedProperties, Zenon
  <2> QED
    BY <1>3, <2>2 DEF e
<1>5. ASSUME Len(bin) >= 2, FitsBuffer(bin[2].strings)
      PROVE  pool' = bin[2].strings
  <2>1. bin[2].strings \in Seq(PoolName) /\ Distinct(bin[2].strings)
    BY <1>1, <1>5 DEF WellFormed
  <2>2. Interned(<< >>, bin[2].strings) = bin[2].strings
    BY <2>1, InternedAfresh, Zenon
  <2> QED
    BY <1>2, <1>3, <1>5, <2>2
<1>6. rows' = ReadableRows
  <2>1. CASE ReadableRows = << >>
    BY <1>1, <2>1 DEF LoadBinary
  <2>2. CASE ReadableRows # << >>
    <3>1. ReadableRows \in Seq(IdsIn(bin[2].strings))
      BY <1>2, <2>2
    <3>2. << >> \o ReadableRows = ReadableRows
      BY <3>1, ConcatEmptySeq, Zenon
    <3> QED
      BY <1>1, <3>2 DEF LoadBinary
  <2> QED
    BY <2>1, <2>2
<1>7. rows' \in Seq(IdsIn(pool'))
  <2>1. CASE ReadableRows = << >>
    BY <1>6, <2>1
  <2>2. CASE ReadableRows # << >>
    BY <1>2, <1>5, <1>6, <2>2
  <2> QED
    BY <2>1, <2>2
<1>8. ASSUME Loadable PROVE Decoded(pool', rows') \in versions
  <2>1. Complete(bin) /\ rows' = RowsIn(bin) /\ pool' = bin[2].strings
    BY <1>2, <1>5, <1>6, <1>8 DEF Loadable
  <2> QED
    BY <1>1, <2>1 DEF WellFormed
<1> QED
  BY <1>4, <1>7, <1>8 DEF StoreType

(* A CSV that is read into an empty store is what the store then holds. *)
LEMMA ReadCsvKeepsStore ==
    ASSUME DiskType, StoreInv, pool = << >>, rows = << >>, ReadCsv
    PROVE  StoreType' /\ Distinct(pool') /\ Decoded(pool', rows') = csv.content
<1>1. csv # Missing /\ csv.content \in Contents
  BY DEF ReadCsv, DiskType
<1>2. csv.content \in Seq(PoolName)
  BY <1>1, ContentNames
<1> DEFINE names == csv.content
           e == << >>
           strings == Interned(e, names)
<1>3. pool' = strings /\ rows' = << >> \o Ids(pool', names)
  BY DEF ReadCsv
<1>4. names \in Seq(PoolName) /\ e \in Seq(PoolName) /\ Distinct(e)
  BY <1>2 DEF Distinct
<1> HIDE DEF names, e
<1>5. /\ strings \in Seq(PoolName) /\ Distinct(strings)
      /\ \A k \in 1 .. Len(names) : \E i \in 1 .. Len(strings) : strings[i] = names[k]
  <2>1. strings \in Seq(PoolName) /\ (Distinct(e) => Distinct(strings))
    BY <1>4, InternedProperties, Zenon
  <2>2. \A k \in 1 .. Len(names) : \E i \in 1 .. Len(strings) : strings[i] = names[k]
    BY <1>4, InternedProperties
  <2> QED
    BY <1>4, <2>1, <2>2
<1> HIDE DEF strings
<1>6. Ids(strings, names) \in Seq(IdsIn(strings)) /\ Decoded(strings, Ids(strings, names)) = names
  BY <1>4, <1>5, DecodedIds, Zenon
<1>7. << >> \o Ids(strings, names) = Ids(strings, names)
  BY <1>6, ConcatEmptySeq, Zenon
<1> QED
  BY <1>3, <1>5, <1>6, <1>7 DEF StoreType, names

(* A query may add a name; the rows keep theirs. *)
LEMMA QueryKeepsStore ==
    ASSUME StoreType, Distinct(pool), NEW name \in PoolName,
           pool' = Interned(pool, <<name>>), rows' = rows
    PROVE  StoreType' /\ Distinct(pool') /\ Decoded(pool', rows') = Decoded(pool, rows)
<1> DEFINE names == <<name>>
           strings == Interned(pool, names)
<1>1. names \in Seq(PoolName) /\ pool \in Seq(PoolName) /\ rows \in Seq(IdsIn(pool))
  BY DEF StoreType
<1>2. pool' = strings
  OBVIOUS
<1> HIDE DEF names
<1>3. strings \in Seq(PoolName) /\ Distinct(strings) /\ Continues(strings, pool)
  BY <1>1, InternedProperties, Zenon
<1> HIDE DEF strings
<1>4. rows \in Seq(IdsIn(strings)) /\ Decoded(strings, rows) = Decoded(pool, rows)
  BY <1>1, <1>3, DecodedStays, Zenon
<1> QED
  BY <1>2, <1>3, <1>4 DEF StoreType
-----------------------------------------------------------------------------
(* What buildIndices() adds. *)
LEMMA PointerFacts ==
    ASSUME StoreType, gen \in Nat
    PROVE  /\ AllPointers \subseteq [id : Nat, gen : Nat, row : Nat]
           /\ \A p \in AllPointers : p.row \in DOMAIN rows /\ rows[p.row] = p.id
           /\ \A r \in DOMAIN rows : \E p \in AllPointers : p.row = r /\ p.id = rows[r]
<1>1. /\ DOMAIN rows = 1 .. Len(rows)
      /\ \A r \in DOMAIN rows : r \in Nat /\ rows[r] \in Nat /\ rows[r] \in ToSet(rows)
  BY LenProperties, ElementOfSeq DEF StoreType, IdsIn, ToSet
<1>2. ASSUME NEW p \in AllPointers
      PROVE  /\ p \in [id : Nat, gen : Nat, row : Nat]
             /\ p.row \in DOMAIN rows /\ rows[p.row] = p.id
  <2>1. PICK id \in ToSet(rows) : p \in Pointers(id)
    BY DEF AllPointers
  <2>2. /\ p = [id |-> p.id, gen |-> p.gen, row |-> p.row] /\ p.id = id /\ p.gen = gen
        /\ p.row \in DOMAIN rows /\ rows[p.row] = id
    BY <2>1 DEF Pointers
  <2> QED
    BY <1>1, <2>2
<1>3. ASSUME NEW r \in DOMAIN rows
      PROVE  \E p \in AllPointers : p.row = r /\ p.id = rows[r]
  <2> DEFINE p == [id |-> rows[r], gen |-> gen, row |-> r]
  <2>1. p \in Pointers(rows[r])
    BY DEF Pointers
  <2>2. p \in AllPointers
    BY <1>1, <2>1 DEF AllPointers
  <2> QED
    BY <2>2
<1> QED
  BY <1>2, <1>3

(* The default user is the first row's. *)
LEMMA DefaultUserType ==
    ASSUME StoreType, defaultUser \in PoolName, UpdateDefaults
    PROVE  defaultUser' \in PoolName
<1>1. CASE rows = << >>
  BY <1>1 DEF UpdateDefaults
<1>2. CASE rows # << >>
  <2>1. rows[1] \in IdsIn(pool) /\ Len(pool) \in Nat
    BY <1>2 DEF StoreType
  <2>2. rows[1] < Len(pool) => pool[rows[1] + 1] \in PoolName
    <3>1. rows[1] + 1 \in 1 .. Len(pool)
      BY <2>1 DEF IdsIn
    <3> QED
      BY <3>1 DEF StoreType
  <2>3. NameOf(pool, rows[1]) \in PoolName
    BY <2>2 DEF NameOf, PoolName
  <2> QED
    BY <1>2, <2>3 DEF UpdateDefaults
<1> QED
  BY <1>1, <1>2

LEMMA StateInitially == Init => StateInv
<1> SUFFICES ASSUME Init PROVE StateInv
  OBVIOUS
<1>1. PICK content \in Contents :
          csv = [content |-> content, mtime |-> 0] /\ versions = {content}
  BY DEF Init
<1>2. DiskType
  BY <1>1, ContentsAssumption DEF Init, DiskType
<1>3. FileType /\ StoreType
  BY DEF Init, FileType, StoreType
<1>4. ControlType /\ QueryType
  BY ContentsAssumption DEF Init, ControlType, QueryType, ProgramPoints, PoolName
<1>5. StoreInv
  BY <1>1 DEF Init, StoreInv, Distinct
<1>6. FileInv
  BY DEF Init, FileInv, WellFormed, Complete
<1> QED
  BY <1>2, <1>3, <1>4, <1>5, <1>6 DEF StateInv

(* A file that is empty is one that was cut short. *)
LEMMA EmptyFile ==
    ASSUME NEW vs
    PROVE  << >> \in Seq(Section) /\ WellFormed(<< >>, vs)
BY DEF WellFormed, Complete

LEMMA FilesStay ==
    ASSUME FileType, FileInv, UNCHANGED <<bin, versions>>,
           UNCHANGED image \/ image' = << >>
    PROVE  FileType' /\ FileInv'
<1>1. bin' = bin /\ versions' = versions /\ bin' \in Seq(Section) /\ WellFormed(bin', versions')
  BY DEF FileType, FileInv
<1>2. image' \in Seq(Section) /\ WellFormed(image', versions')
  <2>1. CASE UNCHANGED image
    BY <1>1, <2>1 DEF FileType, FileInv
  <2>2. CASE image' = << >>
    BY <2>2, EmptyFile
  <2> QED
    BY <2>1, <2>2
<1> QED
  BY <1>1, <1>2 DEF FileType, FileInv

LEMMA BootKeepsState == StateInv /\ Boot => StateInv'
<1> SUFFICES ASSUME StateInv, Boot PROVE StateInv'
  OBVIOUS
<1> USE DEF StateInv
<1>1. UNCHANGED disk
  BY DEF Boot, Start, CheckSnapshot, LoadBinary, Fallback, LoadCsv, BuildIndices
<1>2. DiskType' /\ FileType' /\ FileInv'
  <2>1. UNCHANGED <<bin, versions>> /\ (UNCHANGED image \/ image' = << >>)
    BY <1>1 DEF disk, Boot, Start, CheckSnapshot, LoadBinary, Fallback, LoadCsv, BuildIndices
  <2> QED
    BY <1>1, <2>1, FilesStay DEF disk, DiskType
<1>3. CASE Start
  <2>1. StoreType' /\ ControlType' /\ QueryType'
    BY <1>3, ContentsAssumption
    DEF Start, StoreType, ControlType, QueryType, ProgramPoints, PoolName
  <2>2. StoreInv'
    BY <1>1, <1>3 DEF Start, disk, StoreInv, Distinct
  <2> QED
    BY <1>2, <2>1, <2>2
<1>4. CASE CheckSnapshot
  <2>1. StoreType' /\ QueryType'
    BY <1>4 DEF CheckSnapshot, store, StoreType, QueryType
  <2>2. ControlType' /\ StoreInv'
    BY <1>1, <1>4 DEF CheckSnapshot, store, disk, ControlType, ProgramPoints, StoreInv
  <2> QED
    BY <1>2, <2>1, <2>2
<1>5. CASE LoadBinary
  <2>1. QueryType' /\ ControlType'
    BY <1>5 DEF LoadBinary, QueryType, ControlType, ProgramPoints
  <2>2. StoreType' /\ Distinct(pool') /\ (Loadable => Decoded(pool', rows') \in versions)
    BY <1>5, LoadBinaryKeepsStore
  <2>3. StoreInv'
    BY <1>1, <1>5, <2>2 DEF LoadBinary, disk, StoreInv
  <2> QED
    BY <1>2, <2>1, <2>2, <2>3
<1>6. CASE Fallback
  <2>1. QueryType'
    BY <1>6 DEF Fallback, QueryType
  <2>2. StoreType' /\ ControlType'
    BY <1>6, ContentsAssumption
    DEF Fallback, ResetStore, StoreInv, StoreType, ControlType, ProgramPoints
  <2>3. StoreInv'
    BY <1>1, <1>6 DEF Fallback, ResetStore, disk, StoreInv, Distinct
  <2> QED
    BY <1>2, <2>1, <2>2, <2>3
<1>7. CASE LoadCsv
  <2>1. QueryType' /\ ControlType'
    BY <1>7 DEF LoadCsv, QueryType, ControlType, ProgramPoints
  <2>2. CASE ReadCsv /\ pc' = "dumpOpen"
    <3>1. StoreType' /\ Distinct(pool') /\ Decoded(pool', rows') = csv.content
      BY <1>7, <2>2, ReadCsvKeepsStore DEF LoadCsv, StoreInv
    <3>2. StoreInv'
      BY <1>1, <1>7, <2>2, <3>1 DEF ReadCsv, disk, StoreInv
    <3> QED
      BY <1>2, <2>1, <3>1, <3>2
  <2>3. CASE csv = Missing /\ pc' = "off" /\ UNCHANGED <<pool, rows>>
    <3>1. StoreType' /\ StoreInv'
      BY <1>1, <1>7, <2>3 DEF disk, StoreType, StoreInv
    <3> QED
      BY <1>2, <2>1, <3>1
  <2> QED
    BY <1>7, <2>2, <2>3 DEF LoadCsv
<1>8. CASE BuildIndices
  <2>1. StoreType' /\ ControlType'
    BY <1>8 DEF BuildIndices, store, StoreType, ControlType, ProgramPoints
  <2>2. StoreInv'
    BY <1>1, <1>8 DEF BuildIndices, store, disk, StoreInv
  <2>3. QueryType'
    <3>1. gen \in Nat
      BY ContentsAssumption DEF ControlType
    <3>2. defaultUser' \in PoolName
      BY <1>8, DefaultUserType DEF BuildIndices, QueryType
    <3> QED
      BY <1>8, <3>1, <3>2, PointerFacts DEF BuildIndices, QueryType
  <2> QED
    BY <1>2, <2>1, <2>2, <2>3
<1> QED
  BY <1>3, <1>4, <1>5, <1>6, <1>7, <1>8 DEF Boot

LEMMA DumpKeepsState == StateInv /\ Dump => StateInv'
<1> SUFFICES ASSUME StateInv, Dump PROVE StateInv'
  OBVIOUS
<1> USE DEF StateInv
<1>1. UNCHANGED <<csv, lastModified, edits, versions, store, index, defaultUser, afterDump>>
  BY DEF Dump, DumpOpen, DumpHeader, DumpBody, disk
<1>2. DiskType' /\ StoreType' /\ QueryType'
  BY <1>1 DEF store, DiskType, StoreType, QueryType
<1>3. ControlType' /\ StoreInv'
  <2>1. pc \in {"dumpOpen", "dumpHeader", "dumpBody"} /\ afterDump \in {"index", "menu"}
          /\ pc' \in {"dumpHeader", "dumpBody", afterDump}
    BY DEF Dump, DumpOpen, DumpHeader, DumpBody, ControlType
  <2> QED
    BY <1>1, <2>1 DEF store, ControlType, ProgramPoints, StoreInv
<1>4. CASE DumpOpen
  <2>1. bin' \in Seq(Section) /\ WellFormed(bin', versions)
    BY <1>4, EmptyFile DEF DumpOpen, FileType, FileInv
  <2>2. FileType' /\ FileInv'
    BY <1>4, <2>1 DEF DumpOpen, FileType, FileInv
  <2> QED
    BY <1>2, <1>3, <2>2
<1>5. CASE DumpHeader
  <2>1. Image \in Seq(Section) /\ WellFormed(Image, versions)
    BY <1>5, ImageProperties DEF DumpHeader, StoreInv
  <2>2. FileType' /\ FileInv'
    BY <1>5, <2>1 DEF DumpHeader, disk, FileType, FileInv
  <2> QED
    BY <1>2, <1>3, <2>2
<1>6. CASE DumpBody
  <2>1. image \in Seq(Section) /\ WellFormed(image, versions) /\ bin' \in Prefixes(image)
    BY <1>6 DEF DumpBody, FileType, FileInv
  <2>2. bin' \in Seq(Section) /\ WellFormed(bin', versions)
    BY <2>1, CutShort
  <2>3. FileType' /\ FileInv'
    BY <1>6, <2>2 DEF DumpBody, FileType, FileInv
  <2> QED
    BY <1>2, <1>3, <2>3
<1> QED
  BY <1>4, <1>5, <1>6 DEF Dump

LEMMA MenuKeepsState == StateInv /\ Menu => StateInv'
<1> SUFFICES ASSUME StateInv, Menu PROVE StateInv'
  OBVIOUS
<1> USE DEF StateInv
<1>1. UNCHANGED disk /\ UNCHANGED image
  BY DEF Menu, ForceReload, Reload, Reindex, Exit
<1>2. DiskType' /\ FileType' /\ FileInv'
  <2>1. UNCHANGED <<bin, versions>>
    BY <1>1 DEF disk
  <2> QED
    BY <1>1, <2>1, FilesStay DEF disk, DiskType
<1>3. CASE ForceReload
  <2>1. StoreType' /\ QueryType' /\ ControlType'
    BY <1>3, ContentsAssumption
    DEF ForceReload, ResetStore, StoreType, QueryType, ControlType, ProgramPoints
  <2>2. StoreInv'
    BY <1>1, <1>3 DEF ForceReload, ResetStore, disk, StoreInv, Distinct
  <2> QED
    BY <1>2, <2>1, <2>2
<1>4. CASE Reload
  <2>1. QueryType' /\ ControlType'
    BY <1>4 DEF Reload, QueryType, ControlType, ProgramPoints
  <2>2. CASE ReadCsv /\ pc' = "reindex"
    <3>1. StoreType' /\ Distinct(pool') /\ Decoded(pool', rows') = csv.content
      BY <1>4, <2>2, ReadCsvKeepsStore DEF Reload, StoreInv
    <3>2. StoreInv'
      BY <1>1, <1>4, <2>2, <3>1 DEF ReadCsv, disk, StoreInv
    <3> QED
      BY <1>2, <2>1, <3>1, <3>2
  <2>3. CASE csv = Missing /\ pc' = "menu" /\ UNCHANGED <<pool, rows>>
    <3>1. StoreType' /\ StoreInv'
      BY <1>1, <1>4, <2>3 DEF Reload, disk, StoreType, StoreInv
    <3> QED
      BY <1>2, <2>1, <3>1
  <2> QED
    BY <1>4, <2>2, <2>3 DEF Reload
<1>5. CASE Reindex
  <2>1. StoreType' /\ ControlType'
    BY <1>5 DEF Reindex, store, StoreType, ControlType, ProgramPoints
  <2>2. StoreInv'
    BY <1>1, <1>5 DEF Reindex, store, disk, StoreInv
  <2>3. QueryType'
    <3>1. gen \in Nat
      BY ContentsAssumption DEF ControlType
    <3>2. defaultUser' \in PoolName
      BY <1>5, DefaultUserType DEF Reindex, QueryType
    <3> QED
      BY <1>5, <3>1, <3>2, PointerFacts DEF Reindex, QueryType
  <2> QED
    BY <1>2, <2>1, <2>2, <2>3
<1>6. CASE Exit
  <2>1. StoreType' /\ QueryType' /\ ControlType'
    BY <1>6 DEF Exit, store, StoreType, QueryType, ControlType, ProgramPoints
  <2>2. StoreInv'
    BY <1>1, <1>6 DEF Exit, store, disk, StoreInv
  <2> QED
    BY <1>2, <2>1, <2>2
<1> QED
  BY <1>3, <1>4, <1>5, <1>6 DEF Menu

LEMMA QueryKeepsState ==
    ASSUME StateInv, NEW name \in Names \cup {defaultUser}, Query(name)
    PROVE  StateInv'
<1> USE DEF StateInv
<1>1. UNCHANGED <<disk, rows, gen, pc, index, defaultUser, image, afterDump>>
  BY DEF Query
<1>2. UNCHANGED <<csv, lastModified, edits, versions, bin>>
  BY <1>1 DEF disk
<1>3. DiskType' /\ FileType' /\ FileInv'
  BY <1>1, <1>2, FilesStay DEF DiskType
<1>4. QueryType' /\ ControlType'
  BY <1>1 DEF QueryType, ControlType
<1>5. StoreType' /\ Distinct(pool') /\ Decoded(pool', rows') = Decoded(pool, rows)
  <2>1. name \in PoolName
    BY DEF PoolName, QueryType
  <2> QED
    BY <1>1, <2>1, QueryKeepsStore DEF Query, StoreInv
<1>6. StoreInv'
  BY <1>1, <1>2, <1>5 DEF Query, StoreInv
<1> QED
  BY <1>3, <1>4, <1>5, <1>6

LEMMA CrashKeepsState == StateInv /\ Crash => StateInv'
<1> SUFFICES ASSUME StateInv, Crash PROVE StateInv'
  OBVIOUS
<1> USE DEF StateInv
<1>1. /\ UNCHANGED <<csv, lastModified, edits, versions, store, index, defaultUser, image,
                     afterDump>>
      /\ pc' = "off" /\ (bin' = bin \/ bin' \in Prefixes(image))
  BY DEF Crash
<1>2. DiskType' /\ StoreType' /\ QueryType' /\ ControlType'
  BY <1>1 DEF store, DiskType, StoreType, QueryType, ControlType, ProgramPoints
<1>3. StoreInv'
  BY <1>1 DEF store, StoreInv
<1>4. FileType' /\ FileInv'
  <2>1. image \in Seq(Section) /\ WellFormed(image, versions)
          /\ bin \in Seq(Section) /\ WellFormed(bin, versions)
    BY DEF FileType, FileInv
  <2>2. bin' \in Seq(Section) /\ WellFormed(bin', versions)
    <3>1. CASE bin' = bin
      BY <2>1, <3>1
    <3>2. CASE bin' \in Prefixes(image)
      BY <2>1, <3>2, CutShort
    <3> QED
      BY <1>1, <3>1, <3>2
  <2> QED
    BY <1>1, <2>1, <2>2 DEF FileType, FileInv
<1> QED
  BY <1>2, <1>3, <1>4

(* Another program gives the CSV one version more, or takes it away. *)
LEMMA CsvChangeKeepsState ==
    ASSUME StateInv, (\E content \in Contents : Edit(content)) \/ Delete
    PROVE  StateInv'
<1> USE DEF StateInv
<1>1. /\ UNCHANGED <<bin, store, pc, index, defaultUser, image, afterDump>>
      /\ edits < MaxEdits /\ edits' = edits + 1
      /\ versions \subseteq versions'
  BY DEF Edit, Delete, CsvMayChange
<1>2. FileType' /\ StoreType' /\ QueryType' /\ ControlType'
  BY <1>1 DEF store, FileType, StoreType, QueryType, ControlType
<1>3. FileInv'
  <2>1. WellFormed(bin, versions') /\ WellFormed(image, versions')
    BY <1>1, MoreVersions DEF FileInv
  <2> QED
    BY <1>1, <2>1 DEF FileInv
<1>4. DiskType' /\ (csv' # Missing => csv'.content \in versions')
  <2>1. edits \in Nat /\ lastModified \in 0 .. edits /\ edits' \in 0 .. MaxEdits
    BY <1>1, ContentsAssumption DEF DiskType
  <2>2. ASSUME NEW content \in Contents, Edit(content)
        PROVE  DiskType' /\ csv'.content \in versions'
    <3>1. lastModified' \in {lastModified, lastModified + 1}
      BY <2>2 DEF Edit
    <3>2. lastModified' \in 0 .. edits' /\ lastModified' \in 0 .. lastModified'
      BY <1>1, <2>1, <3>1
    <3> QED
      BY <2>1, <2>2, <3>2 DEF Edit, DiskType
  <2>3. CASE Delete
    <3>1. lastModified' \in 0 .. edits'
      BY <1>1, <2>1, <2>3 DEF Delete
    <3> QED
      BY <2>1, <2>3, <3>1 DEF Delete, DiskType
  <2> QED
    BY <2>2, <2>3
<1>5. StoreInv'
  BY <1>1, <1>4 DEF store, StoreInv
<1> QED
  BY <1>2, <1>3, <1>4, <1>5

LEMMA StateInvariant == Spec => []StateInv
<1>1. StateInv /\ [Next]_vars => StateInv'
  <2> SUFFICES ASSUME StateInv, [Next]_vars PROVE StateInv'
    OBVIOUS
  <2>1. CASE UNCHANGED vars
    <3>1. UNCHANGED <<csv, lastModified, edits, versions, bin, pc, pool, rows, gen, index,
                      defaultUser, image, afterDump>>
      BY <2>1 DEF vars, disk, store
    <3>2. DiskType' /\ FileType' /\ FileInv'
      BY <3>1, FilesStay DEF StateInv, DiskType
    <3> QED
      BY <3>1, <3>2 DEF StateInv, StoreType, ControlType, QueryType, StoreInv
  <2> QED
    BY <2>1, BootKeepsState, DumpKeepsState, MenuKeepsState, QueryKeepsState,
       CrashKeepsState, CsvChangeKeepsState DEF Next
<1> QED
  BY <1>1, StateInitially, PTL DEF Spec

(* Type correctness: in particular, every row's id is the id of a string   *)
(* of the pool, after every load, failed load, query and reload.           *)
THEOREM TypeCorrect == Spec => []TypeOK
<1>1. StateInv => TypeOK
  BY TypeParts DEF StateInv
<1> QED
  BY <1>1, StateInvariant, PTL

(* What the store holds at the menu is one version of the CSV, from its    *)
(* first row to its last, whatever crashes, full disks and edits left in   *)
(* the snapshot file; only a reload that failed leaves nothing.            *)
THEOREM StoreHoldsOneVersion == Spec => []StoreIsOneVersion
<1>1. StateInv => StoreIsOneVersion
  BY DEF StateInv, StoreInv, StoreIsOneVersion, Loaded, Emptied
<1> QED
  BY <1>1, StateInvariant, PTL

(* A journey shows exactly the rows of the name asked for: ids stand for   *)
(* names one to one, and the index holds one pointer for each row.         *)
THEOREM JourneysAreExact == Spec => []JourneysExact
<1>1. StateInv /\ IndexInv => JourneysExact
  <2> SUFFICES ASSUME StateInv, IndexInv, pc = "menu", rows # << >>,
                      NEW id \in IdsIn(pool)
               PROVE  {p.row : p \in {q \in index : q.id = id}} =
                          {r \in DOMAIN rows : Decoded(pool, rows)[r] = NameOf(pool, id)}
    BY DEF JourneysExact, IdsIn
  <2>1. index = AllPointers /\ gen \in Nat /\ StoreType /\ Distinct(pool)
    BY ContentsAssumption DEF IndexInv, Indexed, StateInv, ControlType, StoreInv
  <2>2. /\ \A p \in index : p.row \in DOMAIN rows /\ rows[p.row] = p.id
        /\ \A r \in DOMAIN rows : \E p \in index : p.row = r /\ p.id = rows[r]
    BY <2>1, PointerFacts
  <2>3. {p.row : p \in {q \in index : q.id = id}} = {r \in DOMAIN rows : rows[r] = id}
    BY <2>2
  <2>4. \A r \in DOMAIN rows : rows[r] \in IdsIn(pool)
    BY <2>1 DEF StoreType
  <2>5. ASSUME NEW i \in IdsIn(pool)
        PROVE  NameOf(pool, i) = NameOf(pool, id) <=> i = id
    <3>1. Len(pool) \in Nat /\ i + 1 \in 1 .. Len(pool) /\ id + 1 \in 1 .. Len(pool)
            /\ i \in Nat /\ id \in Nat /\ i < Len(pool) /\ id < Len(pool)
      BY <2>1 DEF StoreType, IdsIn
    <3>2. NameOf(pool, i) = pool[i + 1] /\ NameOf(pool, id) = pool[id + 1]
      BY <3>1 DEF NameOf
    <3>3. pool[i + 1] = pool[id + 1] => i + 1 = id + 1
      BY <2>1, <3>1 DEF Distinct
    <3> QED
      BY <3>1, <3>2, <3>3
  <2>6. \A r \in DOMAIN rows : Decoded(pool, rows)[r] = NameOf(pool, rows[r])
    BY DEF Decoded
  <2> QED
    BY <2>3, <2>4, <2>5, <2>6
<1> QED
  BY <1>1, StateInvariant, IndexInvariant, PTL
-----------------------------------------------------------------------------
(* The points from which the program dumps what it has read of the CSV:    *)
(* the metadata of the CSV is read at the last of them.                    *)
LoadedToDump == {"reindex", "dumpOpen", "dumpHeader"}

(* A complete snapshot that bears the time of the CSV has its content.     *)
Fresh(file, c, time) ==
    Complete(file) =>
        /\ file[1].meta.mtime <= time
        /\ c # Missing /\ file[1].meta.mtime = c.mtime =>
              Decoded(file[2].strings, RowsIn(file)) = c.content

(* The strengthening of SnapshotIsFresh that is inductive: so does the     *)
(* file that is being written, and what is about to be dumped is the CSV   *)
(* as it is.                                                               *)
FreshInv ==
    /\ Fresh(bin, csv, lastModified)
    /\ pc = "dumpBody" => Fresh(image, csv, lastModified)
    /\ pc \in LoadedToDump => csv # Missing /\ Decoded(pool, rows) = csv.content

(* A snapshot that is judged fresh is the CSV's present content, provided  *)
(* that no two versions of the CSV have one modification time and that the *)
(* CSV does not change between being read and being dumped, from loadCsv   *)
(* or reload to the header of the snapshot.                                *)
THEOREM FreshSnapshots ==
    ASSUME ClockAdvances, Editable \cap LoadedToDump = {}
    PROVE  Spec => []SnapshotIsFresh
<1>1. Init => FreshInv
  BY DEF Init, FreshInv, Fresh, Complete, LoadedToDump
<1>2. StateInv /\ FreshInv /\ [Next]_vars => FreshInv'
  <2> SUFFICES ASSUME StateInv, FreshInv, [Next]_vars PROVE FreshInv'
    OBVIOUS
  <2> USE DEF FreshInv
  <2>1. ASSUME UNCHANGED <<bin, csv, lastModified>>, pc' \notin LoadedToDump \cup {"dumpBody"}
        PROVE  FreshInv'
    BY <2>1
  <2>2. ASSUME UNCHANGED <<csv, lastModified>>, bin' \in Prefixes(image), pc = "dumpBody",
               pc' \notin LoadedToDump \cup {"dumpBody"}
        PROVE  FreshInv'
    <3>1. Complete(bin') => bin' = image
      BY <2>2, CutShort DEF StateInv, FileType, FileInv
    <3>2. Fresh(bin', csv, lastModified)
      BY <2>2, <3>1 DEF Fresh
    <3> QED
      BY <2>2, <3>2
  <2>3. CASE Boot
    <3>1. CASE LoadCsv
      <4>1. CASE ReadCsv
        <5>1. UNCHANGED <<bin, csv, lastModified>> /\ pc' # "dumpBody"
          BY <3>1 DEF LoadCsv, disk
        <5>2. csv # Missing /\ Decoded(pool', rows') = csv.content
          BY <3>1, <4>1, ReadCsvKeepsStore DEF LoadCsv, ReadCsv, StateInv, StoreInv
        <5> QED
          BY <5>1, <5>2
      <4>2. CASE pc' = "off"
        BY <2>1, <3>1, <4>2 DEF LoadCsv, disk, LoadedToDump
      <4> QED
        BY <3>1, <4>1, <4>2 DEF LoadCsv
    <3>2. CASE ~LoadCsv
      <4>1. UNCHANGED <<bin, csv, lastModified>>
              /\ pc' \in {"boot", "loadBinary", "loadCsv", "index", "fallback", "menu"}
        BY <2>3, <3>2
        DEF Boot, Start, CheckSnapshot, LoadBinary, Fallback, BuildIndices, disk
      <4> QED
        BY <2>1, <4>1 DEF LoadedToDump
    <3> QED
      BY <3>1, <3>2
  <2>4. CASE Dump
    <3>1. CASE DumpOpen
      BY <2>1, <3>1 DEF DumpOpen, store, StateInv, ControlType, Fresh, Complete, LoadedToDump
    <3>2. CASE DumpHeader
      <4>1. UNCHANGED <<bin, csv, lastModified, pool, rows>>
        BY <3>2 DEF DumpHeader, disk, store
      <4>2. CASE image' = Image /\ pc' = "dumpBody"
        <5>1. Fresh(Image, csv, lastModified)
          <6>1. /\ Image[1].meta = Metadata
                /\ Decoded(Image[2].strings, RowsIn(Image)) = csv.content
            BY <3>2, ImageProperties DEF DumpHeader, LoadedToDump, StateInv
          <6>2. Metadata.mtime = csv.mtime /\ csv.mtime <= lastModified
            BY <3>2 DEF DumpHeader, LoadedToDump, Metadata, StateInv, DiskType
          <6> QED
            BY <6>1, <6>2 DEF Fresh
        <5> QED
          BY <4>1, <4>2, <5>1 DEF LoadedToDump
      <4>3. CASE pc' = afterDump
        BY <2>1, <4>1, <4>3 DEF StateInv, ControlType, LoadedToDump
      <4> QED
        BY <3>2, <4>2, <4>3 DEF DumpHeader
    <3>3. CASE DumpBody
      BY <2>2, <3>3 DEF DumpBody, StateInv, ControlType, LoadedToDump
    <3> QED
      BY <2>4, <3>1, <3>2, <3>3 DEF Dump
  <2>5. CASE Menu
    <3>1. CASE Reload
      <4>1. CASE ReadCsv
        <5>1. UNCHANGED <<bin, csv, lastModified>> /\ pc' # "dumpBody"
          BY <3>1 DEF Reload, disk
        <5>2. csv # Missing /\ Decoded(pool', rows') = csv.content
          BY <3>1, <4>1, ReadCsvKeepsStore DEF Reload, ReadCsv, StateInv, StoreInv
        <5> QED
          BY <5>1, <5>2
      <4>2. CASE pc' = "menu"
        BY <2>1, <3>1, <4>2 DEF Reload, disk, LoadedToDump
      <4> QED
        BY <3>1, <4>1, <4>2 DEF Reload
    <3>2. CASE Reindex
      BY <3>2 DEF Reindex, disk, store, LoadedToDump
    <3>3. CASE ForceReload \/ Exit
      BY <2>1, <3>3 DEF ForceReload, Exit, disk, LoadedToDump
    <3> QED
      BY <2>5, <3>1, <3>2, <3>3 DEF Menu
  <2>6. ASSUME NEW name \in Names \cup {defaultUser}, Query(name)
        PROVE  FreshInv'
    BY <2>1, <2>6 DEF Query, disk, LoadedToDump
  <2>7. CASE Crash
    BY <2>1, <2>2, <2>7 DEF Crash, LoadedToDump
  <2>8. ASSUME NEW content \in Contents, Edit(content)
        PROVE  FreshInv'
    <3>1. /\ csv'.mtime = lastModified + 1 /\ lastModified' = lastModified + 1
          /\ UNCHANGED <<bin, image, pc>> /\ pc \notin LoadedToDump
      BY <2>8 DEF Edit, CsvMayChange
    <3>2. lastModified \in Nat
      BY ContentsAssumption DEF StateInv, DiskType
    <3>3. ASSUME NEW file, Fresh(file, csv, lastModified),
                 Complete(file) => file[1].meta.mtime \in Nat
          PROVE  Fresh(file, csv', lastModified')
      BY <3>1, <3>2, <3>3 DEF Fresh
    <3>4. ASSUME NEW file, WellFormed(file, versions)
          PROVE  Complete(file) => file[1].meta.mtime \in Nat
      <4>1. Complete(file) => file[1] \in Header
        BY <3>4 DEF WellFormed, Complete
      <4> QED
        BY <4>1 DEF Header
    <3> QED
      BY <3>1, <3>3, <3>4 DEF StateInv, FileInv
  <2>9. CASE Delete
    <3>1. csv' = Missing /\ UNCHANGED <<bin, image, pc, lastModified>> /\ pc \notin LoadedToDump
      BY <2>9 DEF Delete, CsvMayChange
    <3> QED
      BY <3>1 DEF Fresh
  <2>10. CASE UNCHANGED vars
    BY <2>10 DEF vars, disk, store
  <2> QED
    BY <2>3, <2>4, <2>5, <2>6, <2>7, <2>8, <2>9, <2>10 DEF Next
<1>3. StateInv /\ FreshInv => SnapshotIsFresh
  <2> SUFFICES ASSUME StateInv, FreshInv, IsValid, Loadable
               PROVE  Decoded(bin[2].strings, ReadableRows) = csv.content
    BY DEF SnapshotIsFresh
  <2>1. Complete(bin) /\ ReadableRows = RowsIn(bin)
    BY ReadableProperties DEF StateInv, FileType, FileInv
  <2>2. csv # Missing /\ bin[1].meta.mtime = csv.mtime
    BY DEF IsValid, Metadata
  <2> QED
    BY <2>1, <2>2 DEF FreshInv, Fresh
<1> QED
  BY <1>1, <1>2, <1>3, StateInvariant, PTL DEF Spec
=============================================================================
