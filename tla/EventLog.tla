------------------------------ MODULE EventLog ------------------------------
(***************************************************************************)
(* The abstract specification of storage, indices and queries: a log of    *)
(* entries, and the question last asked about it with its answer.          *)
(***************************************************************************)
EXTENDS Integers, Sequences, SequencesExt

CONSTANTS
    Entries,        \* the log entries
    Times,          \* the timestamps asked about
    Enter,          \* an end of the range that is not given
    DEFAULT_END,    \* the last time that is asked about without an end
    PageSize,       \* rows the pager shows before it asks whether to go on
    TopSize,        \* how many resources a ranking has
    None            \* no question, no answer

VARIABLES log, question, answer

Users == {e.userId : e \in Entries}
Resources == {e.resourceId : e \in Entries}

(* The range is given by its ends, in either order.  Without a start it    *)
(* begins at time 0; without an end it is not open, but ends at a fixed    *)
(* time, and if the start is later, it is the time before the start.       *)
InRange(e, from, to) ==
    LET start == IF from = Enter THEN 0 ELSE from
        end == IF to = Enter THEN DEFAULT_END ELSE to
    IN  e.timestamp \in (start .. end) \cup (end .. start)

Init ==
    /\ log = << >>
    /\ question = None
    /\ answer = None

Insert(e) ==
    /\ log' = Append(log, e)
    /\ UNCHANGED <<question, answer>>

Reset ==
    /\ log' = << >>
    /\ UNCHANGED <<question, answer>>

(* The order of time, and of the log if time is equal. *)
Earlier(i, j) ==
    \/ log[i].timestamp < log[j].timestamp
    \/ log[i].timestamp = log[j].timestamp /\ i < j

(* The entries at some positions of the log in this order: the one at      *)
(* place i has i - 1 before it.                                            *)
History(positions) ==
    [i \in 1 .. Cardinality(positions) |->
        log[CHOOSE p \in positions : Cardinality({q \in positions : Earlier(q, p)}) = i - 1]]

(* All rows of a history, or the pages after which its reader stopped. *)
Shown(history) ==
    {[rows |-> p] : p \in {history} \cup
        {q \in Prefixes(history) : q # << >> /\ Len(q) % PageSize = 0}}

UserJourney(user, from, to) ==
    /\ question' = <<"user", user, from, to>>
    /\ answer' \in Shown(History({i \in DOMAIN log :
                            log[i].userId = user /\ InRange(log[i], from, to)}))
    /\ UNCHANGED log

ResourceJourney(resource, from, to) ==
    /\ question' = <<"resource", resource, from, to>>
    /\ answer' \in Shown(History({i \in DOMAIN log :
                            log[i].resourceId = resource /\ InRange(log[i], from, to)}))
    /\ UNCHANGED log

Accesses(resource, from, to) ==
    Cardinality({i \in DOMAIN log : log[i].resourceId = resource /\ InRange(log[i], from, to)})

(* A ranking holds as many resources as were accessed, but at most         *)
(* TopSize; their counts are right, none occurs twice, and none stands     *)
(* behind one with fewer accesses, nor does a resource that is left out.   *)
Rankings(from, to) ==
    LET count(r) == Accesses(r, from, to)
        nodes == {[resourceId |-> r, count |-> count(r)] :
                     r \in {x \in Resources : count(x) > 0}}
        size == Min({Cardinality(nodes), TopSize})
    IN  {ranking \in [1 .. size -> nodes] :
            /\ Cardinality(ToSet(ranking)) = size
            /\ \A i, j \in 1 .. size : i < j => ranking[i].count >= ranking[j].count
            /\ \A n \in nodes \ ToSet(ranking), i \in 1 .. size :
                  n.count <= ranking[i].count}

Top10Resources(from, to) ==
    /\ question' = <<"top", from, to>>
    /\ answer' \in {[ranking |-> r] : r \in Rankings(from, to)}
    /\ UNCHANGED log

(* The answer has been read. *)
ShowMenu ==
    /\ question' = None
    /\ answer' = None
    /\ UNCHANGED log

Next ==
    \/ \E e \in Entries : Insert(e)
    \/ Reset
    \/ ShowMenu
    \/ \E from, to \in Times \cup {Enter} :
          \/ \E user \in Users : UserJourney(user, from, to)
          \/ \E resource \in Resources : ResourceJourney(resource, from, to)
          \/ Top10Resources(from, to)

Spec == Init /\ [][Next]_<<log, question, answer>>
=============================================================================
