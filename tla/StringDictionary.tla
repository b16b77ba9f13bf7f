-------------------------- MODULE StringDictionary --------------------------
(***************************************************************************)
(* The abstract specification of the string pool: every string has the id  *)
(* of its first occurrence, ids are given out from 0 without gaps, and     *)
(* neither is ever changed.  strings[id + 1] is the string of an id.       *)
(***************************************************************************)
EXTENDS Integers, Sequences

CONSTANTS
    Strings,        \* the strings that occur in columns and queries
    NoString,       \* what getString() gives for an id that was never given out
    NoAnswer        \* the answer before any call

VARIABLES strings, answer

IdsOf(string) == {id \in 0 .. Len(strings) - 1 : strings[id + 1] = string}

Init ==
    /\ strings = << >>
    /\ answer = NoAnswer

GetOrCreateId(string) ==
    \/ /\ \E id \in IdsOf(string) : answer' = [string |-> string, id |-> id]
       /\ UNCHANGED strings
    \/ /\ IdsOf(string) = {}
       /\ strings' = Append(strings, string)
       /\ answer' = [string |-> string, id |-> Len(strings)]

GetString(id) ==
    /\ answer' = [string |-> IF id < Len(strings) THEN strings[id + 1] ELSE NoString,
                  id |-> id]
    /\ UNCHANGED strings

Size ==
    /\ answer' = [size |-> Len(strings)]
    /\ UNCHANGED strings

Next ==
    \/ \E string \in Strings : GetOrCreateId(string)
    \/ \E id \in 0 .. Len(strings) : GetString(id)
    \/ Size

Spec == Init /\ [][Next]_<<strings, answer>>
=============================================================================
