------------------------------ MODULE Interning ------------------------------
(***************************************************************************)
(* The string pool as its callers see it: a sequence without repetition in *)
(* which the string of id i has position i + 1.  StringPool is shown to    *)
(* implement such a dictionary.                                            *)
(***************************************************************************)
EXTENDS Integers, Sequences, SequencesExt

CONSTANT NoName     \* "": getString() of an id that was never given out

(* getOrCreateId() *)
WithName(strings, name) == IF Contains(strings, name) THEN strings ELSE Append(strings, name)

(* Mutant of Interned: the lookup forgotten. *)
InternedAgain(strings, names) == strings \o names

(* getOrCreateId() on each name in turn. *)
Interned(strings, names) ==
    LET after[n \in 0 .. Len(names)] ==
            IF n = 0 THEN strings ELSE WithName(after[n - 1], names[n])
    IN  after[Len(names)]

IdOf(strings, name) == (CHOOSE i \in DOMAIN strings : strings[i] = name) - 1

NameOf(strings, id) == IF id < Len(strings) THEN strings[id + 1] ELSE NoName
=============================================================================
