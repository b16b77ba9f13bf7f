----------------------------- MODULE EventWindow -----------------------------
(***************************************************************************)
(* The abstract specification of one ring buffer: a sliding window and the *)
(* last answer it gave.  RingBuffer is shown to implement it.              *)
(***************************************************************************)
EXTENDS SlidingWindow

CONSTANTS
    Capacity,   \* CAPACITY of the template
    Times,      \* the timestamps pushed and asked about
    Values,     \* the values pushed (devices, resources, countries, ...)
    Windows,    \* the lengths in seconds a caller asks about
    NoAnswer    \* the answer before any question

VARIABLES
    window,     \* the last events pushed since the last clear
    answer      \* the last question and what it returned

Event == [ts : Times, value : Values]

Init ==
    /\ window = EmptyWindow
    /\ answer = NoAnswer

Push(event) ==
    /\ window' = Pushed(Capacity, window, event)
    /\ UNCHANGED answer

Clear ==
    /\ window' = EmptyWindow
    /\ UNCHANGED answer

Ask(now, seconds) ==
    /\ answer' = [now      |-> now,
                  seconds  |-> seconds,
                  breached |-> Breached(Capacity, window, now, seconds),
                  unique   |-> Unique(window)]
    /\ UNCHANGED window

Next ==
    \/ \E event \in Event : Push(event)
    \/ Clear
    \/ \E now \in Times, seconds \in Windows : Ask(now, seconds)

Spec == Init /\ [][Next]_<<window, answer>>
=============================================================================
