---------------------------- MODULE SlidingWindow ----------------------------
(***************************************************************************)
(* What the two ring buffers of anomaly/RingBuffer.h promise the rules of  *)
(* the anomaly detector: a window is the sequence of the last Capacity     *)
(* events pushed since the last clear, oldest first, and a rule asks       *)
(* whether the window is full and its oldest event is at most a number of  *)
(* seconds old, and how many different values it holds.                    *)
(*                                                                         *)
(* RingBuffer (timestamps only) is the case of one value.  The operators   *)
(* take the capacity, a template parameter of the code, as an argument:    *)
(* the detector uses windows of several capacities.                        *)
(***************************************************************************)
EXTENDS Integers, Sequences, FiniteSets

EmptyWindow == << >>

Pushed(capacity, window, event) ==
    Append(IF Len(window) < capacity THEN window ELSE Tail(window), event)

IsFull(capacity, window) == Len(window) = capacity

(* The answer compares against the oldest event, whatever the order of the *)
(* timestamps: nothing in the code keeps a window sorted by time.          *)
Breached(capacity, window, now, seconds) ==
    /\ IsFull(capacity, window)
    /\ now - window[1].ts <= seconds

Unique(window) == Cardinality({window[i].value : i \in DOMAIN window})
=============================================================================
