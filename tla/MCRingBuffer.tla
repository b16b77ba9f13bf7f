---------------------------- MODULE MCRingBuffer ----------------------------
(* RingBuffer with three slots, timestamps that may go backwards and two   *)
(* values: every wrap-around, every clear and every content of the fresh   *)
(* array.                                                                  *)
EXTENDS RingBuffer

MCTimes == 0 .. 2
MCWindows == {0, 1}
=============================================================================
