---------------------------- MODULE MCSemaphore -----------------------------
(* Values of Semaphore's constants for TLC.                                *)
EXTENDS Semaphore, TLC

CONSTANTS c1, c2, c3, p1, p2

\* Two clients in one process, the third in another.
TwoAndOne == [c \in Client |-> IF c = c3 THEN p2 ELSE p1]
=============================================================================
