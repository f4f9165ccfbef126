------------------------------- MODULE MCTts --------------------------------
(* Values of the constants of TtsCache and TtsLadder for TLC.              *)
EXTENDS TtsLadder, TLC

CONSTANTS d1, d2, d3, a, b

\* d1 and d2 are identical blocks.
Repeated == [d \in Delivery |-> IF d = d3 THEN b ELSE a]

\* The durations of the code, for the two identical blocks.
Real(patience, crash) ==
  [sent |-> {d1, d2}, ttl |-> 60, wait |-> 10, delays |-> <<1, 4, 16>>,
   patience |-> patience, crashes |-> crash, faults |-> 0, losses |-> 0]

\* A shorter ladder, still longer than the lock, on which more goes wrong.
Brief(sent, crash, fault, loss) ==
  [sent |-> sent, ttl |-> 2, wait |-> 1, delays |-> <<0, 1>>,
   patience |-> 3, crashes |-> crash, faults |-> fault, losses |-> loss]

Scenarios ==
  {Real(3, 1), Real(60, 0),
   Brief({d1, d2}, 1, 0, 0), Brief({d1, d2}, 0, 1, 0), Brief({d1, d2}, 0, 0, 1),
   Brief({d1}, 1, 2, 0), Brief({d1, d2, d3}, 0, 0, 0)}

ASSUME LadderOutlastsLock == LongLadder

CrashOnly == {Real(3, 1)}
=============================================================================
