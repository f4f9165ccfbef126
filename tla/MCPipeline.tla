----------------------------- MODULE MCPipeline -----------------------------
(* Values of Pipeline's constants for TLC.                                 *)
EXTENDS PipelineInv, TLC

CONSTANTS h1, h2

OneBlock == [j \in Job |-> 1]
TwoBlocks == [j \in Job |-> 2]
Handlers == Permutations({h1, h2})
AllSteps == WorkStep \cup DlqStep \cup {"route"}
=============================================================================
