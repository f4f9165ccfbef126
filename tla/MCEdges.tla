------------------------------ MODULE MCEdges -------------------------------
(* Pipeline and SplitBlocks together: jobs whose manuscript is blank.      *)
EXTENDS MCPipeline, SplitBlocks, SequencesExt

CONSTANT
  MaxLines  \* bound: lines of a manuscript

Empty == [lead |-> FALSE, word |-> Blank, trail |-> FALSE]
Spaces == [lead |-> TRUE, word |-> Blank, trail |-> TRUE]
NoBlocks == [j \in Job |-> Len(split_blocks(<<Empty, Spaces>>))]

\* TLC evaluates what SplitProofs proves of every manuscript, for the short ones.
ASSUME SplitChecked ==
  \A m \in BoundedSeq(Line, MaxLines) : SplitsParagraphs(m) /\ KeepsWords(m)
=============================================================================
