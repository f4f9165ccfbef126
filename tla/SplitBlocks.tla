---------------------------- MODULE SplitBlocks -----------------------------
(***************************************************************************)
(* split_blocks of core/domain/text.py, which parse uses to fan out and    *)
(* tts to find the text of its block again.  A manuscript is a sequence of *)
(* lines; of a line only its word, if it has one, and whether whitespace   *)
(* leads or trails it can make a difference.                               *)
(***************************************************************************)
EXTENDS Integers, Sequences

CONSTANT
  Word  \* what a line may say

Blank == ""

Line == [lead : BOOLEAN, word : Word \cup {Blank}, trail : BOOLEAN]

\* line.strip() is empty.
IsBlank(line) == line.word = Blank

\* "\n".join(lines).strip(), for one or more lines with words.
strip(lines) ==
  [k \in 1 .. Len(lines) |->
     [lines[k] EXCEPT !.lead = @ /\ k # 1, !.trail = @ /\ k # Len(lines)]]

\* One iteration of the loop: a blank line ends the paragraph before it, if any.
Scan(acc, line) ==
  IF ~IsBlank(line)
    THEN [acc EXCEPT !.current = Append(@, line)]
  ELSE IF acc.current # <<>>
    THEN [blocks |-> Append(acc.blocks, strip(acc.current)), current |-> <<>>]
  ELSE acc

\* What the loop has after each line.
Scanned(manuscript) ==
  LET scan[k \in 0 .. Len(manuscript)] ==
        IF k = 0 THEN [blocks |-> <<>>, current |-> <<>>]
                 ELSE Scan(scan[k - 1], manuscript[k])
  IN  scan

split_blocks(manuscript) ==
  LET end == Scanned(manuscript)[Len(manuscript)]
  IN  IF end.current # <<>> THEN Append(end.blocks, strip(end.current))
                            ELSE end.blocks

-----------------------------------------------------------------------------
(* The rule in the docstring of text.py, without a loop.                   *)

\* Where the paragraphs are: the longest runs of lines that are not blank.
Paragraphs(m) ==
  {p \in (1 .. Len(m)) \X (1 .. Len(m)) :
     /\ p[1] <= p[2]
     /\ \A k \in p[1] .. p[2] : ~IsBlank(m[k])
     /\ p[1] = 1 \/ IsBlank(m[p[1] - 1])
     /\ p[2] = Len(m) \/ IsBlank(m[p[2] + 1])}

\* P lists n paragraphs in the order of the manuscript.
InOrder(P, n) == \A i, j \in 1 .. n : i < j => P[i][2] < P[j][1]

Block(m, p) == strip(SubSeq(m, p[1], p[2]))

\* A block is "a paragraph: one or more consecutive non-blank lines", stripped, in
\* the order of the manuscript, and nothing else is one (split_blocks).
SplitsParagraphs(m) ==
  \E n \in 0 .. Len(m) : \E P \in [1 .. n -> Paragraphs(m)] :
    /\ InOrder(P, n)
    /\ \A p \in Paragraphs(m) : \E i \in 1 .. n : P[i] = p
    /\ split_blocks(m) = [i \in 1 .. n |-> Block(m, P[i])]

\* The lines of m with a word, and the places in its blocks: block and line.
Spoken(m) == {k \in 1 .. Len(m) : ~IsBlank(m[k])}
Places(blocks) == UNION {{b} \X (1 .. Len(blocks[b])) : b \in 1 .. Len(blocks)}

Earlier(p, q) == p[1] < q[1] \/ (p[1] = q[1] /\ p[2] < q[2])

\* The blocks of split_blocks say what the manuscript says: each line with a word has
\* one place in them, with the same word, in the same order, and no place is left over.
KeepsWords(m) ==
  LET blocks == split_blocks(m) IN
  \E place \in [Spoken(m) -> Places(blocks)] :
    /\ \A k \in Spoken(m) : blocks[place[k][1]][place[k][2]].word = m[k].word
    /\ \A k, l \in Spoken(m) : k < l => Earlier(place[k], place[l])
    /\ \A p \in Places(blocks) : \E k \in Spoken(m) : place[k] = p
=============================================================================
