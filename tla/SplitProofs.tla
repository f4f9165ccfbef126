---------------------------- MODULE SplitProofs -----------------------------
(***************************************************************************)
(* split_blocks finds the paragraphs of every manuscript: each of them, in *)
(* order, once, and nothing else.                                          *)
(***************************************************************************)
EXTENDS SplitBlocks, SequenceTheorems, Recursion

-----------------------------------------------------------------------------
(* The loop.                                                               *)

Acc == [blocks : Seq(Seq(Line)), current : Seq(Line)]

\* The parts of an Acc.
LEMMA AccFields ==
  ASSUME NEW acc, NEW b, NEW c, acc = [blocks |-> b, current |-> c]
  PROVE  acc.blocks = b /\ acc.current = c
BY SMT

\* What changing the second leaves.
LEMMA AccExcept ==
  ASSUME NEW acc, NEW b, NEW c, NEW d, acc = [blocks |-> b, current |-> c]
  PROVE  [acc EXCEPT !.current = d] = [blocks |-> b, current |-> d]
BY SMT

\* Stripping leaves lines.
LEMMA StripType ==
  ASSUME NEW lines \in Seq(Line)
  PROVE  strip(lines) \in Seq(Line)
<1> DEFINE out(k) == [lines[k] EXCEPT !.lead = @ /\ k # 1,
                                      !.trail = @ /\ k # Len(lines)]
<1>1. Len(lines) \in Nat /\ \A k \in 1 .. Len(lines) : lines[k] \in Line
  BY LenProperties, SMT
<1>2. ASSUME NEW k \in 1 .. Len(lines)
      PROVE  out(k) \in Line
  <2>1. ASSUME NEW line \in Line, NEW lead \in BOOLEAN, NEW trail \in BOOLEAN
        PROVE  [line EXCEPT !.lead = lead, !.trail = trail] \in Line
    BY Zenon DEF Line
  <2>2. /\ (lines[k].lead /\ k # 1) \in BOOLEAN
        /\ (lines[k].trail /\ k # Len(lines)) \in BOOLEAN
    BY Zenon
  <2> QED
    BY <1>1, <2>1, <2>2, Zenon
<1>3. strip(lines) = [k \in 1 .. Len(lines) |-> out(k)]
  BY Zenon DEF strip
<1> HIDE DEF out
<1>4. strip(lines) \in [1 .. Len(lines) -> Line]
  BY <1>2, <1>3, Zenon
<1> QED
  BY <1>1, <1>4, SMT

\* One iteration of the loop keeps its types.
LEMMA ScanType ==
  ASSUME NEW acc \in Acc, NEW line \in Line
  PROVE  Scan(acc, line) \in Acc
<1>1. acc.blocks \in Seq(Seq(Line)) /\ acc.current \in Seq(Line)
  BY SMT DEF Acc
<1>2. CASE ~IsBlank(line)
  <2>1. Append(acc.current, line) \in Seq(Line)
    BY <1>1, AppendProperties, SMT
  <2>2. Scan(acc, line) = [acc EXCEPT !.current = Append(@, line)]
    BY <1>2, Zenon DEF Scan
  <2>3. [acc EXCEPT !.current = Append(acc.current, line)] \in Acc
    BY <2>1, Zenon DEF Acc
  <2> QED
    BY <2>2, <2>3, Zenon
<1>3. CASE IsBlank(line) /\ acc.current # <<>>
  <2>1. Append(acc.blocks, strip(acc.current)) \in Seq(Seq(Line))
    BY <1>1, StripType, AppendProperties, SMT
  <2>2. Scan(acc, line)
          = [blocks |-> Append(acc.blocks, strip(acc.current)), current |-> <<>>]
    BY <1>3, Zenon DEF Scan
  <2>3. <<>> \in Seq(Line)
    BY EmptySeq, Zenon
  <2> QED
    BY <2>1, <2>2, <2>3, SMT DEF Acc
<1>4. CASE IsBlank(line) /\ acc.current = <<>>
  BY <1>4, Zenon DEF Scan
<1> QED
  BY <1>2, <1>3, <1>4, Zenon

\* Scanned is the function its recursive definition describes.
LEMMA ScanSteps ==
  ASSUME NEW m \in Seq(Line)
  PROVE  /\ Scanned(m) \in [0 .. Len(m) -> Acc]
         /\ Scanned(m)[0] = [blocks |-> <<>>, current |-> <<>>]
         /\ \A k \in Nat : k < Len(m) =>
              Scanned(m)[k + 1] = Scan(Scanned(m)[k], m[k + 1])
<1> DEFINE first == [blocks |-> <<>>, current |-> <<>>]
           step == [p \in Nat \X Acc |->
                      IF p[1] < Len(m) THEN Scan(p[2], m[p[1] + 1]) ELSE p[2]]
           rhs(f) == [k \in 0 .. Len(m) |-> IF k = 0 THEN first
                                              ELSE Scan(f[k - 1], m[k])]
<1>1. Len(m) \in Nat /\ \A k \in 1 .. Len(m) : m[k] \in Line
  BY LenProperties, SMT
<1>2. first \in Acc
  <2>1. <<>> \in Seq(Line) /\ <<>> \in Seq(Seq(Line))
    BY EmptySeq, Zenon
  <2> QED
    BY <2>1, SMT DEF Acc
<1>3. step \in [Nat \X Acc -> Acc]
  <2>1. ASSUME NEW p \in Nat \X Acc
        PROVE  (IF p[1] < Len(m) THEN Scan(p[2], m[p[1] + 1]) ELSE p[2]) \in Acc
    <3>1. p[1] \in Nat /\ p[2] \in Acc
      BY SMT
    <3>2. ASSUME p[1] < Len(m)
          PROVE  m[p[1] + 1] \in Line
      BY <1>1, <3>1, <3>2, SMT
    <3> QED
      BY <3>1, <3>2, ScanType, Zenon
  <2> QED
    BY <2>1, Zenon
<1>4. PICK g : IsRun(g, Len(m), first, step, Acc)
  <2> HIDE DEF step, first
  <2> QED
    BY <1>1, <1>2, <1>3, RunExists, Zenon
<1>5. ASSUME NEW k \in Nat, k < Len(m), NEW v \in Acc
      PROVE  step[<<k, v>>] = Scan(v, m[k + 1])
  <2>1. <<k, v>> \in Nat \X Acc
    BY Zenon
  <2> QED
    BY <1>5, <2>1, Zenon
<1> HIDE DEF step, first
<1>6. ASSUME NEW k \in 0 .. Len(m)
      PROVE  g[k] = IF k = 0 THEN first ELSE Scan(g[k - 1], m[k])
  <2>1. CASE k = 0
    BY <1>4, <2>1, Zenon DEF IsRun
  <2>2. CASE k # 0
    <3>1. /\ k - 1 \in Nat /\ k - 1 < Len(m) /\ (k - 1) + 1 = k
          /\ k - 1 \in 0 .. Len(m)
      BY <1>1, <2>2, SMT
    <3>2. g[k - 1] \in Acc /\ g[k] = step[<<k - 1, g[k - 1]>>]
      BY <1>4, <3>1, Zenon DEF IsRun
    <3>3. g[k] = Scan(g[k - 1], m[k])
      BY <1>5, <3>1, <3>2, Zenon
    <3> QED
      BY <2>2, <3>3, Zenon
  <2> QED
    BY <2>1, <2>2, Zenon
<1>7. g = rhs(g)
  BY <1>4, <1>6, Zenon DEF IsRun
<1>8. Scanned(m) = rhs(Scanned(m))
  BY <1>7, Zenon DEF Scanned, first
<1>9. \A k \in 0 .. Len(m) : Scanned(m)[k] = IF k = 0 THEN first
                                ELSE Scan(Scanned(m)[k - 1], m[k])
  BY <1>8, Zenon
<1>10. Scanned(m)[0] = first
  <2>1. 0 \in 0 .. Len(m)
    BY <1>1, SMT
  <2> QED
    BY <1>9, <2>1, Zenon
<1>11. ASSUME NEW k \in Nat, k < Len(m)
       PROVE  Scanned(m)[k + 1] = Scan(Scanned(m)[k], m[k + 1])
  <2>1. k + 1 \in 0 .. Len(m) /\ k + 1 # 0 /\ (k + 1) - 1 = k
    BY <1>1, <1>11, SMT
  <2> QED
    BY <1>9, <2>1, Zenon
<1>12. \A k \in Nat : k \in {i \in Nat : i <= Len(m) => Scanned(m)[i] \in Acc}
  <2>1. ASSUME NEW k \in Nat, k <= Len(m) => Scanned(m)[k] \in Acc, k + 1 <= Len(m)
        PROVE  Scanned(m)[k + 1] \in Acc
    <3>1. k < Len(m) /\ k <= Len(m) /\ m[k + 1] \in Line
      BY <1>1, <2>1, SMT
    <3> QED
      BY <1>11, <2>1, <3>1, ScanType, Zenon
  <2>2. 0 \in Nat /\ \A k \in Nat : k + 1 \in Nat
    BY SMT
  <2> QED
    BY <1>2, <1>10, <2>1, <2>2, Induction, Zenon
<1>13. \A k \in 0 .. Len(m) : k \in Nat /\ k <= Len(m)
  BY <1>1, SMT
<1>14. Scanned(m) \in [0 .. Len(m) -> Acc]
  BY <1>8, <1>12, <1>13, Zenon
<1> QED
  BY <1>10, <1>11, <1>14, Zenon DEF first

-----------------------------------------------------------------------------
(* The paragraphs.                                                         *)

\* After k lines: P lists the n paragraphs that end before line a, and the lines from
\* a to k belong to the paragraph that is being read.
Found(m, k, a, n, P) ==
  /\ a \in 1 .. k + 1 /\ n \in 0 .. a - 1
  /\ P \in [1 .. n -> Paragraphs(m)]
  /\ a = 1 \/ IsBlank(m[a - 1])
  /\ \A i \in a .. k : ~IsBlank(m[i])
  /\ InOrder(P, n)
  /\ \A p \in Paragraphs(m) : p[2] < a <=> \E i \in 1 .. n : P[i] = p

Listing(m, n, P) == [i \in 1 .. n |-> Block(m, P[i])]

\* What a member of Paragraphs is.
LEMMA ParagraphFacts ==
  ASSUME NEW m \in Seq(Line), NEW p \in Paragraphs(m)
  PROVE  /\ p[1] \in 1 .. Len(m) /\ p[2] \in 1 .. Len(m) /\ p = <<p[1], p[2]>>
         /\ p[1] <= p[2]
         /\ \A k \in p[1] .. p[2] : ~IsBlank(m[k])
         /\ p[1] = 1 \/ IsBlank(m[p[1] - 1])
         /\ p[2] = Len(m) \/ IsBlank(m[p[2] + 1])
<1>1. p \in (1 .. Len(m)) \X (1 .. Len(m))
  BY Zenon DEF Paragraphs
<1>2. p[1] \in 1 .. Len(m) /\ p[2] \in 1 .. Len(m) /\ p = <<p[1], p[2]>>
  BY <1>1, SMT
<1> QED
  BY <1>2, Zenon DEF Paragraphs

\* A part of a manuscript is lines.
LEMMA PartType ==
  ASSUME NEW m \in Seq(Line), NEW a \in 1 .. Len(m) + 1, NEW k \in 0 .. Len(m)
  PROVE  /\ SubSeq(m, a, k) \in Seq(Line)
         /\ SubSeq(m, a, k) = <<>> <=> k < a
<1>1. Len(m) \in Nat /\ \A i \in 1 .. Len(m) : m[i] \in Line
  BY LenProperties, SMT
<1>2. a \in Int /\ k \in Int /\ \A i \in a .. k : m[i] \in Line
  BY <1>1, SMT
<1>3. /\ SubSeq(m, a, k) \in Seq(Line)
      /\ Len(SubSeq(m, a, k)) = IF a <= k THEN k - a + 1 ELSE 0
  BY <1>2, SubSeqProperties, SMT
<1>4. k < a => SubSeq(m, a, k) = <<>>
  BY <1>2, SubSeqEmpty, Zenon
<1>5. ~(k < a) => Len(SubSeq(m, a, k)) # 0
  BY <1>2, <1>3, SMT
<1>6. Len(<<>>) = 0
  BY EmptySeq, Zenon
<1> QED
  BY <1>3, <1>4, <1>5, <1>6, Zenon

\* The blocks of a list of paragraphs.
LEMMA ListingType ==
  ASSUME NEW m \in Seq(Line), NEW n \in Nat, NEW P \in [1 .. n -> Paragraphs(m)]
  PROVE  /\ Listing(m, n, P) \in Seq(Seq(Line))
         /\ Len(Listing(m, n, P)) = n
         /\ \A i \in 1 .. n : Listing(m, n, P)[i] = Block(m, P[i])
<1>1. ASSUME NEW i \in 1 .. n
      PROVE  Block(m, P[i]) \in Seq(Line)
  <2>1. P[i][1] \in 1 .. Len(m) /\ P[i][2] \in 1 .. Len(m)
    BY ParagraphFacts, Zenon
  <2>2. P[i][1] \in 1 .. Len(m) + 1 /\ P[i][2] \in 0 .. Len(m)
    BY <2>1, LenProperties, SMT
  <2> QED
    BY <2>2, PartType, StripType, Zenon DEF Block
<1>2. /\ Listing(m, n, P) \in [1 .. n -> Seq(Line)]
      /\ \A i \in 1 .. n : Listing(m, n, P)[i] = Block(m, P[i])
  BY <1>1, Zenon DEF Listing
<1>3. ASSUME NEW S, NEW f \in [1 .. n -> S]
      PROVE  f \in Seq(S) /\ Len(f) = n
  BY SMT
<1> QED
  BY <1>2, <1>3, Zenon

\* When a paragraph ends with line k, it is the only one that ends in line a or later.
LEMMA NextParagraph ==
  ASSUME NEW m \in Seq(Line), NEW k \in 0 .. Len(m), NEW a \in 1 .. k,
         a = 1 \/ IsBlank(m[a - 1]), \A i \in a .. k : ~IsBlank(m[i]),
         k = Len(m) \/ IsBlank(m[k + 1])
  PROVE  /\ <<a, k>> \in Paragraphs(m)
         /\ \A p \in Paragraphs(m) : p[2] <= k /\ ~(p[2] < a) => p = <<a, k>>
<1>0. Len(m) \in Nat
  BY LenProperties, Zenon
<1>1. <<a, k>> \in Paragraphs(m)
  <2>1. a \in 1 .. Len(m) /\ k \in 1 .. Len(m) /\ a <= k
    BY <1>0, SMT
  <2>2. <<a, k>> \in (1 .. Len(m)) \X (1 .. Len(m))
        /\ <<a, k>>[1] = a /\ <<a, k>>[2] = k
    BY <2>1, SMT
  <2> QED
    BY <2>1, <2>2, Zenon DEF Paragraphs
<1>2. ASSUME NEW p \in Paragraphs(m), p[2] <= k, ~(p[2] < a)
      PROVE  p = <<a, k>>
  <2>1. /\ p[1] \in 1 .. Len(m) /\ p[2] \in 1 .. Len(m) /\ p = <<p[1], p[2]>>
        /\ p[1] <= p[2]
        /\ \A i \in p[1] .. p[2] : ~IsBlank(m[i])
        /\ p[1] = 1 \/ IsBlank(m[p[1] - 1])
        /\ p[2] = Len(m) \/ IsBlank(m[p[2] + 1])
    BY ParagraphFacts, Zenon
  <2>2. PICK b \in 1 .. Len(m), e \in 1 .. Len(m) : b = p[1] /\ e = p[2]
    BY <2>1, Zenon
  <2>3. ASSUME e < k
        PROVE  FALSE
    <3>1. e + 1 \in a .. k /\ e # Len(m)
      BY <1>0, <1>2, <2>2, <2>3, SMT
    <3> QED
      BY <2>1, <2>2, <3>1, Zenon
  <2>4. ASSUME a < b
        PROVE  FALSE
    <3>1. b - 1 \in a .. k /\ b # 1
      BY <1>0, <1>2, <2>1, <2>2, <2>4, SMT
    <3> QED
      BY <2>1, <2>2, <3>1, Zenon
  <2>5. ASSUME b < a
        PROVE  FALSE
    <3>1. a - 1 \in b .. e /\ a # 1
      BY <1>0, <1>2, <2>1, <2>2, <2>5, SMT
    <3> QED
      BY <2>1, <2>2, <3>1, Zenon
  <2>6. e = k /\ a = b
    BY <1>0, <1>2, <2>2, <2>3, <2>4, <2>5, SMT
  <2> QED
    BY <2>1, <2>2, <2>6, Zenon
<1> QED
  BY <1>1, <1>2, Zenon

\* It is then the next one in the list.
LEMMA AddParagraph ==
  ASSUME NEW m \in Seq(Line), NEW k \in 0 .. Len(m), NEW a, NEW n, NEW P,
         Found(m, k, a, n, P), a <= k, k = Len(m) \/ IsBlank(m[k + 1])
  PROVE  \E Q \in [1 .. n + 1 -> Paragraphs(m)] :
           /\ InOrder(Q, n + 1)
           /\ \A p \in Paragraphs(m) : p[2] <= k <=> \E i \in 1 .. n + 1 : Q[i] = p
           /\ Listing(m, n + 1, Q) = Append(Listing(m, n, P), strip(SubSeq(m, a, k)))
<1> DEFINE Q == [i \in 1 .. n + 1 |-> IF i = n + 1 THEN <<a, k>> ELSE P[i]]
<1>0. /\ Len(m) \in Nat /\ k \in Nat /\ a \in Nat /\ n \in Nat /\ a \in 1 .. k
      /\ 1 <= a
  BY LenProperties, SMT DEF Found
<1>1. /\ <<a, k>> \in Paragraphs(m)
      /\ \A p \in Paragraphs(m) : p[2] <= k /\ ~(p[2] < a) => p = <<a, k>>
  BY <1>0, NextParagraph, Zenon DEF Found
<1>2. /\ n + 1 \in 1 .. n + 1
      /\ \A i \in 1 .. n + 1 : i # n + 1 => i \in 1 .. n
      /\ \A i \in 1 .. n : i \in 1 .. n + 1 /\ i # n + 1
  BY <1>0, SMT
<1>3. \A i \in 1 .. n : P[i] \in Paragraphs(m) /\ P[i][2] < a
  BY Zenon DEF Found
<1>4. Q[n + 1] = <<a, k>> /\ \A i \in 1 .. n : Q[i] = P[i]
  BY <1>2, Zenon
<1>5. Q \in [1 .. n + 1 -> Paragraphs(m)]
  BY <1>1, <1>2, <1>3, Zenon
<1>6. <<a, k>>[1] = a /\ <<a, k>>[2] = k
  BY SMT
<1> HIDE DEF Q
<1>7. InOrder(Q, n + 1)
  <2> SUFFICES ASSUME NEW i \in 1 .. n + 1, NEW j \in 1 .. n + 1, i < j
               PROVE  Q[i][2] < Q[j][1]
    BY Zenon DEF InOrder
  <2>1. i \in 1 .. n
    BY <1>0, SMT
  <2>2. CASE j = n + 1
    BY <1>3, <1>4, <1>6, <2>1, <2>2, Zenon
  <2>3. CASE j # n + 1
    <3>1. j \in 1 .. n
      BY <1>2, <2>3, Zenon
    <3>2. P[i][2] < P[j][1]
      BY <2>1, <3>1, Zenon DEF Found, InOrder
    <3> QED
      BY <1>4, <2>1, <3>1, <3>2, Zenon
  <2> QED
    BY <2>2, <2>3, Zenon
<1>8. ASSUME NEW p \in Paragraphs(m)
      PROVE  p[2] <= k <=> \E i \in 1 .. n + 1 : Q[i] = p
  <2>0. p[2] \in Nat
    BY ParagraphFacts, SMT
  <2>1. p[2] < a => p[2] <= k
    BY <1>0, <2>0, SMT
  <2>2. <<a, k>>[2] <= k
    BY <1>0, <1>6, SMT
  <2>3. CASE p[2] < a
    <3>1. PICK i \in 1 .. n : P[i] = p
      BY <2>3, Zenon DEF Found
    <3> QED
      BY <1>2, <1>4, <2>1, <2>3, <3>1, Zenon
  <2>4. CASE p = <<a, k>>
    BY <1>2, <1>4, <2>2, <2>4, Zenon
  <2>5. CASE ~(p[2] < a) /\ p # <<a, k>>
    <3>1. ~(p[2] <= k)
      BY <1>1, <2>5, Zenon
    <3>2. ASSUME NEW i \in 1 .. n + 1, Q[i] = p
          PROVE  FALSE
      BY <1>2, <1>3, <1>4, <2>5, <3>2, Zenon
    <3> QED
      BY <3>1, <3>2, Zenon
  <2> QED
    BY <2>3, <2>4, <2>5, Zenon
<1>9. Listing(m, n + 1, Q) = Append(Listing(m, n, P), strip(SubSeq(m, a, k)))
  <2> DEFINE F == Listing(m, n, P)
             G == Listing(m, n + 1, Q)
             x == strip(SubSeq(m, a, k))
  <2>1. F \in Seq(Seq(Line)) /\ Len(F) = n /\ \A i \in 1 .. n : F[i] = Block(m, P[i])
    BY <1>0, ListingType, Zenon DEF Found
  <2>2. /\ G \in Seq(Seq(Line)) /\ Len(G) = n + 1
        /\ \A i \in 1 .. n + 1 : G[i] = Block(m, Q[i])
    <3>1. n + 1 \in Nat
      BY <1>0, SMT
    <3> QED
      BY <1>5, <3>1, ListingType, Zenon
  <2>3. a \in 1 .. Len(m) + 1
    BY <1>0, SMT
  <2>4. x \in Seq(Line)
    BY <2>3, PartType, StripType, Zenon
  <2>5. Block(m, <<a, k>>) = x
    BY <1>6, Zenon DEF Block
  <2> HIDE DEF F, G, x
  <2>6. G[n + 1] = x /\ \A i \in 1 .. n : G[i] = F[i]
    BY <1>2, <1>4, <2>1, <2>2, <2>5, Zenon
  <2>7. /\ Append(F, x) \in Seq(Seq(Line)) /\ Len(Append(F, x)) = n + 1
        /\ \A i \in 1 .. n : Append(F, x)[i] = F[i]
        /\ Append(F, x)[n + 1] = x
    <3>1. /\ Append(F, x) \in Seq(Seq(Line)) /\ Len(Append(F, x)) = Len(F) + 1
          /\ \A i \in 1 .. Len(F) : Append(F, x)[i] = F[i]
          /\ Append(F, x)[Len(F) + 1] = x
      BY <2>1, <2>4, AppendProperties, SMT
    <3> QED
      BY <2>1, <3>1, Zenon
  <2>8. \A i \in 1 .. n + 1 : G[i] = Append(F, x)[i]
    BY <1>2, <2>6, <2>7, Zenon
  <2>9. G = Append(F, x)
    BY <2>2, <2>7, <2>8, SeqEqual, SMT
  <2> QED
    BY <2>9, Zenon DEF F, G, x
<1> QED
  BY <1>5, <1>7, <1>8, <1>9, Zenon

\* The loop after k lines.
Halfway(m, k) ==
  \E a, n, P : /\ Found(m, k, a, n, P)
               /\ Scanned(m)[k] = [blocks |-> Listing(m, n, P),
                                   current |-> SubSeq(m, a, k)]

\* Before the first line nothing is found.
LEMMA HalfwayStart ==
  ASSUME NEW m \in Seq(Line)
  PROVE  Halfway(m, 0)
<1> DEFINE P == [i \in 1 .. 0 |-> <<1, 1>>]
<1>1. /\ 1 \in 1 .. 0 + 1 /\ 0 \in 0 .. 1 - 1 /\ 0 \in Nat /\ 1 \in Int /\ 0 \in Int
      /\ 0 < 1 /\ \A i \in 1 .. 0 : FALSE
  BY SMT
<1>2. P \in [1 .. 0 -> Paragraphs(m)]
  BY <1>1, Zenon
<1> HIDE DEF P
<1>3. Listing(m, 0, P) = <<>>
  <2>1. Listing(m, 0, P) \in Seq(Seq(Line)) /\ Len(Listing(m, 0, P)) = 0
    BY <1>1, <1>2, ListingType, Zenon
  <2> QED
    BY <2>1, EmptySeq, SMT
<1>4. SubSeq(m, 1, 0) = <<>>
  BY <1>1, SubSeqEmpty, Zenon
<1>5. Found(m, 0, 1, 0, P)
  <2>1. ASSUME NEW p \in Paragraphs(m)
        PROVE  ~(p[2] < 1)
    <3>1. p[2] \in 1 .. Len(m) /\ Len(m) \in Nat
      BY ParagraphFacts, LenProperties, Zenon
    <3> QED
      BY <3>1, SMT
  <2> QED
    BY <1>1, <1>2, <2>1, Zenon DEF Found, InOrder
<1> QED
  BY <1>3, <1>4, <1>5, ScanSteps, Zenon DEF Halfway

\* Each line keeps the account.
LEMMA HalfwayStep ==
  ASSUME NEW m \in Seq(Line), NEW k \in Nat, k < Len(m), Halfway(m, k)
  PROVE  Halfway(m, k + 1)
<1>1. PICK a, n, P : /\ Found(m, k, a, n, P)
                     /\ Scanned(m)[k] = [blocks |-> Listing(m, n, P),
                                         current |-> SubSeq(m, a, k)]
  BY Zenon DEF Halfway
<1>2. /\ Len(m) \in Nat /\ a \in Nat /\ n \in Nat /\ 1 <= a /\ a <= k + 1 /\ n <= a - 1
      /\ k \in 0 .. Len(m) /\ k + 1 \in 1 .. Len(m) /\ k # Len(m)
      /\ a \in 1 .. Len(m) + 1
  <2>1. Len(m) \in Nat /\ a \in 1 .. k + 1 /\ n \in 0 .. a - 1
    BY <1>1, LenProperties, Zenon DEF Found
  <2> QED
    BY <2>1, SMT
<1>3. m[k + 1] \in Line /\ \A i \in 1 .. Len(m) : m[i] \in Line
  BY <1>2, LenProperties, SMT
<1>4. Scanned(m)[k + 1] = Scan(Scanned(m)[k], m[k + 1])
  BY ScanSteps, Zenon
<1>5. Scanned(m)[k].blocks = Listing(m, n, P) /\ Scanned(m)[k].current = SubSeq(m, a, k)
  BY <1>1, AccFields, Zenon
<1>6. ASSUME IsBlank(m[k + 1]), NEW p \in Paragraphs(m)
      PROVE  p[2] < k + 2 <=> p[2] <= k
  <2>1. p[2] # k + 1
    <3>1. p[2] \in p[1] .. p[2] /\ p[2] \in Nat
      BY ParagraphFacts, SMT
    <3>2. ~IsBlank(m[p[2]])
      BY <3>1, ParagraphFacts, Zenon
    <3> QED
      BY <1>6, <3>2, Zenon
  <2>2. p[2] \in Nat
    BY ParagraphFacts, SMT
  <2> QED
    BY <2>1, <2>2, SMT
<1>7. SubSeq(m, a, k) = <<>> <=> k < a
  BY <1>2, PartType, Zenon
<1>8. SubSeq(m, k + 2, k + 1) = <<>>
  <2>1. k + 2 \in Int /\ k + 1 \in Int /\ k + 1 < k + 2
    BY SMT
  <2> QED
    BY <2>1, SubSeqEmpty, Zenon
<1>9. ASSUME IsBlank(m[k + 1]), NEW r \in 0 .. k + 1,
             NEW R \in [1 .. r -> Paragraphs(m)], InOrder(R, r),
             \A p \in Paragraphs(m) : p[2] <= k <=> \E i \in 1 .. r : R[i] = p
      PROVE  Found(m, k + 1, k + 2, r, R)
  <2>1. /\ k + 2 \in 1 .. (k + 1) + 1 /\ (k + 2) - 1 = k + 1
        /\ \A i \in k + 2 .. k + 1 : FALSE
    BY SMT
  <2>2. \A p \in Paragraphs(m) : p[2] < k + 2 <=> \E i \in 1 .. r : R[i] = p
    BY <1>6, <1>9, Zenon
  <2> QED
    BY <1>9, <2>1, <2>2, Zenon DEF Found
<1>10. CASE ~IsBlank(m[k + 1])
  <2>1. Found(m, k + 1, a, n, P)
    <3>1. a \in 1 .. (k + 1) + 1 /\ \A i \in a .. k + 1 : i \in a .. k \/ i = k + 1
      BY <1>2, SMT
    <3> QED
      BY <1>1, <1>10, <3>1, Zenon DEF Found
  <2>2. Scanned(m)[k + 1] = [Scanned(m)[k] EXCEPT !.current
                               = Append(Scanned(m)[k].current, m[k + 1])]
    BY <1>4, <1>10, Zenon DEF Scan
  <2>3. Append(SubSeq(m, a, k), m[k + 1]) = SubSeq(m, a, k + 1)
    <3>1. /\ a \in Int /\ k \in Int /\ k + 1 \in Int
          /\ \A i \in a .. k : m[i] \in Line
          /\ \A i \in a .. k + 1 : m[i] \in Line
      BY <1>2, <1>3, SMT
    <3>2. /\ SubSeq(m, a, k) \in Seq(Line)
          /\ Len(SubSeq(m, a, k)) = k - a + 1
          /\ \A i \in 1 .. k - a + 1 : SubSeq(m, a, k)[i] = m[a + i - 1]
      BY <1>2, <3>1, SubSeqProperties, SMT
    <3>3. /\ SubSeq(m, a, k + 1) \in Seq(Line)
          /\ Len(SubSeq(m, a, k + 1)) = (k - a + 1) + 1
          /\ \A i \in 1 .. (k - a + 1) + 1 : SubSeq(m, a, k + 1)[i] = m[a + i - 1]
      BY <1>2, <3>1, SubSeqProperties, SMT
    <3> DEFINE s == SubSeq(m, a, k)
               t == SubSeq(m, a, k + 1)
               l == k - a + 1
    <3>4. l \in Nat /\ a + (l + 1) - 1 = k + 1
      BY <1>2, SMT
    <3>5. \A i \in 1 .. l : i \in 1 .. l + 1
      BY <3>4, SMT
    <3>6. t[l + 1] = m[k + 1] /\ \A i \in 1 .. l : t[i] = s[i]
      <4>1. l + 1 \in 1 .. l + 1
        BY <3>4, SMT
      <4>2. \A i \in 1 .. l + 1 : t[i] = m[a + i - 1]
        BY <3>3, Zenon
      <4>3. \A i \in 1 .. l : s[i] = m[a + i - 1]
        BY <3>2, Zenon
      <4> HIDE DEF s, t, l
      <4>4. t[l + 1] = m[a + (l + 1) - 1]
        BY <4>1, <4>2, Zenon
      <4>5. t[l + 1] = m[k + 1]
        BY <3>4, <4>4, Zenon
      <4>6. \A i \in 1 .. l : t[i] = s[i]
        BY <3>5, <4>2, <4>3, Zenon
      <4> QED
        BY <4>5, <4>6, Zenon
    <3> HIDE DEF s, t, l
    <3>7. /\ Append(s, m[k + 1]) \in Seq(Line) /\ Len(Append(s, m[k + 1])) = l + 1
          /\ \A i \in 1 .. l : Append(s, m[k + 1])[i] = s[i]
          /\ Append(s, m[k + 1])[l + 1] = m[k + 1]
      <4>1. s \in Seq(Line) /\ Len(s) = l
        BY <3>2, Zenon DEF s, l
      <4> QED
        BY <1>3, <4>1, AppendProperties, SMT
    <3>8. \A i \in 1 .. l + 1 : i \in 1 .. l \/ i = l + 1
      BY <3>4, SMT
    <3>9. \A i \in 1 .. l + 1 : t[i] = Append(s, m[k + 1])[i]
      BY <3>6, <3>7, <3>8, Zenon
    <3>10. t \in Seq(Line) /\ Len(t) = l + 1
      BY <3>3, Zenon DEF t, l
    <3>11. t = Append(s, m[k + 1])
      BY <3>7, <3>9, <3>10, SeqEqual, SMT
    <3> QED
      BY <3>11, Zenon DEF s, t
  <2>4. Scanned(m)[k + 1] = [blocks |-> Listing(m, n, P),
                             current |-> SubSeq(m, a, k + 1)]
    BY <1>1, <1>5, <2>2, <2>3, AccExcept, Zenon
  <2> QED
    BY <2>1, <2>4, Zenon DEF Halfway
<1>11. CASE IsBlank(m[k + 1]) /\ a <= k
  <2>1. PICK Q \in [1 .. n + 1 -> Paragraphs(m)] :
           /\ InOrder(Q, n + 1)
           /\ \A p \in Paragraphs(m) : p[2] <= k <=> \E i \in 1 .. n + 1 : Q[i] = p
           /\ Listing(m, n + 1, Q) = Append(Listing(m, n, P), strip(SubSeq(m, a, k)))
    BY <1>1, <1>2, <1>11, AddParagraph, Zenon
  <2>2. n + 1 \in 0 .. k + 1 /\ ~(k < a)
    BY <1>2, <1>11, SMT
  <2>3. Found(m, k + 1, k + 2, n + 1, Q)
    BY <1>9, <1>11, <2>1, <2>2, Zenon
  <2>4. Scanned(m)[k + 1]
          = [blocks |-> Append(Listing(m, n, P), strip(SubSeq(m, a, k))),
             current |-> <<>>]
    BY <1>4, <1>5, <1>7, <1>11, <2>2, Zenon DEF Scan
  <2>5. Scanned(m)[k + 1] = [blocks |-> Listing(m, n + 1, Q),
                             current |-> SubSeq(m, k + 2, k + 1)]
    BY <1>8, <2>1, <2>4, Zenon
  <2> QED
    BY <2>3, <2>5, Zenon DEF Halfway
<1>12. CASE IsBlank(m[k + 1]) /\ ~(a <= k)
  <2>1. a = k + 1 /\ k < a /\ n \in 0 .. k + 1
    BY <1>2, <1>12, SMT
  <2>2. \A p \in Paragraphs(m) : p[2] < a <=> p[2] <= k
    <3> TAKE p \in Paragraphs(m)
    <3>1. p[2] \in Nat
      BY ParagraphFacts, SMT
    <3> QED
      BY <2>1, <3>1, SMT
  <2>3. Found(m, k + 1, k + 2, n, P)
    <3>1. /\ P \in [1 .. n -> Paragraphs(m)] /\ InOrder(P, n)
          /\ \A p \in Paragraphs(m) : p[2] < a <=> \E i \in 1 .. n : P[i] = p
      BY <1>1, Zenon DEF Found
    <3>2. \A p \in Paragraphs(m) : p[2] <= k <=> \E i \in 1 .. n : P[i] = p
      BY <2>2, <3>1, Zenon
    <3> QED
      BY <1>9, <1>12, <2>1, <3>1, <3>2, Zenon
  <2>4. Scanned(m)[k + 1] = Scanned(m)[k]
    BY <1>4, <1>5, <1>7, <1>12, <2>1, Zenon DEF Scan
  <2> QED
    BY <1>1, <1>7, <1>8, <2>1, <2>3, <2>4, Zenon DEF Halfway
<1> QED
  BY <1>10, <1>11, <1>12, Zenon

\* split_blocks returns the paragraphs of any manuscript, stripped, in order, each
\* once, and nothing else: what the docstring of text.py promises.
THEOREM SplitCorrect == \A m \in Seq(Line) : SplitsParagraphs(m)
<1> SUFFICES ASSUME NEW m \in Seq(Line)
             PROVE  SplitsParagraphs(m)
  BY Zenon
<1>1. Len(m) \in Nat /\ Len(m) <= Len(m) /\ Len(m) \in 0 .. Len(m)
  BY LenProperties, SMT
<1>2. \A k \in Nat : k \in {i \in Nat : i <= Len(m) => Halfway(m, i)}
  <2>1. \A k \in Nat : k + 1 \in Nat /\ (k + 1 <= Len(m) => k < Len(m) /\ k <= Len(m))
    BY <1>1, SMT
  <2>2. 0 \in Nat
    BY SMT
  <2> QED
    BY <2>1, <2>2, HalfwayStart, HalfwayStep, Induction, Zenon
<1>3. PICK a, n, P : /\ Found(m, Len(m), a, n, P)
                     /\ Scanned(m)[Len(m)] = [blocks |-> Listing(m, n, P),
                                              current |-> SubSeq(m, a, Len(m))]
  BY <1>1, <1>2, Zenon DEF Halfway
<1>4. /\ Scanned(m)[Len(m)].blocks = Listing(m, n, P)
      /\ Scanned(m)[Len(m)].current = SubSeq(m, a, Len(m))
  BY <1>3, AccFields, Zenon
<1>5. a \in 1 .. Len(m) + 1 /\ n \in 0 .. a - 1
  BY <1>3, Zenon DEF Found
<1>6. SubSeq(m, a, Len(m)) = <<>> <=> Len(m) < a
  BY <1>1, <1>5, PartType, Zenon
<1>7. \A p \in Paragraphs(m) : p[2] <= Len(m)
  BY <1>1, ParagraphFacts, SMT
<1>8. CASE a <= Len(m)
  <2>1. PICK Q \in [1 .. n + 1 -> Paragraphs(m)] :
           /\ InOrder(Q, n + 1)
           /\ \A p \in Paragraphs(m) : p[2] <= Len(m) <=> \E i \in 1 .. n + 1 : Q[i] = p
           /\ Listing(m, n + 1, Q)
                = Append(Listing(m, n, P), strip(SubSeq(m, a, Len(m))))
    BY <1>1, <1>3, <1>8, AddParagraph, Zenon
  <2>2. n + 1 \in 0 .. Len(m) /\ ~(Len(m) < a)
    BY <1>1, <1>5, <1>8, SMT
  <2>3. split_blocks(m) = Listing(m, n + 1, Q)
    BY <1>4, <1>6, <2>1, <2>2, Zenon DEF split_blocks
  <2> QED
    BY <1>7, <2>1, <2>2, <2>3, Zenon DEF SplitsParagraphs, Listing
<1>9. CASE ~(a <= Len(m))
  <2>1. n \in 0 .. Len(m) /\ Len(m) < a
    BY <1>1, <1>5, <1>9, SMT
  <2>2. split_blocks(m) = Listing(m, n, P)
    BY <1>4, <1>6, <2>1, Zenon DEF split_blocks
  <2>3. \A p \in Paragraphs(m) : p[2] < a
    <3> TAKE p \in Paragraphs(m)
    <3>1. p[2] \in Nat /\ p[2] <= Len(m)
      BY <1>7, ParagraphFacts, SMT
    <3> QED
      BY <1>1, <1>5, <2>1, <3>1, SMT
  <2> QED
    BY <1>3, <2>1, <2>2, <2>3, Zenon DEF Found, SplitsParagraphs, Listing
<1> QED
  BY <1>8, <1>9, Zenon

\* Every line with a word is in a paragraph.
LEMMA LineInParagraph ==
  ASSUME NEW m \in Seq(Line), NEW k \in 1 .. Len(m), ~IsBlank(m[k])
  PROVE  \E p \in Paragraphs(m) : k \in p[1] .. p[2]
<1>0. Len(m) \in Nat /\ k \in Nat /\ 1 <= k /\ k <= Len(m)
  BY LenProperties, SMT
<1> DEFINE Start == {b \in 1 .. k : \A i \in b .. k : ~IsBlank(m[i])}
           End == {e \in k .. Len(m) : e = Len(m) \/ IsBlank(m[e + 1])}
<1>1. PICK b \in Start : \A c \in Start : b <= c
  <2>1. k \in 1 .. k /\ \A i \in k .. k : i = k
    BY <1>0, SMT
  <2>2. k \in Start
    BY <2>1, Zenon
  <2>3. Start \subseteq Nat
    BY <1>0, SMT
  <2> HIDE DEF Start
  <2> QED
    BY <2>2, <2>3, LeastNatural, Zenon
<1>2. PICK e \in End : \A c \in End : e <= c
  <2>1. Len(m) \in k .. Len(m)
    BY <1>0, SMT
  <2>2. Len(m) \in End
    BY <2>1, Zenon
  <2>3. End \subseteq Nat
    BY <1>0, SMT
  <2> HIDE DEF End
  <2> QED
    BY <2>2, <2>3, LeastNatural, Zenon
<1>3. b \in 1 .. k /\ e \in k .. Len(m)
  BY Zenon
<1>4. /\ b \in 1 .. Len(m) /\ e \in 1 .. Len(m) /\ b <= e /\ k \in b .. e
      /\ \A i \in b .. e : i \in b .. k \/ i \in k + 1 .. e
  BY <1>0, <1>3, SMT
<1>5. b = 1 \/ IsBlank(m[b - 1])
  <2> SUFFICES ASSUME b # 1, ~IsBlank(m[b - 1])
               PROVE  FALSE
    BY Zenon
  <2>1. /\ b - 1 \in 1 .. k /\ ~(b <= b - 1)
        /\ \A i \in b - 1 .. k : i = b - 1 \/ i \in b .. k
    BY <1>0, <1>3, SMT
  <2> QED
    BY <1>1, <2>1, Zenon
<1>6. ASSUME NEW i \in k + 1 .. e, IsBlank(m[i])
      PROVE  FALSE
  <2>1. i - 1 \in k .. Len(m) /\ (i - 1) + 1 = i /\ ~(e <= i - 1)
    BY <1>0, <1>3, SMT
  <2> QED
    BY <1>2, <1>6, <2>1, Zenon
<1>7. \A i \in b .. e : ~IsBlank(m[i])
  BY <1>4, <1>6, Zenon
<1>8. e = Len(m) \/ IsBlank(m[e + 1])
  BY Zenon
<1> HIDE DEF Start, End
<1>9. /\ <<b, e>> \in (1 .. Len(m)) \X (1 .. Len(m))
      /\ <<b, e>>[1] = b /\ <<b, e>>[2] = e
  BY <1>4, SMT
<1>10. <<b, e>> \in Paragraphs(m)
  BY <1>4, <1>5, <1>7, <1>8, <1>9, Zenon DEF Paragraphs
<1> QED
  BY <1>4, <1>9, <1>10, Zenon

\* A block has the lines of its paragraph, with their words.
LEMMA BlockLines ==
  ASSUME NEW m \in Seq(Line), NEW p \in Paragraphs(m)
  PROVE  /\ Len(Block(m, p)) = p[2] - p[1] + 1
         /\ \A q \in 1 .. p[2] - p[1] + 1 : Block(m, p)[q].word = m[p[1] + q - 1].word
<1>1. Len(m) \in Nat /\ \A i \in 1 .. Len(m) : m[i] \in Line
  BY LenProperties, SMT
<1>2. p[1] \in 1 .. Len(m) /\ p[2] \in 1 .. Len(m) /\ p[1] <= p[2]
  BY ParagraphFacts, Zenon
<1>3. PICK a \in 1 .. Len(m), e \in 1 .. Len(m) : a = p[1] /\ e = p[2] /\ a <= e
  BY <1>2, Zenon
<1> DEFINE part == SubSeq(m, a, e)
<1>4. a \in Int /\ e \in Int /\ \A i \in a .. e : m[i] \in Line
  BY <1>1, <1>3, SMT
<1>5. /\ part \in Seq(Line)
      /\ Len(part) = e - a + 1
      /\ \A q \in 1 .. e - a + 1 : part[q] = m[a + q - 1]
  <2>1. part \in Seq(Line)
    BY <1>4, SubSeqProperties, Zenon
  <2>2. Len(part) = e - a + 1
    BY <1>3, <1>4, SubSeqProperties, SMT
  <2>3. ASSUME NEW q \in 1 .. e - a + 1
        PROVE  part[q] = m[a + q - 1]
    BY <1>1, <1>3, SMTT(30)
  <2> HIDE DEF part
  <2> QED
    BY <2>1, <2>2, <2>3, Zenon
<1> HIDE DEF part
<1> DEFINE out(q) == [part[q] EXCEPT !.lead = @ /\ q # 1, !.trail = @ /\ q # Len(part)]
<1>6. strip(part) = [q \in 1 .. Len(part) |-> out(q)]
  BY Zenon DEF strip
<1>7. ASSUME NEW q \in 1 .. Len(part)
      PROVE  out(q).word = part[q].word
  <2>1. part[q] \in Line
    BY <1>5, SMT
  <2>2. ASSUME NEW line \in Line, NEW lead, NEW trail
        PROVE  [line EXCEPT !.lead = lead, !.trail = trail].word = line.word
    BY SMT DEF Line
  <2>3. PICK lead, trail : out(q) = [part[q] EXCEPT !.lead = lead, !.trail = trail]
    BY Zenon
  <2> HIDE DEF out
  <2>4. [part[q] EXCEPT !.lead = lead, !.trail = trail].word = part[q].word
    BY <2>1, <2>2, Zenon
  <2> QED
    BY <2>3, <2>4, Zenon
<1> HIDE DEF out
<1>8. \A q \in 1 .. Len(part) : strip(part)[q].word = part[q].word
  BY <1>6, <1>7, Zenon
<1>9. Len(strip(part)) = Len(part)
  BY <1>5, <1>6, LenProperties, SMT
<1>10. Block(m, p) = strip(part)
  BY <1>3, Zenon DEF Block, part
<1> QED
  BY <1>3, <1>5, <1>8, <1>9, <1>10, Zenon

\* Of two lines in listed paragraphs, the earlier is in the earlier paragraph.
LEMMA HomesInOrder ==
  ASSUME NEW m \in Seq(Line), NEW n \in Nat, NEW P \in [1 .. n -> Paragraphs(m)],
         InOrder(P, n), NEW i \in 1 .. n, NEW j \in 1 .. n,
         NEW k \in P[i][1] .. P[i][2], NEW l \in P[j][1] .. P[j][2], k <= l
  PROVE  i <= j
<1>1. /\ P[i][1] \in 1 .. Len(m) /\ P[i][2] \in 1 .. Len(m)
      /\ P[j][1] \in 1 .. Len(m) /\ P[j][2] \in 1 .. Len(m)
  BY ParagraphFacts, Zenon
<1>2. j < i => P[j][2] < P[i][1]
  BY Zenon DEF InOrder
<1> QED
  BY <1>1, <1>2, LenProperties, SMT

\* split_blocks loses, repeats, reorders and invents nothing: the lines with a word and
\* the lines of the blocks correspond one to one, in order, word by word, so tts reads
\* the whole text of the manuscript.
THEOREM NoLineLost == \A m \in Seq(Line) : KeepsWords(m)
<1> SUFFICES ASSUME NEW m \in Seq(Line)
             PROVE  KeepsWords(m)
  BY Zenon
<1>0. Len(m) \in Nat
  BY LenProperties, Zenon
<1>1. PICK n \in 0 .. Len(m) : \E P \in [1 .. n -> Paragraphs(m)] :
        /\ InOrder(P, n)
        /\ \A p \in Paragraphs(m) : \E i \in 1 .. n : P[i] = p
        /\ split_blocks(m) = [i \in 1 .. n |-> Block(m, P[i])]
  <2>1. SplitsParagraphs(m)
    BY SplitCorrect, Zenon
  <2> QED
    BY <2>1 DEF SplitsParagraphs
<1>2. PICK P \in [1 .. n -> Paragraphs(m)] :
        /\ InOrder(P, n)
        /\ \A p \in Paragraphs(m) : \E i \in 1 .. n : P[i] = p
        /\ split_blocks(m) = [i \in 1 .. n |-> Block(m, P[i])]
  BY <1>1, Zenon
<1>3. n \in Nat
  BY <1>0, SMT
<1> DEFINE blocks == split_blocks(m)
<1>4. Len(blocks) = n /\ \A i \in 1 .. n : blocks[i] = Block(m, P[i])
  <2>1. blocks = Listing(m, n, P)
    BY <1>2, Zenon DEF Listing
  <2> HIDE DEF blocks
  <2> QED
    BY <1>3, <2>1, ListingType, Zenon
<1> HIDE DEF blocks
<1>5. ASSUME NEW i \in 1 .. n
      PROVE  /\ P[i][1] \in 1 .. Len(m) /\ P[i][2] \in 1 .. Len(m)
             /\ \A k \in P[i][1] .. P[i][2] : ~IsBlank(m[k])
             /\ Len(blocks[i]) = P[i][2] - P[i][1] + 1
             /\ \A q \in 1 .. P[i][2] - P[i][1] + 1 :
                  blocks[i][q].word = m[P[i][1] + q - 1].word
  <2>1. P[i] \in Paragraphs(m) /\ blocks[i] = Block(m, P[i])
    BY <1>4, Zenon
  <2>2. /\ P[i][1] \in 1 .. Len(m) /\ P[i][2] \in 1 .. Len(m)
        /\ \A k \in P[i][1] .. P[i][2] : ~IsBlank(m[k])
    BY <2>1, ParagraphFacts, Zenon
  <2>3. /\ Len(Block(m, P[i])) = P[i][2] - P[i][1] + 1
        /\ \A q \in 1 .. P[i][2] - P[i][1] + 1 :
             Block(m, P[i])[q].word = m[P[i][1] + q - 1].word
    BY <2>1, BlockLines
  <2> QED
    BY <2>1, <2>2, <2>3
<1> DEFINE home(k) == CHOOSE i \in 1 .. n : k \in P[i][1] .. P[i][2]
           pos(k) == k - P[home(k)][1] + 1
           place == [k \in Spoken(m) |-> <<home(k), pos(k)>>]
<1>6. ASSUME NEW k \in Spoken(m)
      PROVE  home(k) \in 1 .. n /\ k \in P[home(k)][1] .. P[home(k)][2]
  <2>1. k \in 1 .. Len(m) /\ ~IsBlank(m[k])
    BY Zenon DEF Spoken
  <2>2. PICK p \in Paragraphs(m) : k \in p[1] .. p[2]
    BY <2>1, LineInParagraph, Zenon
  <2>3. PICK i \in 1 .. n : P[i] = p
    BY <1>2, Zenon
  <2> QED
    BY <2>2, <2>3, Zenon
<1> HIDE DEF home
<1>7. ASSUME NEW k \in Spoken(m)
      PROVE  /\ pos(k) \in 1 .. Len(blocks[home(k)])
             /\ P[home(k)][1] + pos(k) - 1 = k
             /\ blocks[home(k)][pos(k)].word = m[k].word
  <2>1. PICK i \in 1 .. n : i = home(k)
    BY <1>6, Zenon
  <2>2. k \in P[i][1] .. P[i][2]
    BY <1>6, <2>1, Zenon
  <2>3. /\ k - P[i][1] + 1 \in 1 .. P[i][2] - P[i][1] + 1
        /\ P[i][1] + (k - P[i][1] + 1) - 1 = k
    <3>1. PICK a \in 1 .. Len(m), e \in 1 .. Len(m) : a = P[i][1] /\ e = P[i][2]
      BY <1>5, Zenon
    <3>2. k \in a .. e
      BY <2>2, <3>1, Zenon
    <3>3. k - a + 1 \in 1 .. e - a + 1 /\ a + (k - a + 1) - 1 = k
      BY <1>0, <3>2, SMT
    <3> QED
      BY <3>1, <3>3, Zenon
  <2> QED
    BY <1>5, <2>1, <2>3, Zenon
<1> HIDE DEF pos
<1>8. \A k \in Spoken(m) :
        place[k] = <<home(k), pos(k)>> /\ place[k][1] = home(k) /\ place[k][2] = pos(k)
  BY SMT
<1>9. place \in [Spoken(m) -> Places(blocks)]
  <2>1. ASSUME NEW k \in Spoken(m)
        PROVE  <<home(k), pos(k)>> \in Places(blocks)
    <3>1. <<home(k), pos(k)>> \in {home(k)} \X (1 .. Len(blocks[home(k)]))
      BY <1>7, SMT
    <3> QED
      BY <1>4, <1>6, <3>1, Zenon DEF Places
  <2> QED
    BY <2>1, Zenon
<1> HIDE DEF place
<1>10. ASSUME NEW k \in Spoken(m), NEW l \in Spoken(m), k < l
       PROVE  Earlier(place[k], place[l])
  <2>1. k \in Nat /\ l \in Nat
    BY <1>0, SMT DEF Spoken
  <2>2. k <= l
    BY <1>10, <2>1, SMT
  <2>3. home(k) <= home(l)
    BY <1>2, <1>3, <1>6, <2>2, HomesInOrder, Zenon
  <2>4. /\ home(k) \in Nat /\ home(l) \in Nat /\ pos(k) \in Int /\ pos(l) \in Int
        /\ P[home(k)][1] \in Nat
    BY <1>0, <1>5, <1>6, <1>7, SMTT(30)
  <2>5. home(k) = home(l) => pos(k) < pos(l)
    <3>1. ASSUME home(k) = home(l)
          PROVE  P[home(k)][1] + pos(l) - 1 = l
      BY <1>7, <3>1, Zenon
    <3>2. P[home(k)][1] + pos(k) - 1 = k
      BY <1>7, Zenon
    <3> QED
      BY <1>10, <2>1, <2>4, <3>1, <3>2, SMT
  <2>6. home(k) < home(l) \/ (home(k) = home(l) /\ pos(k) < pos(l))
    BY <2>3, <2>4, <2>5, SMT
  <2>7. /\ place[k][1] = home(k) /\ place[k][2] = pos(k)
        /\ place[l][1] = home(l) /\ place[l][2] = pos(l)
    BY <1>8, Zenon
  <2> QED
    BY <2>6, <2>7 DEF Earlier
<1>11. ASSUME NEW p \in Places(blocks)
       PROVE  \E k \in Spoken(m) : place[k] = p
  <2>1. PICK b \in 1 .. n : p \in {b} \X (1 .. Len(blocks[b]))
    BY <1>4, Zenon DEF Places
  <2>2. PICK q \in 1 .. Len(blocks[b]) : p = <<b, q>>
    BY <2>1, SMT
  <2> DEFINE k == P[b][1] + q - 1
  <2>3. k \in P[b][1] .. P[b][2] /\ k \in 1 .. Len(m) /\ k <= k /\ k \in Int
    BY <1>0, <1>5, <2>2, SMTT(30)
  <2>4. k \in Spoken(m)
    BY <1>5, <2>3, Zenon DEF Spoken
  <2> HIDE DEF k
  <2>5. home(k) \in 1 .. n /\ home(k) <= b /\ b <= home(k)
    BY <1>2, <1>3, <1>6, <2>3, <2>4, HomesInOrder, Zenon
  <2>6. home(k) = b
    BY <1>3, <2>5, SMT
  <2>7. P[b][1] + pos(k) - 1 = k /\ pos(k) \in 1 .. Len(blocks[b])
    BY <1>7, <2>4, <2>6, Zenon
  <2>8. P[b][1] \in 1 .. Len(m) /\ Len(blocks[b]) \in Int
    BY <1>0, <1>5, SMT
  <2>9. pos(k) = q
    BY <1>0, <2>2, <2>7, <2>8, SMT DEF k
  <2> QED
    BY <1>8, <2>2, <2>4, <2>6, <2>9, Zenon
<1>12. \A k \in Spoken(m) : blocks[place[k][1]][place[k][2]].word = m[k].word
  BY <1>7, <1>8, Zenon
<1> QED
  BY <1>9, <1>10, <1>11, <1>12, Zenon DEF KeepsWords, blocks

\* "empty/whitespace-only input -> [] (0 blocks ...)" (text.py), and no other input:
\* the job without blocks that parse sends straight to the stitch stage.
THEOREM BlankHasNoBlocks ==
  \A m \in Seq(Line) :
    split_blocks(m) = <<>> <=> \A k \in 1 .. Len(m) : IsBlank(m[k])
<1> SUFFICES ASSUME NEW m \in Seq(Line)
             PROVE  split_blocks(m) = <<>> <=> \A k \in 1 .. Len(m) : IsBlank(m[k])
  BY Zenon
<1>0. PICK n \in 0 .. Len(m) : \E P \in [1 .. n -> Paragraphs(m)] :
        /\ InOrder(P, n)
        /\ \A p \in Paragraphs(m) : \E i \in 1 .. n : P[i] = p
        /\ split_blocks(m) = [i \in 1 .. n |-> Block(m, P[i])]
  <2>1. SplitsParagraphs(m)
    BY SplitCorrect, Zenon
  <2> QED
    BY <2>1 DEF SplitsParagraphs
<1>1. PICK P \in [1 .. n -> Paragraphs(m)] :
        /\ \A p \in Paragraphs(m) : \E i \in 1 .. n : P[i] = p
        /\ split_blocks(m) = [i \in 1 .. n |-> Block(m, P[i])]
  BY <1>0
<1>2. n \in Nat
  BY <1>1, LenProperties, SMT
<1>3. split_blocks(m) = Listing(m, n, P)
  BY <1>1, Zenon DEF Listing
<1>4. split_blocks(m) \in Seq(Seq(Line)) /\ Len(split_blocks(m)) = n
  <2>1. Listing(m, n, P) \in Seq(Seq(Line)) /\ Len(Listing(m, n, P)) = n
    BY <1>2, ListingType, Zenon
  <2> QED
    BY <1>3, <2>1, Zenon
<1>5. split_blocks(m) = <<>> <=> n = 0
  BY <1>2, <1>4, EmptySeq, SMT
<1>6. ASSUME n = 0, NEW k \in 1 .. Len(m), ~IsBlank(m[k])
      PROVE  FALSE
  <2>1. PICK p \in Paragraphs(m) : TRUE
    BY <1>6, LineInParagraph, Zenon
  <2>2. PICK i \in 1 .. n : P[i] = p
    BY <1>1, Zenon
  <2> QED
    BY <1>6, <2>2, SMT
<1>7. ASSUME n # 0, \A k \in 1 .. Len(m) : IsBlank(m[k])
      PROVE  FALSE
  <2>1. 1 \in 1 .. n
    BY <1>2, <1>7, SMT
  <2>2. P[1] \in Paragraphs(m)
    BY <1>1, <2>1, Zenon
  <2>3. P[1][1] \in 1 .. Len(m) /\ P[1][2] \in 1 .. Len(m) /\ P[1][1] <= P[1][2]
    BY <2>2, ParagraphFacts, Zenon
  <2>4. P[1][1] \in P[1][1] .. P[1][2]
    BY <2>3, LenProperties, SMT
  <2> QED
    BY <1>7, <2>2, <2>3, <2>4, ParagraphFacts, Zenon
<1> QED
  BY <1>5, <1>6, <1>7, Zenon
=============================================================================
