-------------------------- MODULE AccessLogProofs --------------------------
(***************************************************************************)
(* Proofs about AccessLog, for any number of workers, of lines and of the  *)
(* places where read() cuts them, and any size of the file's buffer.       *)
(***************************************************************************)
EXTENDS AccessLog, FiniteSetTheorems, SequenceTheorems, TLAPS

\* The k-th half line that worker w writes.
Half(w, k) == <<w, 1 + (k - 1) \div 2, IF k % 2 = 1 THEN "head" ELSE "tail">>

\* s is what w wrote next after its first k halves.
Follows(s, w, k) == \A i \in DOMAIN s : s[i] = Half(w, k + i)

\* Where in what was handed to the file the halves of w are, and how many.
Places(w) == {i \in DOMAIN handed : handed[i][1] = w}
Given(w)  == Cardinality(Places(w))

\* What w wrote is, in order, in the file, in buf and in the pipe; the file has
\* whole lines of it, and nothing is missing but the end of a line in the middle
\* of which w was killed.
InOrder ==
    \A w \in Workers :
       /\ Given(w) % 2 = 0
       /\ Len(buf[w]) <= 1
       /\ Follows(buf[w], w, Given(w))
       /\ Follows(pipe[w], w, Given(w) + Len(buf[w]))
       /\ \/ Given(w) + Len(buf[w]) + Len(pipe[w]) = 2 * logged[w]
          \/ /\ life[w] = "gone"
             /\ Given(w) + Len(buf[w]) + Len(pipe[w]) = 2 * logged[w] + 1

\* A worker has a logger from its birth on, and for as long as it runs.
Attended ==
    \A w \in Workers :
       /\ life[w] = "unborn" <=> logger[w] = "none"
       /\ logger[w] = "none" => pipe[w] = <<>> /\ buf[w] = <<>>
       /\ logger[w] = "done" => life[w] = "gone"

\* The file is closed once, when nothing can be written to it any more.
Closing ==
    closed => /\ ~ keeprunning
              /\ \A w \in Workers : logger[w] # "reading"
              /\ flushed = Len(handed)

LogInv == TypeOK /\ InOrder /\ Attended /\ Closing

-----------------------------------------------------------------------------
LEMMA WholeBlocks ==
  ASSUME NEW n \in Nat
  PROVE  Block * (n \div Block) \in 0 .. n
BY AccessLogAssumption

LEMMA HalfFacts ==
  ASSUME NEW w \in Workers, NEW k \in Nat \ {0}
  PROVE  /\ Half(w, k)[1] = w
         /\ IsTail(Half(w, k)) <=> k % 2 = 0
         /\ k <= 2 * MaxLines + 1 => Half(w, k) \in HalfLines
<1>1. k % 2 \in {0, 1} /\ 1 + (k - 1) \div 2 \in Nat \ {0}
  OBVIOUS
<1>2. k <= 2 * MaxLines + 1 => 1 + (k - 1) \div 2 \in 1 .. MaxLines + 1
  BY AccessLogAssumption
<1>3. QED
  BY <1>1, <1>2 DEF Half, IsTail, HalfLines

LEMMA HalvesOfLine ==
  ASSUME NEW w \in Workers, NEW n \in Nat
  PROVE  /\ Half(w, 2 * n + 1) = <<w, n + 1, "head">>
         /\ Half(w, 2 * n + 2) = <<w, n + 1, "tail">>
<1>1. /\ (2 * n + 1 - 1) \div 2 = n /\ (2 * n + 1) % 2 = 1
      /\ (2 * n + 2 - 1) \div 2 = n /\ (2 * n + 2) % 2 = 0
  OBVIOUS
<1>2. 1 + n = n + 1
  OBVIOUS
<1>3. QED
  BY <1>1, <1>2 DEF Half

\* The next lines of w, whole.
LEMMA HalvesAreNext ==
  ASSUME NEW w \in Workers, NEW m \in Nat, NEW n \in Nat
  PROVE  L!Halves(w, m + 1, n) = [i \in 1 .. 2 * (n - m) |-> Half(w, 2 * m + i)]
<1>1. 2 * (n - (m + 1) + 1) = 2 * (n - m)
  OBVIOUS
<1>2. ASSUME NEW i \in 1 .. 2 * (n - m)
      PROVE  /\ m + 1 + (i - 1) \div 2 = 1 + (2 * m + i - 1) \div 2
             /\ i % 2 = (2 * m + i) % 2
  BY <1>2
<1>3. QED
  BY <1>1, <1>2 DEF L!Halves, Half

LEMMA NoHalves ==
  ASSUME NEW w \in Workers, NEW m \in Nat
  PROVE  L!Halves(w, m + 1, m) = <<>>
<1>1. L!Halves(w, m + 1, m) = [i \in 1 .. 2 * (m - m) |-> Half(w, 2 * m + i)]
  BY HalvesAreNext
<1>2. 1 .. 2 * (m - m) = {}
  OBVIOUS
<1>3. L!Halves(w, m + 1, m) = [i \in {} |-> Half(w, 2 * m + i)]
  BY <1>1, <1>2, Zenon
<1>4. [i \in {} |-> Half(w, 2 * m + i)] \in [{} -> {}]
  OBVIOUS
<1>5. QED
  BY <1>3, <1>4

\* A chunk is cut at its last whole line, so that at most half a line is left.
LEMMA Cut ==
  ASSUME NEW w \in Workers, NEW k \in Nat, k % 2 = 0,
         NEW text \in Seq(HalfLines), Follows(text, w, k)
  PROVE  LET end == LastNewline(text)
         IN  end \in 0 .. Len(text) /\ end % 2 = 0 /\ Len(text) - end <= 1
<1> DEFINE S == {0} \cup {i \in DOMAIN text : IsTail(text[i])}
           m == IF Len(text) % 2 = 0 THEN Len(text) ELSE Len(text) - 1
<1>1. DOMAIN text = 1 .. Len(text) /\ Len(text) \in Nat
  OBVIOUS
<1>2. \A i \in DOMAIN text : IsTail(text[i]) <=> i % 2 = 0
  <2>1. ASSUME NEW i \in DOMAIN text
        PROVE  IsTail(text[i]) <=> i % 2 = 0
    <3>1. text[i] = Half(w, k + i) /\ k + i \in Nat \ {0}
      BY <1>1, <2>1 DEF Follows
    <3>2. (k + i) % 2 = 0 <=> i % 2 = 0
      BY <1>1, <2>1
    <3>3. QED
      BY <3>1, <3>2, HalfFacts
  <2>2. QED
    BY <2>1
<1>3. m \in 0 .. Len(text) /\ m % 2 = 0 /\ Len(text) - m <= 1
  <2>1. CASE Len(text) % 2 = 0
    BY <1>1, <2>1
  <2>2. CASE Len(text) % 2 # 0
    <3>1. Len(text) # 0 /\ (Len(text) - 1) % 2 = 0
      BY <1>1, <2>2
    <3>2. QED
      BY <1>1, <2>2, <3>1
  <2>3. QED
    BY <2>1, <2>2
<1>4. S = {0} \cup {i \in 1 .. Len(text) : i % 2 = 0}
  BY <1>1, <1>2
<1>5. m \in S /\ \A y \in S : m >= y
  BY <1>1, <1>3, <1>4
<1>6. \A x \in S : (\A y \in S : x >= y) => x = m
  <2>1. S \subseteq Int /\ m \in Int
    BY <1>1, <1>3, <1>4
  <2>2. ASSUME NEW x \in S, \A y \in S : x >= y
        PROVE  x = m
    <3> HIDE DEF S, m
    <3>1. x >= m /\ m >= x /\ x \in Int
      BY <1>5, <2>1, <2>2
    <3>2. QED
      BY <2>1, <3>1
  <2>3. QED
    BY <2>2
<1>7. Max(S) = m
  BY <1>5, <1>6 DEF Max
<1>8. QED
  BY <1>3, <1>7 DEF LastNewline

LEMMA GivenType ==
  ASSUME TypeOK
  PROVE  \A w \in Workers : IsFiniteSet(Places(w)) /\ Given(w) \in Nat
<1>1. DOMAIN handed = 1 .. Len(handed) /\ Len(handed) \in Nat
  BY DEF TypeOK
<1>2. IsFiniteSet(DOMAIN handed)
  BY <1>1, FS_Interval
<1>3. \A w \in Workers : Places(w) \subseteq DOMAIN handed
  BY DEF Places
<1>4. QED
  BY <1>2, <1>3, FS_Subset, FS_CardinalityType DEF Given

LEMMA CountGiven ==
  ASSUME NEW w \in Workers
  PROVE  L!Count(w) = Given(w) \div 2
BY DEF L!Count, Given, Places, L!Cardinality, Cardinality

\* What passing lines of w to the file does.
LEMMA Passing ==
  ASSUME TypeOK, NEW w \in Workers, NEW lines \in Seq(HalfLines),
         \A i \in DOMAIN lines : lines[i][1] = w,
         WriteFile(lines)
  PROVE  /\ handed' \in Seq(HalfLines)
         /\ flushed' \in 0 .. Len(handed')
         /\ file' \in Seq(HalfLines)
         /\ Given(w)' = Given(w) + Len(lines)
         /\ \A v \in Workers \ {w} : Given(v)' = Given(v)
<1> DEFINE new == (Len(handed) + 1) .. (Len(handed) + Len(lines))
<1>1. /\ handed' \in Seq(HalfLines)
      /\ Len(handed') = Len(handed) + Len(lines)
      /\ Len(handed) \in Nat /\ Len(lines) \in Nat
      /\ DOMAIN handed = 1 .. Len(handed)
      /\ DOMAIN handed' = 1 .. (Len(handed) + Len(lines))
      /\ DOMAIN lines = 1 .. Len(lines)
  BY DEF TypeOK, WriteFile
<1>2. \A i \in DOMAIN handed' :
         handed'[i] = IF i <= Len(handed) THEN handed[i] ELSE lines[i - Len(handed)]
  BY <1>1 DEF TypeOK, WriteFile
<1>3. flushed' \in 0 .. Len(handed')
  BY <1>1, WholeBlocks DEF WriteFile
<1>4. file' \in Seq(HalfLines)
  <2>1. \A i \in flushed + 1 .. flushed' : handed'[i] \in HalfLines
    BY <1>1, <1>3 DEF TypeOK
  <2>2. flushed + 1 \in Int /\ flushed' \in Int
    BY <1>1, <1>3 DEF TypeOK
  <2>3. SubSeq(handed', flushed + 1, flushed') \in Seq(HalfLines)
    BY <2>1, <2>2, SubSeqProperties
  <2>4. QED
    BY <2>3, ConcatProperties DEF TypeOK, WriteFile
<1>5. \A i \in new : i \in DOMAIN handed' /\ handed'[i][1] = w
  BY <1>1, <1>2
<1>6. DOMAIN handed' = DOMAIN handed \cup new /\ DOMAIN handed \cap new = {}
  BY <1>1
<1>7. \A i \in DOMAIN handed : handed'[i] = handed[i]
  BY <1>1, <1>2
<1>8. Places(w)' = Places(w) \cup new /\ Places(w) \cap new = {}
  BY <1>5, <1>6, <1>7 DEF Places
<1>9. IsFiniteSet(new) /\ Cardinality(new) = Len(lines)
  <2>1. /\ IsFiniteSet(new)
        /\ Cardinality(new) = IF Len(handed) + 1 > Len(handed) + Len(lines) THEN 0
                              ELSE Len(handed) + Len(lines) - (Len(handed) + 1) + 1
    <3>1. Len(handed) + 1 \in Int /\ Len(handed) + Len(lines) \in Int
      BY <1>1
    <3>2. QED
      BY <3>1, FS_Interval
  <2>2. QED
    BY <1>1, <2>1
<1>10. Given(w)' = Given(w) + Len(lines)
  <2>1. Places(w) \cap new = {} /\ Cardinality({}) = 0
    BY <1>8, FS_EmptySet
  <2>2. Given(w)' = Given(w) + Len(lines) - 0
    <3> HIDE DEF new
    <3>1. Cardinality(Places(w) \cup new)
             = Cardinality(Places(w)) + Cardinality(new) - Cardinality(Places(w) \cap new)
      BY <1>9, GivenType, FS_Union
    <3>2. QED
      BY <1>8, <1>9, <2>1, <3>1 DEF Given
  <2>3. QED
    BY <1>1, <2>2, GivenType
<1>11. ASSUME NEW v \in Workers \ {w}
       PROVE  Given(v)' = Given(v)
  <2>1. Places(v)' = Places(v)
    BY <1>5, <1>6, <1>7, <1>11 DEF Places
  <2>2. QED
    BY <2>1 DEF Given
<1>12. QED
  BY <1>1, <1>3, <1>4, <1>10, <1>11

\* What a logger that reads a chunk does with it: it passes on the next lines of
\* its worker, whole, and keeps the rest.
LEMMA ReadStep ==
  ASSUME LogInv, NEW w \in Workers, Read(w)
  PROVE  \E n \in 1 .. Len(pipe[w]), k \in Nat :
            LET end == 2 * k
            IN  /\ Len(buf[w]) + n - end \in {0, 1}
                /\ handed' = handed \o L!Halves(w, L!Count(w) + 1, L!Count(w) + k)
                /\ Given(w)' = Given(w) + end
                /\ \A v \in Workers \ {w} : Given(v)' = Given(v)
                /\ Len(buf'[w]) = Len(buf[w]) + n - end
                /\ Len(pipe'[w]) = Len(pipe[w]) - n
                /\ Follows(buf'[w], w, Given(w) + end)
                /\ Follows(pipe'[w], w, Given(w) + Len(buf[w]) + n)
                /\ \A v \in Workers \ {w} : buf'[v] = buf[v] /\ pipe'[v] = pipe[v]
                /\ TypeOK'
<1>1. PICK n \in 1 .. Len(pipe[w]) :
         LET text == buf[w] \o SubSeq(pipe[w], 1, n)
             end  == LastNewline(text)
         IN  /\ pipe' = [pipe EXCEPT ![w] = SubSeq(@, n + 1, Len(@))]
             /\ buf' = [buf EXCEPT ![w] = SubSeq(text, end + 1, Len(text))]
             /\ WriteFile(SubSeq(text, 1, end))
  BY DEF Read
<1> DEFINE chunk == SubSeq(pipe[w], 1, n)
           text  == buf[w] \o chunk
           end   == LastNewline(text)
           lines == SubSeq(text, 1, end)
           kept  == SubSeq(text, end + 1, Len(text))
           left  == SubSeq(pipe[w], n + 1, Len(pipe[w]))
           k     == end \div 2
           Part  == {h \in HalfLines : ~ IsTail(h)}
<1>2. /\ TypeOK /\ InOrder /\ Attended /\ logger[w] = "reading"
      /\ UNCHANGED <<life, logged, logger, copy, keeprunning, aborted, closed>>
      /\ Given(w) \in Nat /\ Given(w) % 2 = 0
  BY GivenType DEF Read, LogInv, InOrder
<1>3. /\ buf[w] \in Seq(Part) /\ buf[w] \in Seq(HalfLines) /\ pipe[w] \in Seq(HalfLines)
      /\ Len(buf[w]) \in Nat /\ Len(pipe[w]) \in Nat
      /\ DOMAIN buf[w] = 1 .. Len(buf[w]) /\ DOMAIN pipe[w] = 1 .. Len(pipe[w])
      /\ n \in Nat \ {0} /\ n <= Len(pipe[w])
  <2>1. buf[w] \in Seq(Part) /\ pipe[w] \in Seq(HalfLines)
    BY <1>2 DEF TypeOK
  <2>2. buf[w] \in Seq(HalfLines)
    BY <2>1, SeqMonotonic
  <2>3. QED
    BY <2>1, <2>2
<1>4. /\ chunk \in Seq(HalfLines) /\ Len(chunk) = n
      /\ \A i \in 1 .. n : chunk[i] = pipe[w][i]
  BY <1>3
<1>5. /\ text \in Seq(HalfLines) /\ Len(text) = Len(buf[w]) + n
      /\ DOMAIN text = 1 .. Len(text)
      /\ \A i \in DOMAIN text : text[i] = IF i <= Len(buf[w]) THEN buf[w][i]
                                                              ELSE pipe[w][i - Len(buf[w])]
  <2> HIDE DEF chunk
  <2>1. /\ text \in Seq(HalfLines) /\ Len(text) = Len(buf[w]) + Len(chunk)
        /\ \A i \in 1 .. Len(buf[w]) + Len(chunk) :
              text[i] = IF i <= Len(buf[w]) THEN buf[w][i] ELSE chunk[i - Len(buf[w])]
    <3>1. buf[w] \in Seq(HalfLines) /\ chunk \in Seq(HalfLines) /\ Len(chunk) = n
      BY <1>3, <1>4
    <3>2. QED
      BY <3>1, ConcatProperties DEF text
  <2>2. DOMAIN text = 1 .. Len(text)
    BY <2>1
  <2>3. \A i \in DOMAIN text : ~ (i <= Len(buf[w])) => i - Len(buf[w]) \in 1 .. n
    BY <1>3, <1>4, <2>1, <2>2
  <2>4. QED
    BY <1>4, <2>1, <2>2, <2>3
<1> HIDE DEF text
<1>6. Follows(text, w, Given(w))
  <2>1. ASSUME NEW i \in DOMAIN text
        PROVE  text[i] = Half(w, Given(w) + i)
    <3>1. i \in Nat /\ i <= Len(buf[w]) + n /\ i >= 1
      BY <1>3, <1>5, <2>1
    <3>2. CASE i <= Len(buf[w])
      <4>1. i \in DOMAIN buf[w] /\ text[i] = buf[w][i]
        BY <1>3, <1>5, <2>1, <3>1, <3>2
      <4>2. QED
        BY <1>2, <4>1 DEF InOrder, Follows
    <3>3. CASE ~ (i <= Len(buf[w]))
      <4> DEFINE j == i - Len(buf[w])
      <4>1. j \in DOMAIN pipe[w] /\ text[i] = pipe[w][j]
        BY <1>3, <1>5, <2>1, <3>1, <3>3
      <4>2. pipe[w][j] = Half(w, Given(w) + Len(buf[w]) + j)
        <5> HIDE DEF j
        <5>1. QED
          BY <1>2, <4>1 DEF InOrder, Follows
      <4>3. Given(w) + Len(buf[w]) + j = Given(w) + i
        BY <1>2, <1>3, <3>1
      <4>4. QED
        BY <4>1, <4>2, <4>3
    <3>4. QED
      BY <3>2, <3>3
  <2>2. QED
    BY <2>1 DEF Follows
<1>7. end \in 0 .. Len(text) /\ end % 2 = 0 /\ Len(text) - end <= 1
  BY <1>2, <1>5, <1>6, Cut
<1> HIDE DEF end
<1>8. k \in Nat /\ end = 2 * k /\ L!Count(w) \in Nat /\ Given(w) = 2 * L!Count(w)
  <2>1. end \in Nat
    BY <1>5, <1>7
  <2>2. QED
    BY <1>2, <1>7, <2>1, CountGiven
<1> HIDE DEF k
<1>9. /\ lines \in Seq(HalfLines) /\ Len(lines) = end /\ DOMAIN lines = 1 .. end
      /\ \A i \in 1 .. end : lines[i] = text[i] /\ i \in DOMAIN text
  <2>1. end \in Nat /\ Len(text) \in Nat /\ end <= Len(text)
    BY <1>5, <1>7
  <2>2. \A i \in 1 .. end : i \in DOMAIN text
    BY <1>5, <2>1
  <2>3. \A i \in 1 .. end : text[i] \in HalfLines
    BY <1>5, <2>2
  <2>4. /\ lines \in Seq(HalfLines)
        /\ Len(lines) = IF 1 <= end THEN end - 1 + 1 ELSE 0
        /\ \A i \in 1 .. end - 1 + 1 : lines[i] = text[1 + i - 1]
    BY <2>1, <2>3, SubSeqProperties
  <2>5. end - 1 + 1 = end /\ Len(lines) = end /\ DOMAIN lines = 1 .. end
    BY <2>1, <2>4
  <2>6. \A i \in 1 .. end : 1 + i - 1 = i
    OBVIOUS
  <2>7. QED
    BY <2>2, <2>4, <2>5, <2>6
<1>10. /\ kept \in Seq(HalfLines) /\ Len(kept) = Len(text) - end
       /\ DOMAIN kept = 1 .. (Len(text) - end)
       /\ \A i \in DOMAIN kept : kept[i] = text[end + i] /\ end + i \in DOMAIN text
  <2>1. end \in Nat /\ Len(text) \in Nat /\ end <= Len(text)
    BY <1>5, <1>7
  <2>2. \A i \in end + 1 .. Len(text) : text[i] \in HalfLines
    BY <1>5, <2>1
  <2>3. /\ kept \in Seq(HalfLines)
        /\ Len(kept) = IF end + 1 <= Len(text) THEN Len(text) - (end + 1) + 1 ELSE 0
        /\ \A i \in 1 .. Len(text) - (end + 1) + 1 : kept[i] = text[end + 1 + i - 1]
    BY <2>1, <2>2, SubSeqProperties
  <2>4. Len(kept) = Len(text) - end /\ DOMAIN kept = 1 .. (Len(text) - end)
    BY <2>1, <2>3
  <2>5. \A i \in DOMAIN kept : end + 1 + i - 1 = end + i /\ end + i \in 1 .. Len(text)
    BY <2>1, <2>4
  <2>6. QED
    BY <1>5, <2>1, <2>3, <2>4, <2>5
<1>11. /\ left \in Seq(HalfLines) /\ Len(left) = Len(pipe[w]) - n
       /\ DOMAIN left = 1 .. (Len(pipe[w]) - n)
       /\ \A i \in DOMAIN left : left[i] = pipe[w][n + i] /\ n + i \in DOMAIN pipe[w]
  BY <1>3
<1> HIDE DEF lines, kept, left
<1>12. \A i \in 1 .. end : lines[i] = Half(w, 2 * L!Count(w) + i)
  BY <1>6, <1>8, <1>9 DEF Follows
<1>13. lines = L!Halves(w, L!Count(w) + 1, L!Count(w) + k)
  <2>1. L!Count(w) + k \in Nat /\ 2 * (L!Count(w) + k - L!Count(w)) = end
    BY <1>8
  <2>2. L!Halves(w, L!Count(w) + 1, L!Count(w) + k)
           = [i \in 1 .. end |-> Half(w, 2 * L!Count(w) + i)]
    BY <1>8, <2>1, HalvesAreNext
  <2>3. QED
    BY <1>9, <1>12, <2>2
<1>14. \A i \in DOMAIN lines : lines[i][1] = w
  BY <1>9, <1>12 DEF Half
<1>15. /\ pipe' = [pipe EXCEPT ![w] = left]
       /\ buf' = [buf EXCEPT ![w] = kept]
       /\ WriteFile(lines)
  BY <1>1 DEF left, kept, lines, end, text
<1>16. /\ handed' \in Seq(HalfLines)
       /\ flushed' \in 0 .. Len(handed')
       /\ file' \in Seq(HalfLines)
       /\ Given(w)' = Given(w) + end
       /\ \A v \in Workers \ {w} : Given(v)' = Given(v)
  BY <1>2, <1>9, <1>14, <1>15, Passing
<1>17. /\ buf'[w] = kept /\ pipe'[w] = left
       /\ \A v \in Workers \ {w} : buf'[v] = buf[v] /\ pipe'[v] = pipe[v]
  BY <1>2, <1>15 DEF TypeOK
<1>18. Follows(kept, w, Given(w) + end)
  <2>1. ASSUME NEW i \in DOMAIN kept
        PROVE  kept[i] = Half(w, Given(w) + end + i)
    <3>1. kept[i] = Half(w, Given(w) + (end + i))
      BY <1>6, <1>10, <2>1 DEF Follows
    <3>2. Given(w) + (end + i) = Given(w) + end + i
      <4>1. Given(w) \in Int /\ end \in Int /\ i \in Int
        BY <1>2, <1>5, <1>7, <1>10, <2>1
      <4>2. \A x, y, z \in Int : x + (y + z) = x + y + z
        OBVIOUS
      <4>3. QED
        BY <4>1, <4>2
    <3>3. QED
      BY <3>1, <3>2
  <2>2. QED
    BY <2>1 DEF Follows
<1>19. Follows(left, w, Given(w) + Len(buf[w]) + n)
  <2>1. ASSUME NEW i \in DOMAIN left
        PROVE  left[i] = Half(w, Given(w) + Len(buf[w]) + n + i)
    <3>1. left[i] = Half(w, Given(w) + Len(buf[w]) + (n + i))
      BY <1>2, <1>11, <2>1 DEF InOrder, Follows
    <3>2. Given(w) + Len(buf[w]) + (n + i) = Given(w) + Len(buf[w]) + n + i
      BY <1>2, <1>3, <1>11, <2>1
    <3>3. QED
      BY <3>1, <3>2
  <2>2. QED
    BY <2>1 DEF Follows
<1>20. kept \in Seq(Part)
  <2>1. ASSUME NEW i \in DOMAIN kept
        PROVE  kept[i] \in Part
    <3>1. i = 1 /\ Given(w) + end + i \in Nat \ {0} /\ (Given(w) + end + i) % 2 # 0
      <4>1. end \in Nat /\ Len(text) \in Nat
        BY <1>5, <1>7
      <4>2. i = 1
        BY <1>7, <1>10, <2>1, <4>1
      <4>3. QED
        BY <1>2, <1>7, <4>1, <4>2
    <3>2. kept[i] = Half(w, Given(w) + end + i) /\ kept[i] \in HalfLines
      BY <1>10, <1>18, <2>1 DEF Follows
    <3>3. QED
      BY <3>1, <3>2, HalfFacts
  <2>2. QED
    BY <1>10, <2>1
<1>21. TypeOK'
  <2>1. buf' \in [Workers -> Seq(Part)] /\ pipe' \in [Workers -> Seq(HalfLines)]
    BY <1>2, <1>11, <1>15, <1>20 DEF TypeOK
  <2>2. \A v \in Workers : logger'[v] = "done" => pipe'[v] = <<>> /\ buf'[v] = <<>>
    BY <1>2, <1>17 DEF TypeOK
  <2>3. QED
    BY <1>2, <1>16, <2>1, <2>2 DEF TypeOK
<1>22. Len(buf[w]) + n - end \in {0, 1}
  BY <1>3, <1>5, <1>7
<1>23. /\ handed' = handed \o L!Halves(w, L!Count(w) + 1, L!Count(w) + k)
       /\ Len(buf'[w]) = Len(buf[w]) + n - end
       /\ Len(pipe'[w]) = Len(pipe[w]) - n
       /\ Follows(buf'[w], w, Given(w) + end)
       /\ Follows(pipe'[w], w, Given(w) + Len(buf[w]) + n)
  <2>1. handed' = handed \o L!Halves(w, L!Count(w) + 1, L!Count(w) + k)
    BY <1>13, <1>15 DEF WriteFile
  <2>2. /\ Len(buf'[w]) = Len(buf[w]) + n - end
        /\ Len(pipe'[w]) = Len(pipe[w]) - n
    <3>1. Len(buf'[w]) = Len(text) - end /\ Len(text) = Len(buf[w]) + n
      BY <1>5, <1>10, <1>17
    <3>2. Len(pipe'[w]) = Len(pipe[w]) - n
      BY <1>11, <1>17
    <3>3. Len(text) - end = Len(buf[w]) + n - end
      BY <1>3, <1>5, <1>7
    <3>4. QED
      BY <3>1, <3>2, <3>3
  <2>3. /\ Follows(buf'[w], w, Given(w) + end)
        /\ Follows(pipe'[w], w, Given(w) + Len(buf[w]) + n)
    BY <1>17, <1>18, <1>19
  <2>4. QED
    BY <2>1, <2>2, <2>3
<1>24. end = 2 * k /\ k \in Nat
  BY <1>8
<1>25. QED
  BY <1>16, <1>17, <1>21, <1>22, <1>23, <1>24

-----------------------------------------------------------------------------
LEMMA LogInvInit == Init => LogInv
<1>1. SUFFICES ASSUME Init PROVE LogInv
  OBVIOUS
<1>2. TypeOK
  <2>1. \A S : <<>> \in Seq(S) /\ Len(<<>>) = 0
    BY EmptySeq
  <2>2. flushed \in 0 .. Len(handed) /\ handed \in Seq(HalfLines) /\ file \in Seq(HalfLines)
    BY <1>1, <2>1 DEF Init
  <2>3. /\ pipe \in [Workers -> Seq(HalfLines)] /\ copy \in [Workers -> Seq(HalfLines)]
        /\ buf \in [Workers -> Seq({h \in HalfLines : ~ IsTail(h)})]
        /\ logged \in [Workers -> 0 .. MaxLines]
    BY <1>1, <2>1, AccessLogAssumption DEF Init
  <2>4. QED
    BY <1>1, <2>2, <2>3 DEF Init, TypeOK
<1>3. \A w \in Workers : Given(w) = 0
  <2>1. DOMAIN handed = {}
    BY <1>1 DEF Init
  <2>2. \A w \in Workers : Places(w) = {}
    BY <2>1 DEF Places
  <2>3. QED
    BY <2>2, FS_EmptySet DEF Given
<1>4. \A w \in Workers : logged[w] = 0 /\ pipe[w] = <<>> /\ buf[w] = <<>>
  BY <1>1 DEF Init
<1>5. InOrder
  BY <1>3, <1>4 DEF InOrder, Follows
<1>6. Attended /\ Closing
  BY <1>1, AccessLogAssumption DEF Init, Attended, Closing
<1>7. QED
  BY <1>2, <1>5, <1>6 DEF LogInv

\* Nothing of what a worker wrote is lost on its way.
LEMMA ReadKeeps ==
  ASSUME LogInv, NEW w \in Workers, Read(w)
  PROVE  LogInv'
<1>1. PICK n \in 1 .. Len(pipe[w]), k \in Nat :
         LET end == 2 * k
         IN  /\ Len(buf[w]) + n - end \in {0, 1}
             /\ Given(w)' = Given(w) + end
             /\ \A v \in Workers \ {w} : Given(v)' = Given(v)
             /\ Len(buf'[w]) = Len(buf[w]) + n - end
             /\ Len(pipe'[w]) = Len(pipe[w]) - n
             /\ Follows(buf'[w], w, Given(w) + end)
             /\ Follows(pipe'[w], w, Given(w) + Len(buf[w]) + n)
             /\ \A v \in Workers \ {w} : buf'[v] = buf[v] /\ pipe'[v] = pipe[v]
             /\ TypeOK'
  BY ReadStep
<1> DEFINE end == 2 * k
<1>2. /\ TypeOK /\ InOrder /\ Attended /\ Closing /\ logger[w] = "reading"
      /\ UNCHANGED <<life, logged, logger, keeprunning, aborted, closed>>
      /\ Given(w) \in Nat
  BY GivenType DEF Read, LogInv
<1>3. Len(buf[w]) \in Nat /\ Len(pipe[w]) \in Nat /\ logged[w] \in Nat /\ n \in Nat /\ end \in Nat
  BY <1>2 DEF TypeOK
<1>4. InOrder'
  <2>1. /\ Given(w)' % 2 = 0
        /\ Len(buf'[w]) <= 1
        /\ Follows(buf'[w], w, Given(w)')
        /\ Given(w)' + Len(buf'[w]) = Given(w) + Len(buf[w]) + n
    <3>1. Given(w)' % 2 = 0
      <4>1. Given(w) % 2 = 0 /\ Given(w)' = Given(w) + 2 * k
        BY <1>1, <1>2 DEF InOrder
      <4>2. QED
        BY <1>2, <4>1
    <3>2. Len(buf'[w]) <= 1 /\ Follows(buf'[w], w, Given(w)')
      BY <1>1
    <3>3. /\ Given(w)' = Given(w) + end
          /\ Len(buf'[w]) = Len(buf[w]) + n - end
      BY <1>1
    <3>4. Given(w) + end + (Len(buf[w]) + n - end) = Given(w) + Len(buf[w]) + n
      <4> HIDE DEF end
      <4>1. QED
        BY <1>2, <1>3
    <3>5. QED
      BY <3>1, <3>2, <3>3, <3>4
  <2>2. Follows(pipe'[w], w, Given(w)' + Len(buf'[w]))
    BY <1>1, <2>1
  <2>3. Given(w)' + Len(buf'[w]) + Len(pipe'[w]) = Given(w) + Len(buf[w]) + Len(pipe[w])
    <3>1. Len(pipe'[w]) = Len(pipe[w]) - n
      BY <1>1
    <3>2. Given(w) + Len(buf[w]) + n + (Len(pipe[w]) - n)
             = Given(w) + Len(buf[w]) + Len(pipe[w])
      BY <1>2, <1>3
    <3>3. QED
      BY <2>1, <3>1, <3>2
  <2>4. \/ Given(w)' + Len(buf'[w]) + Len(pipe'[w]) = 2 * logged'[w]
        \/ /\ life'[w] = "gone"
           /\ Given(w)' + Len(buf'[w]) + Len(pipe'[w]) = 2 * logged'[w] + 1
    BY <1>2, <2>3 DEF InOrder
  <2>5. ASSUME NEW v \in Workers \ {w}
        PROVE  Given(v)' = Given(v) /\ buf'[v] = buf[v] /\ pipe'[v] = pipe[v]
    BY <1>1, <2>5
  <2>6. QED
    BY <1>2, <2>1, <2>2, <2>4, <2>5 DEF InOrder
<1>5. Attended'
  <2>1. \A v \in Workers \ {w} : buf'[v] = buf[v] /\ pipe'[v] = pipe[v]
    BY <1>1
  <2>2. QED
    BY <1>2, <2>1 DEF Attended
<1>6. Closing'
  BY <1>2 DEF Closing
<1>7. QED
  BY <1>1, <1>4, <1>5, <1>6 DEF LogInv

LEMMA LogKeeps ==
  ASSUME LogInv, NEW w \in Workers, Log(w)
  PROVE  LogInv'
<1> DEFINE m == Given(w) + Len(buf[w])
<1>1. /\ TypeOK /\ InOrder /\ Attended /\ Closing
      /\ life[w] \in {"running", "ending", "deaf"} /\ logged[w] < MaxLines
      /\ logged' = [logged EXCEPT ![w] = logged[w] + 1]
      /\ pipe' = [pipe EXCEPT ![w] = pipe[w] \o Line(w, logged[w] + 1)]
      /\ UNCHANGED <<life, logger, buf, handed, flushed, copy, file, keeprunning, aborted, closed>>
      /\ Given(w) \in Nat
  BY GivenType DEF Alive, Log, LogInv
<1>2. /\ pipe[w] \in Seq(HalfLines) /\ Len(buf[w]) \in Nat /\ Len(pipe[w]) \in Nat
      /\ DOMAIN pipe[w] = 1 .. Len(pipe[w])
      /\ logged[w] \in Nat /\ m \in Nat /\ MaxLines \in Nat
      /\ logged[w] + 1 \in 1 .. MaxLines
  BY <1>1, AccessLogAssumption DEF TypeOK
<1>3. m + Len(pipe[w]) = 2 * logged[w]
  BY <1>1 DEF InOrder
<1>4. /\ Line(w, logged[w] + 1)[1] = Half(w, 2 * logged[w] + 1)
      /\ Line(w, logged[w] + 1)[2] = Half(w, 2 * logged[w] + 2)
      /\ Len(Line(w, logged[w] + 1)) = 2
      /\ Line(w, logged[w] + 1) \in Seq(HalfLines)
  <2>2. /\ Half(w, 2 * logged[w] + 1) = <<w, logged[w] + 1, "head">>
        /\ Half(w, 2 * logged[w] + 2) = <<w, logged[w] + 1, "tail">>
    BY <1>2, HalvesOfLine
  <2>3. /\ <<w, logged[w] + 1, "head">> \in HalfLines
        /\ <<w, logged[w] + 1, "tail">> \in HalfLines
    BY <1>2 DEF HalfLines
  <2>4. QED
    BY <2>2, <2>3 DEF Line
<1> DEFINE line == Line(w, logged[w] + 1)
<1>5. /\ pipe'[w] = pipe[w] \o line
      /\ logged'[w] = logged[w] + 1
      /\ \A v \in Workers \ {w} : pipe'[v] = pipe[v] /\ logged'[v] = logged[v]
      /\ \A v \in Workers : Given(v)' = Given(v)
  <2>1. \A v \in Workers : Given(v)' = Given(v)
    BY <1>1 DEF Given, Places
  <2>2. QED
    BY <1>1, <2>1 DEF TypeOK
<1> HIDE DEF line, m
<1>6. /\ pipe'[w] \in Seq(HalfLines) /\ Len(pipe'[w]) = Len(pipe[w]) + 2
      /\ \A i \in 1 .. Len(pipe[w]) + 2 :
            pipe'[w][i] = IF i <= Len(pipe[w]) THEN pipe[w][i] ELSE line[i - Len(pipe[w])]
  <2>1. line \in Seq(HalfLines) /\ Len(line) = 2
    BY <1>4 DEF line
  <2>2. /\ pipe[w] \o line \in Seq(HalfLines)
        /\ Len(pipe[w] \o line) = Len(pipe[w]) + Len(line)
        /\ \A i \in 1 .. Len(pipe[w]) + Len(line) :
              (pipe[w] \o line)[i]
                 = IF i <= Len(pipe[w]) THEN pipe[w][i] ELSE line[i - Len(pipe[w])]
    BY <1>2, <2>1, ConcatProperties
  <2>3. pipe'[w] = pipe[w] \o line
    BY <1>5 DEF line
  <2>4. QED
    BY <2>1, <2>2, <2>3
<1>7. DOMAIN pipe'[w] = 1 .. Len(pipe[w]) + 2
  BY <1>6
<1>8. Follows(pipe'[w], w, m)
  <2>1. ASSUME NEW i \in DOMAIN pipe'[w]
        PROVE  pipe'[w][i] = Half(w, m + i)
    <3>1. i \in 1 .. Len(pipe[w]) + 2
      BY <1>7, <2>1
    <3>2. CASE i <= Len(pipe[w])
      <4>1. i \in DOMAIN pipe[w] /\ pipe'[w][i] = pipe[w][i]
        BY <1>2, <1>6, <3>1, <3>2
      <4>2. QED
        BY <1>1, <4>1 DEF InOrder, Follows, m
    <3>3. CASE i = Len(pipe[w]) + 1
      <4>1. pipe'[w][i] = line[1]
        <5>1. ~ (i <= Len(pipe[w])) /\ i - Len(pipe[w]) = 1
          BY <1>2, <3>3
        <5>2. QED
          BY <1>6, <3>1, <5>1
      <4>2. m + i = 2 * logged[w] + 1
        BY <1>2, <1>3, <3>3
      <4>3. QED
        BY <1>4, <4>1, <4>2 DEF line
    <3>4. CASE i = Len(pipe[w]) + 2
      <4>1. pipe'[w][i] = line[2]
        <5>1. ~ (i <= Len(pipe[w])) /\ i - Len(pipe[w]) = 2
          BY <1>2, <3>4
        <5>2. QED
          BY <1>6, <3>1, <5>1
      <4>2. m + i = 2 * logged[w] + 2
        BY <1>2, <1>3, <3>4
      <4>3. QED
        BY <1>4, <4>1, <4>2 DEF line
    <3>5. i <= Len(pipe[w]) \/ i = Len(pipe[w]) + 1 \/ i = Len(pipe[w]) + 2
      BY <1>2, <3>1
    <3>6. QED
      BY <3>2, <3>3, <3>4, <3>5
  <2>2. QED
    BY <2>1 DEF Follows
<1>9. InOrder'
  <2>1. m + Len(pipe'[w]) = 2 * logged'[w]
    <3>1. m + (Len(pipe[w]) + 2) = m + Len(pipe[w]) + 2 /\ 2 * (logged[w] + 1) = 2 * logged[w] + 2
      BY <1>2
    <3>2. QED
      BY <1>3, <1>5, <1>6, <3>1
  <2>2. buf' = buf /\ life' = life
    BY <1>1
  <2>3. QED
    BY <1>1, <1>5, <1>8, <2>1, <2>2 DEF InOrder, m
<1>10. TypeOK'
  <2>1. pipe' \in [Workers -> Seq(HalfLines)] /\ logged' \in [Workers -> 0 .. MaxLines]
    BY <1>1, <1>2, <1>5, <1>6 DEF TypeOK
  <2>2. \A v \in Workers : logger[v] = "done" => v # w
    BY <1>1 DEF Attended
  <2>3. \A v \in Workers : logger'[v] = "done" => pipe'[v] = <<>> /\ buf'[v] = <<>>
    BY <1>1, <1>5, <2>2 DEF TypeOK
  <2>4. QED
    BY <1>1, <2>1, <2>3 DEF TypeOK
<1>11. Attended' /\ Closing'
  <2>1. \A v \in Workers : logger[v] = "none" => v # w
    BY <1>1 DEF Attended
  <2>2. QED
    BY <1>1, <1>5, <2>1 DEF Attended, Closing
<1>12. QED
  BY <1>9, <1>10, <1>11 DEF LogInv

\* What is not about the halves that a worker has written keeps their order.
LEMMA InOrderKept ==
  ASSUME LogInv, UNCHANGED <<logged, buf, handed>>, NEW w \in Workers,
         pipe'[w] = pipe[w], life[w] = "gone" => life'[w] = "gone"
  PROVE  /\ Len(buf'[w]) <= 1 /\ Given(w)' % 2 = 0
         /\ Follows(buf'[w], w, Given(w)')
         /\ Follows(pipe'[w], w, Given(w)' + Len(buf'[w]))
         /\ \/ Given(w)' + Len(buf'[w]) + Len(pipe'[w]) = 2 * logged'[w]
            \/ /\ life'[w] = "gone"
               /\ Given(w)' + Len(buf'[w]) + Len(pipe'[w]) = 2 * logged'[w] + 1
<1>1. Given(w)' = Given(w)
  BY DEF Given, Places
<1>2. QED
  BY <1>1 DEF LogInv, InOrder

LEMMA EndOfFileKeeps ==
  ASSUME LogInv, NEW w \in Workers, EndOfFile(w)
  PROVE  LogInv'
<1>1. InOrder'
  BY InOrderKept DEF EndOfFile, InOrder
<1>2. TypeOK' /\ Attended' /\ Closing'
  BY DEF EndOfFile, LogInv, TypeOK, Attended, Closing
<1>3. QED
  BY <1>1, <1>2 DEF LogInv

LEMMA EndsKeeps ==
  ASSUME LogInv, NEW w \in Workers, Ends(w)
  PROVE  LogInv'
<1>1. life' \in [Workers -> {"unborn", "running", "ending", "deaf", "gone"}]
      /\ \A v \in Workers : life[v] = "gone" => life'[v] = "gone"
  BY DEF Alive, Ends, LogInv, TypeOK
<1>2. InOrder'
  BY <1>1, InOrderKept DEF Alive, Ends, InOrder
<1>3. file' \in Seq(HalfLines)
  BY DEF Alive, Ends, LogInv, TypeOK
<1>4. TypeOK' /\ Attended' /\ Closing'
  BY <1>1, <1>3 DEF Alive, Ends, LogInv, TypeOK, Attended, Closing
<1>5. QED
  BY <1>2, <1>4 DEF LogInv

LEMMA KilledKeeps ==
  ASSUME LogInv, NEW w \in Workers, Killed(w)
  PROVE  LogInv'
<1> DEFINE half == <<w, logged[w] + 1, "head">>
<1>1. /\ TypeOK /\ InOrder /\ Attended /\ Closing
      /\ life[w] \in {"running", "ending", "deaf"}
      /\ life' = [life EXCEPT ![w] = "gone"]
      /\ pipe' = pipe \/ pipe' = [pipe EXCEPT ![w] = Append(pipe[w], half)]
      /\ UNCHANGED <<logged, logger, buf, handed, flushed, copy, file, keeprunning, aborted, closed>>
      /\ Given(w) \in Nat
  BY GivenType DEF Alive, Killed, LogInv
<1>2. /\ life' \in [Workers -> {"unborn", "running", "ending", "deaf", "gone"}]
      /\ life'[w] = "gone"
      /\ \A v \in Workers \ {w} : life'[v] = life[v] /\ pipe'[v] = pipe[v]
  BY <1>1 DEF TypeOK
<1>3. /\ pipe[w] \in Seq(HalfLines) /\ Len(buf[w]) \in Nat /\ Len(pipe[w]) \in Nat
      /\ DOMAIN pipe[w] = 1 .. Len(pipe[w])
      /\ logged[w] \in Nat /\ logged[w] + 1 \in 1 .. MaxLines + 1
  BY <1>1, AccessLogAssumption DEF TypeOK
<1>4. Given(w) + Len(buf[w]) + Len(pipe[w]) = 2 * logged[w]
  BY <1>1 DEF InOrder
<1>5. Given(w)' = Given(w)
  BY <1>1 DEF Given, Places
<1>6. Given(w) + Len(buf[w]) + (Len(pipe[w]) + 1) = 2 * logged[w] + 1
  <2>1. Given(w) \in Nat /\ Len(buf[w]) \in Nat /\ Len(pipe[w]) \in Nat /\ logged[w] \in Nat
    BY <1>1, <1>3
  <2>2. \A g, b, p \in Nat : g + b + (p + 1) = g + b + p + 1
    OBVIOUS
  <2>3. Given(w) + Len(buf[w]) + (Len(pipe[w]) + 1) = Given(w) + Len(buf[w]) + Len(pipe[w]) + 1
    BY <2>1, <2>2
  <2>4. QED
    BY <1>4, <2>3
<1>7. CASE pipe' = pipe
  <2>1. InOrder'
    BY <1>1, <1>2, <1>7, InOrderKept DEF InOrder
  <2>2. TypeOK' /\ Attended' /\ Closing'
    BY <1>1, <1>2, <1>7 DEF TypeOK, Attended, Closing
  <2>3. QED
    BY <2>1, <2>2 DEF LogInv
<1>8. CASE pipe' = [pipe EXCEPT ![w] = Append(pipe[w], half)]
  <2>1. half \in HalfLines /\ half = Half(w, 2 * logged[w] + 1)
    BY <1>3, HalvesOfLine DEF HalfLines
  <2> HIDE DEF half
  <2>2. pipe'[w] = Append(pipe[w], half)
    BY <1>1, <1>8 DEF TypeOK
  <2>3. /\ pipe'[w] \in Seq(HalfLines)
        /\ Len(pipe'[w]) = Len(pipe[w]) + 1
        /\ DOMAIN pipe'[w] = 1 .. Len(pipe[w]) + 1
        /\ \A i \in 1 .. Len(pipe[w]) : pipe'[w][i] = pipe[w][i]
        /\ pipe'[w][Len(pipe[w]) + 1] = half
    BY <1>3, <2>1, <2>2
  <2>4. Follows(pipe'[w], w, Given(w) + Len(buf[w]))
    <3>1. ASSUME NEW i \in DOMAIN pipe'[w]
          PROVE  pipe'[w][i] = Half(w, Given(w) + Len(buf[w]) + i)
      <4>1. CASE i \in 1 .. Len(pipe[w])
        BY <1>1, <1>3, <2>3, <4>1 DEF InOrder, Follows
      <4>2. CASE i = Len(pipe[w]) + 1
        <5>1. Given(w) + Len(buf[w]) + i = 2 * logged[w] + 1
          BY <1>6, <4>2
        <5>2. QED
          BY <2>1, <2>3, <4>2, <5>1
      <4>3. QED
        BY <1>3, <2>3, <3>1, <4>1, <4>2
    <3>2. QED
      BY <3>1 DEF Follows
  <2>5. Given(w) + Len(buf[w]) + Len(pipe'[w]) = 2 * logged[w] + 1
    BY <1>6, <2>3
  <2>6. InOrder'
    <3>1. ASSUME NEW v \in Workers \ {w}
          PROVE  /\ Len(buf'[v]) <= 1 /\ Given(v)' % 2 = 0
                 /\ Follows(buf'[v], v, Given(v)')
                 /\ Follows(pipe'[v], v, Given(v)' + Len(buf'[v]))
                 /\ \/ Given(v)' + Len(buf'[v]) + Len(pipe'[v]) = 2 * logged'[v]
                    \/ /\ life'[v] = "gone"
                       /\ Given(v)' + Len(buf'[v]) + Len(pipe'[v]) = 2 * logged'[v] + 1
      BY <1>1, <1>2, <3>1, InOrderKept
    <3>2. buf' = buf /\ logged' = logged
      BY <1>1
    <3>3. QED
      BY <1>1, <1>2, <1>5, <2>4, <2>5, <3>1, <3>2 DEF InOrder
  <2>7. TypeOK'
    <3>1. pipe' \in [Workers -> Seq(HalfLines)]
      BY <1>1, <1>8, <2>2, <2>3 DEF TypeOK
    <3>2. logger[w] # "done"
      BY <1>1 DEF Attended
    <3>3. \A v \in Workers : logger'[v] = "done" => pipe'[v] = <<>> /\ buf'[v] = <<>>
      BY <1>1, <1>2, <3>2 DEF TypeOK
    <3>4. QED
      BY <1>1, <1>2, <3>1, <3>3 DEF TypeOK
  <2>8. Attended' /\ Closing'
    <3>1. logger[w] # "none"
      BY <1>1 DEF Attended
    <3>2. QED
      BY <1>1, <1>2, <3>1 DEF Attended, Closing
  <2>9. QED
    BY <2>6, <2>7, <2>8 DEF LogInv
<1>9. QED
  BY <1>1, <1>7, <1>8

LEMMA RespawnKeeps ==
  ASSUME LogInv, NEW w \in Workers, Respawn(w)
  PROVE  LogInv'
<1>1. /\ TypeOK /\ Attended /\ Closing
      /\ keeprunning /\ life[w] = "unborn"
      /\ life' = [life EXCEPT ![w] = "running"]
      /\ logger' = [logger EXCEPT ![w] = "reading"]
      /\ copy' = [copy EXCEPT ![w] = Buffer]
      /\ UNCHANGED <<logged, pipe, buf, handed, flushed, file, keeprunning, aborted, closed>>
  BY DEF Respawn, LogInv
<1>2. /\ life' \in [Workers -> {"unborn", "running", "ending", "deaf", "gone"}]
      /\ logger' \in [Workers -> {"none", "reading", "done"}]
      /\ life'[w] = "running" /\ logger'[w] = "reading"
      /\ \A v \in Workers \ {w} : life'[v] = life[v] /\ logger'[v] = logger[v]
  BY <1>1 DEF TypeOK
<1>3. InOrder'
  BY <1>1, <1>2, InOrderKept DEF InOrder
<1>4. copy' \in [Workers -> Seq(HalfLines)]
  <2>1. Buffer \in Seq(HalfLines)
    BY <1>1 DEF TypeOK, Buffer
  <2>2. QED
    BY <1>1, <2>1 DEF TypeOK
<1>5. TypeOK'
  BY <1>1, <1>2, <1>4 DEF TypeOK
<1>6. Attended' /\ Closing'
  BY <1>1, <1>2 DEF Attended, Closing
<1>7. QED
  BY <1>3, <1>5, <1>6 DEF LogInv

LEMMA StopKeeps ==
  ASSUME LogInv, Stop
  PROVE  LogInv'
<1>1. /\ life' \in [Workers -> {"unborn", "running", "ending", "deaf", "gone"}]
      /\ \A v \in Workers : /\ life[v] = "gone" <=> life'[v] = "gone"
                            /\ life[v] = "unborn" <=> life'[v] = "unborn"
  <2>1. PICK ws \in SUBSET Running : Terminate(ws)
    BY DEF Stop
  <2>2. PICK lost \in SUBSET ws :
           life' = [w \in Workers |-> IF w \in lost THEN "deaf"
                                      ELSE IF w \in ws THEN "ending" ELSE life[w]]
    BY <2>1 DEF Terminate
  <2>3. QED
    BY <2>1, <2>2 DEF Running, LogInv, TypeOK
<1>2. InOrder'
  BY <1>1, InOrderKept DEF Stop, InOrder
<1>3. TypeOK' /\ Attended' /\ Closing'
  BY <1>1 DEF Stop, LogInv, TypeOK, Attended, Closing
<1>4. QED
  BY <1>2, <1>3 DEF LogInv

LEMMA CloseKeeps ==
  ASSUME LogInv, Close
  PROVE  LogInv'
<1>1. InOrder'
  BY InOrderKept DEF Close, InOrder
<1>2. file' \in Seq(HalfLines) /\ flushed' \in 0 .. Len(handed')
  BY DEF Close, LogInv, TypeOK, Buffer
<1>3. TypeOK' /\ Attended' /\ Closing'
  BY <1>2 DEF Close, LogInv, TypeOK, Attended, Closing
<1>4. QED
  BY <1>1, <1>3 DEF LogInv

LEMMA LogInvNext == LogInv /\ [Next]_vars => LogInv'
<1>1. SUFFICES ASSUME LogInv, [Next]_vars PROVE LogInv'
  OBVIOUS
<1>2. CASE UNCHANGED vars
  <2>1. InOrder'
    BY <1>1, <1>2, InOrderKept DEF vars, InOrder
  <2>2. TypeOK' /\ Attended' /\ Closing'
    BY <1>1, <1>2 DEF vars, LogInv, TypeOK, Attended, Closing
  <2>3. QED
    BY <2>1, <2>2 DEF LogInv
<1>3. ASSUME NEW w \in Workers,
             Log(w) \/ Read(w) \/ EndOfFile(w) \/ Ends(w) \/ Killed(w) \/ Respawn(w)
      PROVE  LogInv'
  BY <1>1, <1>3, LogKeeps, ReadKeeps, EndOfFileKeeps, EndsKeeps, KilledKeeps, RespawnKeeps
<1>4. CASE Stop \/ Close
  BY <1>1, <1>4, StopKeeps, CloseKeeps
<1>5. QED
  BY <1>1, <1>2, <1>3, <1>4 DEF Next

LEMMA LogInvAlways == Spec => []LogInv
<1>1. QED
  BY LogInvInit, LogInvNext, PTL DEF Spec

-----------------------------------------------------------------------------
\* The variables keep their types: buf never holds a newline, and the loggers
\* that are done have left nothing behind.
THEOREM TypeCorrect == Spec => []TypeOK
<1>1. LogInv => TypeOK
  BY DEF LogInv
<1>2. QED
  BY <1>1, LogInvAlways, PTL

\* When MultiProcessDaemon.stop() closes the access file, all that was logged has
\* been passed to it and nothing is left in its buffer, whatever was killed, cut
\* or respawned before.
THEOREM NothingLostAlways == Spec => []NothingLost
<1>1. LogInv => NothingLost
  <2>1. SUFFICES ASSUME LogInv, closed PROVE NothingLost
    BY DEF NothingLost
  <2>2. Buffer = <<>>
    BY <2>1, SubSeqEmpty DEF LogInv, TypeOK, Closing, Buffer
  <2>3. ASSUME NEW w \in Workers
        PROVE  L!Count(w) = logged[w]
    <3>1. logger[w] \in {"none", "done"}
      BY <2>1 DEF LogInv, TypeOK, Closing
    <3>2. pipe[w] = <<>> /\ buf[w] = <<>>
      BY <2>1, <3>1 DEF LogInv, TypeOK, Attended
    <3>3. Given(w) \in Nat /\ logged[w] \in Nat /\ Given(w) % 2 = 0
      BY <2>1, GivenType DEF LogInv, TypeOK, InOrder
    <3>4. Given(w) = 2 * logged[w] \/ Given(w) = 2 * logged[w] + 1
      BY <2>1, <3>2, <3>3 DEF LogInv, InOrder
    <3>5. Given(w) \div 2 = logged[w]
      BY <3>3, <3>4
    <3>6. QED
      BY <3>5, CountGiven
  <2>4. QED
    BY <2>2, <2>3 DEF NothingLost
<1>2. QED
  BY <1>1, LogInvAlways, PTL

\* The log implements AtomicLog: what passes into it, at one go, is the next whole
\* lines of one worker.
THEOREM ImplementsAtomicLog == Spec => LogSpec
<1>1. Init => L!Init
  BY DEF Init, L!Init
<1>2. LogInv /\ [Next]_vars => [L!Next]_handed
  <2>1. SUFFICES ASSUME LogInv, [Next]_vars PROVE L!Next \/ UNCHANGED handed
    OBVIOUS
  <2>2. ASSUME NEW w \in Workers, Read(w)
        PROVE  L!Next \/ UNCHANGED handed
    <3>1. PICK n \in 1 .. Len(pipe[w]), k \in Nat :
             /\ Len(buf[w]) + n - 2 * k \in {0, 1}
             /\ handed' = handed \o L!Halves(w, L!Count(w) + 1, L!Count(w) + k)
      BY <2>1, <2>2, ReadStep
    <3>2. /\ Given(w) \in Nat /\ Len(buf[w]) \in Nat /\ Len(pipe[w]) \in Nat
          /\ logged[w] \in 0 .. MaxLines /\ handed \in Seq(HalfLines)
      BY <2>1, GivenType DEF LogInv, TypeOK
    <3>3. Given(w) = 2 * L!Count(w) /\ L!Count(w) \in Nat
      BY <2>1, <3>2, CountGiven DEF LogInv, InOrder
    <3>4. L!Count(w) + k <= MaxLines
      <4>1. Given(w) + Len(buf[w]) + Len(pipe[w]) <= 2 * logged[w] + 1
        BY <2>1, <3>2 DEF LogInv, InOrder
      <4>2. n \in Nat /\ n <= Len(pipe[w]) /\ 2 * k <= Len(buf[w]) + n
        BY <3>1, <3>2
      <4>3. Given(w) + 2 * k <= 2 * logged[w] + 1 /\ logged[w] <= MaxLines
        <5>1. /\ Given(w) \in Nat /\ Len(buf[w]) \in Nat /\ Len(pipe[w]) \in Nat
              /\ logged[w] \in Nat /\ logged[w] <= MaxLines
          BY <3>2, AccessLogAssumption
        <5>2. Given(w) + 2 * k <= Given(w) + Len(buf[w]) + Len(pipe[w])
          BY <4>2, <5>1
        <5>3. \A x, y, z \in Int : x <= y /\ y <= z => x <= z
          OBVIOUS
        <5>4. /\ Given(w) + 2 * k \in Int
              /\ Given(w) + Len(buf[w]) + Len(pipe[w]) \in Int
              /\ 2 * logged[w] + 1 \in Int
          BY <5>1
        <5>5. QED
          BY <4>1, <5>1, <5>2, <5>3, <5>4
      <4>4. MaxLines \in Int /\ logged[w] \in Int
        BY <3>2, AccessLogAssumption
      <4>5. 2 * (L!Count(w) + k) <= 2 * logged[w] + 1
        BY <3>3, <4>3
      <4>6. QED
        BY <3>3, <4>3, <4>4, <4>5
    <3>5. CASE k = 0
      <4>1. L!Halves(w, L!Count(w) + 1, L!Count(w) + k) = <<>>
        <5>1. L!Count(w) + k = L!Count(w)
          BY <3>3, <3>5
        <5>2. QED
          BY <3>3, <5>1, NoHalves
      <4>2. QED
        BY <3>1, <3>2, <4>1, ConcatEmptySeq
    <3>6. CASE k # 0
      <4>1. L!Count(w) + k \in L!Count(w) + 1 .. MaxLines
        BY <3>3, <3>4, <3>6, AccessLogAssumption
      <4>2. L!Add(w)
        BY <3>1, <4>1 DEF L!Add
      <4>3. QED
        BY <4>2 DEF L!Next
    <3>7. QED
      BY <3>5, <3>6
  <2>3. ASSUME NEW w \in Workers,
               Log(w) \/ EndOfFile(w) \/ Ends(w) \/ Killed(w) \/ Respawn(w)
        PROVE  UNCHANGED handed
    BY <2>3 DEF Log, EndOfFile, Ends, Killed, Respawn
  <2>4. CASE Stop \/ Close \/ UNCHANGED vars
    BY <2>4 DEF Stop, Close, vars
  <2>5. QED
    BY <2>1, <2>2, <2>3, <2>4 DEF Next
<1>3. QED
  BY <1>1, <1>2, LogInvAlways, PTL DEF Spec, LogSpec, L!Spec
=============================================================================
