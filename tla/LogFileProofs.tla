---------------------------- MODULE LogFileProofs ----------------------------
(***************************************************************************)
(* LogFile for every buffer size and every choice of strings, counts and   *)
(* offsets: for an application that stays inside the file the offset stays *)
(* there too, and the file is the one of NclFile, which differs from that  *)
(* of PosixFile in the calls it lists and in no other.                     *)
(***************************************************************************)
EXTENDS LogFile, SequenceTheorems, WellFoundedInduction, TLAPS

-----------------------------------------------------------------------------
(* Arithmetic and the operators on the buffer. *)

\* A number of the range of size_t is its own remainder: the conversion and the
\* subtraction give what the integers give.
LEMMA NoWrap ==
    ASSUME NEW a \in Nat, a < SizeRange
    PROVE  a % SizeRange = a
BY LogFileAssumption

\* A set of numbers that is not empty has a lowest one.
LEMMA LowestExists ==
    ASSUME NEW S, S \subseteq Nat, S # {}
    PROVE  \E i \in S : \A j \in S : i <= j
<1> DEFINE R == OpToRel(<, Nat)
<1>1. IsWellFoundedOn(R, Nat)
  BY NatLessThanWellFounded
<1>2. \A x, y \in Nat : <<x, y>> \in R <=> x < y
  BY DEF OpToRel
<1> HIDE DEF R
<1>3. PICK i \in S : \A j \in S : ~(<<j, i>> \in R)
  BY <1>1, WFMin
<1>4. ASSUME NEW j \in S PROVE i <= j
  <2>1. i \in Nat /\ j \in Nat
    OBVIOUS
  <2>2. ~(j < i)
    BY <1>2, <1>3, <2>1
  <2> QED BY <2>1, <2>2
<1> QED BY <1>4

\* The abstract file is a sequence of file_size characters.
LEMMA ViewFacts ==
    ASSUME OffsetInFile, file_size \in Nat
    PROVE  /\ View \in Seq(Nat) /\ Len(View) = file_size
           /\ \A i \in 1 .. file_size : View[i] = buffer[i - 1] /\ i - 1 \in Cells
<1> USE LogFileAssumption
<1>1. \A i \in 1 .. file_size : i - 1 \in Cells
  BY DEF OffsetInFile, Cells
<1>2. \A i \in 1 .. file_size : buffer[i - 1] \in Nat
  BY <1>1 DEF OffsetInFile
<1> QED BY <1>1, <1>2 DEF View

\* What Read and ReadPos copy is what a POSIX file has there.
LEMMA WindowIsLoaded ==
    ASSUME OffsetInFile, file_size \in Nat, NEW o \in 0 .. file_size, NEW n \in Nat
    PROVE  LET size == LeastOf(n, file_size - o) IN
           /\ File!Window(View, o, n) = Loaded(o, size)
           /\ Len(File!Window(View, o, n)) = size
           /\ \A i \in 1 .. size : Loaded(o, size)[i] = buffer[o + i - 1] /\ o + i - 1 \in Cells
<1> USE LogFileAssumption
<1> DEFINE size == LeastOf(n, file_size - o)
           w == File!Window(View, o, n)
           l == Loaded(o, size)
<1>1. size \in Nat /\ o + size = File!LeastOf(o + n, Len(View)) /\ o + size <= file_size
  BY ViewFacts DEF LeastOf, File!LeastOf
<1>2. w = SubSeq(View, o + 1, o + size)
  BY <1>1 DEF File!Window
<1> HIDE DEF size
<1>3. \A i \in 1 .. size : o + i - 1 \in Cells /\ buffer[o + i - 1] \in Nat
  BY <1>1 DEF Cells, OffsetInFile
<1>4. l \in Seq(Nat) /\ Len(l) = size /\ \A i \in 1 .. size : l[i] = buffer[o + i - 1]
  <2>1. l = [i \in 1 .. size |-> buffer[o + i - 1]]
    BY <1>1, <1>3 DEF Loaded
  <2>2. \A i \in 1 .. size : buffer[o + i - 1] \in Nat
    BY <1>3
  <2> HIDE DEF l
  <2>3. l \in [1 .. size -> Nat] /\ \A i \in 1 .. size : l[i] = buffer[o + i - 1]
    BY <2>1, <2>2
  <2>4. l \in Seq(Nat) /\ Len(l) = size
    BY <1>1, <2>3
  <2> QED BY <2>3, <2>4
<1>5. /\ w \in Seq(Nat) /\ Len(w) = size
      /\ \A i \in 1 .. size : w[i] = View[o + i]
  <2>1. View \in Seq(Nat) /\ Len(View) = file_size
    BY ViewFacts
  <2>2. o + 1 \in 1 .. Len(View) + 1 /\ o + size \in o .. Len(View)
    BY <1>1, <2>1
  <2> QED BY <1>1, <1>2, <2>1, <2>2, SubSeqProperties
<1>6. \A i \in 1 .. size : w[i] = l[i]
  <2>1. ASSUME NEW i \in 1 .. size PROVE View[o + i] = buffer[o + i - 1]
    <3>1. o + i \in 1 .. file_size
      BY <1>1
    <3>2. (o + i) - 1 = o + i - 1
      OBVIOUS
    <3> QED BY <3>1, <3>2, ViewFacts
  <2> QED BY <1>4, <1>5, <2>1
<1> HIDE DEF w, l
<1>7. w = l
  BY <1>4, <1>5, <1>6, SeqEqual
<1> QED BY <1>3, <1>4, <1>5, <1>7 DEF w, l, size

\* OffsetInFile and, for the integers, that offset and size are numbers.
LogInv == OffsetInFile /\ buf_offset \in Nat /\ file_size \in Nat

\* Inside the file no size_t subtraction wraps: a write stores its whole string,
\* and a read gets what it asks for up to the end of the file.
LEMMA SizeFacts ==
    ASSUME LogInv
    PROVE  /\ \A p \in 0 .. BufSize, s \in Seq(Nat) : p + Len(s) <= BufSize =>
                 LeastOf(Len(s), Minus(getSizeInBytes, p)) = Len(s)
           /\ \A p \in 0 .. file_size, n \in Nat :
                 LeastOf(n, Minus(file_size, p)) = LeastOf(n, file_size - p)
<1> USE LogFileAssumption
<1>1. ASSUME NEW p \in 0 .. BufSize, NEW s \in Seq(Nat), p + Len(s) <= BufSize
      PROVE  LeastOf(Len(s), Minus(getSizeInBytes, p)) = Len(s)
  <2>1. Len(s) \in Nat
    BY LenProperties
  <2>2. getSizeInBytes - p \in Nat /\ getSizeInBytes - p < SizeRange /\ getSizeInBytes - p > Len(s)
    BY <1>1, <2>1 DEF getSizeInBytes
  <2>3. Minus(getSizeInBytes, p) = getSizeInBytes - p
    BY <2>2, NoWrap DEF Minus
  <2> QED BY <2>1, <2>2, <2>3 DEF LeastOf
<1>2. ASSUME NEW p \in 0 .. file_size, NEW n \in Nat
      PROVE  LeastOf(n, Minus(file_size, p)) = LeastOf(n, file_size - p)
  <2>1. file_size - p \in Nat /\ file_size - p < SizeRange
    BY DEF LogInv, OffsetInFile
  <2> QED BY <2>1, NoWrap DEF Minus
<1> QED BY <1>1, <1>2

\* GetLine arrives at the line of NclFile, if it does not leave the file.
LEMMA LineIsLoaded ==
    ASSUME LogInv, ~Eof, NEW n \in Nat \ {0}, buf_offset + LineLength(n) <= file_size
    PROVE  /\ LineLength(n) \in 0 .. file_size - buf_offset
           /\ File!LineNcl(View, buf_offset, n) = Loaded(buf_offset, LineLength(n))
           /\ Len(File!LineNcl(View, buf_offset, n)) = LineLength(n)
<1> USE LogFileAssumption
<1> DEFINE o == buf_offset
           C(k) == Loaded(o + k, 1)[1]
           Stops(k) == C(k) = Newline \/ o + k >= file_size \/ k = n - 1
           First(k) == Stops(k) /\ \A j \in 1 .. k - 1 : ~Stops(j)
           len == CHOOSE k \in 1 .. n - 1 : First(k)
           L == LeastOf(n - 1, file_size - o)
           M == LeastOf(n, file_size - o)
           w == File!Window(View, o, n)
           short == File!Window(View, o, n - 1)
           ends == {i \in 2 .. Len(w) : w[i] = Newline}
<1>1. o \in Nat /\ file_size \in Nat /\ o < file_size /\ file_size <= BufSize /\ n - 1 \in Nat
  BY DEF LogInv, OffsetInFile, Eof
<1>2. LineLength(n) = IF n = 1 THEN 0 ELSE IF C(len) = Newline THEN len + 1 ELSE len
  BY DEF LineLength
<1>3. File!LineNcl(View, o, n) = IF ends = {} THEN short
                                 ELSE SubSeq(w, 1, CHOOSE i \in ends : \A j \in ends : i <= j)
  BY DEF File!LineNcl
<1>4. /\ L \in Nat /\ L <= n - 1 /\ L <= file_size - o /\ (L = n - 1 \/ L = file_size - o)
      /\ M \in Nat /\ M <= n /\ M <= file_size - o /\ (M = n \/ M = file_size - o)
  BY <1>1 DEF LeastOf
<1>s. OffsetInFile /\ file_size \in Nat /\ o \in 0 .. file_size /\ n \in Nat /\ n - 1 \in Nat
  BY <1>1 DEF LogInv
<1>5. Len(w) = M /\ \A i \in 1 .. M : w[i] = buffer[o + i - 1] /\ o + i - 1 \in Cells
  <2>1. /\ w = Loaded(o, M) /\ Len(w) = M
        /\ \A i \in 1 .. M : Loaded(o, M)[i] = buffer[o + i - 1] /\ o + i - 1 \in Cells
    BY <1>s, WindowIsLoaded
  <2> QED BY <2>1
<1>w. short = Loaded(o, L) /\ Len(short) = L
  BY <1>s, WindowIsLoaded
\* The cells of the window, as GetLine's loop sees them.
<1>6. \A i \in 1 .. M : C(i - 1) = w[i]
  <2>1. \A i \in 1 .. M : C(i - 1) = buffer[o + i - 1]
    <3> SUFFICES ASSUME NEW i \in 1 .. M PROVE C(i - 1) = buffer[o + i - 1]
      OBVIOUS
    <3>1. o + (i - 1) + 1 - 1 = o + i - 1 /\ o + i - 1 \in Cells
      BY <1>1, <1>4, <1>5
    <3>2. C(i - 1) = IF o + (i - 1) + 1 - 1 \in Cells THEN buffer[o + (i - 1) + 1 - 1] ELSE Junk
      BY DEF Loaded
    <3> QED BY <3>1, <3>2
  <2> QED BY <1>5, <2>1
<1> HIDE DEF C, w, short
<1>8. CASE n = 1
  <2>1. L = 0 /\ LineLength(n) = 0 /\ M <= 1
    BY <1>1, <1>2, <1>4, <1>8
  <2>2. ends = {}
    BY <1>4, <1>5, <2>1
  <2> QED BY <1>1, <1>3, <1>w, <2>1, <2>2
<1>9. CASE n # 1
  <2>1. n - 1 >= 1 /\ L >= 1 /\ M >= 1
    BY <1>1, <1>4, <1>9
  <2> DEFINE T == {k \in 1 .. n - 1 : Stops(k)}
  <2>2. n - 1 \in T
    BY <1>1, <2>1
  <2>3. PICK k \in T : \A j \in T : k <= j
    <3>0. n \in Nat /\ 1 .. n - 1 \subseteq Nat
      OBVIOUS
    <3>1. T \subseteq Nat /\ T # {}
      <4>1. T \subseteq 1 .. n - 1
        OBVIOUS
      <4> HIDE DEF T
      <4> QED BY <2>2, <3>0, <4>1
    <3> HIDE DEF T
    <3> QED BY <3>1, LowestExists
  <2>4. k \in 1 .. n - 1 /\ Stops(k)
    BY <2>3
  <2>5. \A j \in 1 .. k - 1 : ~Stops(j)
    <3> SUFFICES ASSUME NEW j \in 1 .. k - 1, Stops(j) PROVE FALSE
      OBVIOUS
    <3>1. j \in T
      BY <1>1, <2>4
    <3> HIDE DEF T
    <3>2. k <= j
      BY <2>3, <3>1
    <3> QED BY <2>4, <3>2
  <2>6. First(k)
    BY <2>4, <2>5
  <2>7. len \in 1 .. n - 1 /\ First(len)
    BY <2>4, <2>6
  <2> HIDE DEF len
  <2>8. len <= L
    <3>1. L \in 1 .. n - 1 /\ Stops(L)
      BY <1>1, <1>4, <2>1
    <3>2. ~(L \in 1 .. len - 1)
      BY <2>7, <3>1
    <3> QED BY <1>1, <1>4, <2>7, <3>1, <3>2
  <2>9. \A i \in 2 .. len : i \in 1 .. M /\ w[i] # Newline
    <3> SUFFICES ASSUME NEW i \in 2 .. len PROVE i \in 1 .. M /\ w[i] # Newline
      OBVIOUS
    <3>1. i \in 1 .. M /\ i - 1 \in 1 .. len - 1
      BY <1>1, <1>4, <2>7, <2>8
    <3>2. C(i - 1) # Newline
      BY <2>7, <3>1
    <3> QED BY <1>6, <3>1, <3>2
  <2>10. CASE C(len) = Newline
    <3>0. LineLength(n) = len + 1
      BY <1>2, <1>9, <2>10
    <3>2. len + 1 \in 1 .. M /\ len + 1 \in 2 .. M
      BY <1>1, <1>4, <2>7, <3>0
    <3>3. w[len + 1] = Newline
      <4>1. C((len + 1) - 1) = w[len + 1]
        BY <1>6, <3>2
      <4>2. (len + 1) - 1 = len
        BY <2>7
      <4> QED BY <2>10, <4>1, <4>2
    <3>4. len + 1 \in ends
      BY <1>5, <3>2, <3>3
    <3>5. \A j \in ends : len + 1 <= j
      <4> SUFFICES ASSUME NEW j \in 2 .. M, w[j] = Newline PROVE len + 1 <= j
        BY <1>5
      <4>1. ~(j \in 2 .. len)
        BY <2>9
      <4> QED BY <1>4, <2>7, <4>1
    <3>6. (CHOOSE i \in ends : \A j \in ends : i <= j) = len + 1
      <4>1. \A i \in ends : i \in Nat
        BY <1>4, <1>5
      <4> HIDE DEF ends
      <4>2. \A i \in ends : (\A j \in ends : i <= j) => i = len + 1
        <5> SUFFICES ASSUME NEW i \in ends, \A j \in ends : i <= j PROVE i = len + 1
          OBVIOUS
        <5>1. i <= len + 1 /\ len + 1 <= i /\ i \in Nat
          BY <3>4, <3>5, <4>1
        <5> QED BY <2>7, <5>1
      <4> QED BY <3>4, <3>5, <4>2
    <3>7. File!LineNcl(View, o, n) = SubSeq(w, 1, len + 1)
      BY <1>3, <3>4, <3>6
    <3> DEFINE a == SubSeq(w, 1, len + 1)
               b == Loaded(o, len + 1)
    <3>9. \A i \in 1 .. len + 1 : w[i] = buffer[o + i - 1] /\ o + i - 1 \in Cells /\ w[i] \in Nat
      <4> SUFFICES ASSUME NEW i \in 1 .. len + 1
                   PROVE  w[i] = buffer[o + i - 1] /\ o + i - 1 \in Cells /\ w[i] \in Nat
        OBVIOUS
      <4>1. i \in 1 .. M
        BY <1>4, <2>7, <3>2
      <4> QED BY <1>5, <4>1 DEF LogInv, OffsetInFile
    <3>10. a \in Seq(Nat) /\ Len(a) = len + 1 /\ \A i \in 1 .. len + 1 : a[i] = w[i]
      <4>1. len \in Nat
        BY <2>7
      <4>2. /\ SubSeq(w, 1, len + 1) \in Seq(Nat)
            /\ Len(SubSeq(w, 1, len + 1)) = IF 1 <= len + 1 THEN (len + 1) - 1 + 1 ELSE 0
            /\ \A i \in 1 .. (len + 1) - 1 + 1 : SubSeq(w, 1, len + 1)[i] = w[1 + i - 1]
        BY <3>9, <4>1, SubSeqProperties
      <4> HIDE DEF a
      <4>3. a \in Seq(Nat) /\ Len(a) = len + 1
        BY <4>1, <4>2 DEF a
      <4>4. ASSUME NEW i \in 1 .. len + 1 PROVE a[i] = w[i]
        <5>1. i \in 1 .. (len + 1) - 1 + 1 /\ 1 + i - 1 = i
          BY <4>1
        <5> QED BY <4>2, <5>1 DEF a
      <4> QED BY <4>3, <4>4
    <3>11. b \in Seq(Nat) /\ Len(b) = len + 1 /\ \A i \in 1 .. len + 1 : b[i] = w[i]
      <4>1. b = [i \in 1 .. len + 1 |-> w[i]]
        BY <3>9 DEF Loaded
      <4> HIDE DEF b
      <4>2. b \in [1 .. len + 1 -> Nat] /\ \A i \in 1 .. len + 1 : b[i] = w[i]
        BY <3>9, <4>1
      <4> QED BY <2>7, <4>2
    <3> HIDE DEF a, b
    <3>12. a = b
      <4>1. \A i \in 1 .. Len(a) : a[i] = b[i]
        BY <3>10, <3>11
      <4> QED BY <3>10, <3>11, <4>1, SeqEqual
    <3>13. len + 1 \in 0 .. file_size - o
      BY <1>1, <1>4, <3>2
    <3> QED BY <3>0, <3>7, <3>10, <3>12, <3>13 DEF a, b
  <2>11. CASE C(len) # Newline
    <3>1. len = L
      BY <1>1, <1>4, <2>7, <2>8, <2>11
    <3>2. ends = {}
      <4> SUFFICES ASSUME NEW i \in 2 .. M, w[i] = Newline PROVE FALSE
        BY <1>5
      <4>1. i \in 1 .. M /\ C(i - 1) = Newline
        BY <1>4, <1>6
      <4>2. i \in 2 .. len \/ i = len + 1
        BY <1>1, <1>4, <2>7, <3>1
      <4>3. i # len + 1
        <5>1. i = len + 1 => i - 1 = len
          BY <2>7
        <5> QED BY <2>11, <4>1, <5>1
      <4> QED BY <2>9, <4>2, <4>3
    <3>3. LineLength(n) = L
      BY <1>2, <1>9, <2>11, <3>1
    <3> QED BY <1>1, <1>3, <1>4, <1>w, <3>2, <3>3
  <2> QED BY <2>10, <2>11
<1> QED BY <1>8, <1>9

-----------------------------------------------------------------------------
(* Every call keeps the offset inside the file and returns what POSIX says. *)

\* memcpy of a string that fits: the file is overwritten and extended, and only
\* what lies between its old end and the string is not determined.
LEMMA StoredFacts ==
    ASSUME LogInv, NEW p \in Nat, NEW s \in Seq(Nat), p + Len(s) <= BufSize,
           buffer' = Stored(p, s, Len(s)), file_size' = MostOf(file_size, p + Len(s))
    PROVE  /\ buffer' \in [Cells -> Nat]
           /\ file_size' \in Nat /\ file_size' <= BufSize
           /\ file_size' >= file_size /\ file_size' >= p + Len(s)
           /\ Len(View') = file_size' /\ Len(File!Overwritten(View, p, s)) = file_size'
           /\ \A i \in 1 .. file_size' \ (file_size + 1 .. p) :
                 View'[i] = File!Overwritten(View, p, s)[i]
           /\ p <= file_size => View' = File!Overwritten(View, p, s)
<1> USE LogFileAssumption
<1>1. Len(s) \in Nat /\ \A i \in 1 .. Len(s) : s[i] \in Nat
  BY LenProperties, ElementOfSeq
<1>2. file_size \in Nat /\ file_size <= BufSize /\ buffer \in [Cells -> Nat]
  BY DEF LogInv, OffsetInFile
<1>3. /\ file_size' \in Nat /\ file_size' <= BufSize
      /\ file_size' >= file_size /\ file_size' >= p + Len(s)
      /\ file_size' = file_size \/ file_size' = p + Len(s)
  BY <1>1, <1>2 DEF MostOf
<1> DEFINE B(c) == IF c \in p .. p + Len(s) - 1 THEN s[c - p + 1] ELSE buffer[c]
<1>4. buffer' = [c \in Cells |-> B(c)]
  BY DEF Stored
<1>5. \A c \in Cells : B(c) \in Nat
  <2> SUFFICES ASSUME NEW c \in Cells PROVE B(c) \in Nat
    OBVIOUS
  <2>1. CASE c \in p .. p + Len(s) - 1
    <3>1. c - p + 1 \in 1 .. Len(s)
      BY <1>1, <2>1
    <3> QED BY <1>1, <2>1, <3>1
  <2>2. CASE c \notin p .. p + Len(s) - 1
    BY <1>2, <2>2
  <2> QED BY <2>1, <2>2
<1>6. Len(View) = file_size /\ \A i \in 1 .. file_size : View[i] = buffer[i - 1]
  BY ViewFacts DEF LogInv
<1> DEFINE W(i) == IF i \in p + 1 .. p + Len(s) THEN s[i - p]
                   ELSE IF i \in 1 .. Len(View) THEN View[i] ELSE 0
           over == File!Overwritten(View, p, s)
<1>7. over = [i \in 1 .. file_size' |-> W(i)]
  <2>1. File!MostOf(Len(View), p + Len(s)) = file_size'
    BY <1>6 DEF File!MostOf, MostOf
  <2> QED BY <2>1 DEF File!Overwritten
<1>8. \A i \in 1 .. file_size' \ (file_size + 1 .. p) : buffer'[i - 1] = W(i)
  <2> SUFFICES ASSUME NEW i \in 1 .. file_size', i \notin file_size + 1 .. p
               PROVE  buffer'[i - 1] = W(i)
    OBVIOUS
  <2>1. i - 1 \in Cells
    BY <1>3 DEF Cells
  <2>2. buffer'[i - 1] = B(i - 1)
    BY <1>4, <2>1
  <2>3. CASE i \in p + 1 .. p + Len(s)
    <3>1. i - 1 \in p .. p + Len(s) - 1 /\ (i - 1) - p + 1 = i - p
      BY <1>1, <2>3
    <3> QED BY <2>2, <2>3, <3>1
  <2>4. CASE i \notin p + 1 .. p + Len(s)
    <3>1. i - 1 \notin p .. p + Len(s) - 1
      BY <1>1, <1>3, <2>4
    <3>2. i \in 1 .. file_size
      BY <1>1, <1>2, <1>3, <2>4
    <3> QED BY <1>6, <2>2, <2>4, <3>1, <3>2
  <2> QED BY <2>3, <2>4
<1> HIDE DEF B, W, over
<1>9. View' = [i \in 1 .. file_size' |-> buffer'[i - 1]]
  BY DEF View
<1>10. \A i \in 1 .. file_size' \ (file_size + 1 .. p) : View'[i] = over[i]
  BY <1>7, <1>8, <1>9
<1>11. buffer' \in [Cells -> Nat]
  BY <1>4, <1>5
<1>12. p <= file_size => View' = over
  <2> SUFFICES ASSUME p <= file_size PROVE View' = over
    OBVIOUS
  <2>1. \A i \in 1 .. file_size' : i \notin file_size + 1 .. p
    BY <1>2, <1>3
  <2>2. \A i \in 1 .. file_size' : buffer'[i - 1] = W(i)
    BY <1>8, <2>1
  <2> QED BY <1>7, <1>9, <2>2
<1>13. Len(View') = file_size' /\ Len(over) = file_size'
  BY <1>3, <1>7, <1>9
<1> QED BY <1>3, <1>10, <1>11, <1>12, <1>13 DEF over

\* The calls that write.
LEMMA WriteStep ==
    ASSUME WithinFile, LogInv, NEW s \in Strings,
           write(s) \/ \E p \in Offsets : pwrite(s, p)
    PROVE  LogInv' /\ (File!Write(s) \/ \E p \in Offsets : File!PWriteNcl(s, p))
<1> USE LogFileAssumption
<1>0. /\ s \in Seq(Nat) /\ Len(s) \in Nat
      /\ buf_offset \in 0 .. file_size /\ file_size \in 0 .. BufSize
  BY LenProperties DEF LogInv, OffsetInFile
<1>1. CASE write(s)
  <2>1. buf_offset + Len(s) <= BufSize
    BY <1>1 DEF write
  <2>2. LeastOf(Len(s), Minus(getSizeInBytes, buf_offset)) = Len(s)
    BY <1>0, <2>1, SizeFacts
  <2>3. /\ buf_offset' = buf_offset + Len(s)
        /\ file_size' = MostOf(file_size, buf_offset + Len(s))
        /\ buffer' = Stored(buf_offset, s, Len(s))
        /\ ret' = Result(Len(s), <<>>) /\ call' = Call("write", s, 0, 0)
    BY <1>1, <2>2 DEF write, AppendLog
  <2>4. /\ buffer' \in [Cells -> Nat]
        /\ file_size' \in Nat /\ file_size' <= BufSize
        /\ file_size' >= file_size /\ file_size' >= buf_offset + Len(s)
        /\ View' = File!Overwritten(View, buf_offset, s)
    BY <1>0, <2>1, <2>3, StoredFacts
  <2>5. LogInv'
    BY <1>0, <2>3, <2>4 DEF LogInv, OffsetInFile
  <2>6. File!Write(s)
    BY <2>3, <2>4 DEF File!Write, File!PWriteAt, File!Call, File!Result, Call, Result
  <2> QED BY <2>5, <2>6
<1>2. ASSUME NEW p \in Offsets, pwrite(s, p) PROVE LogInv' /\ File!PWriteNcl(s, p)
  <2>1. p \in Nat /\ p + Len(s) <= BufSize /\ p \in 0 .. BufSize
    BY <1>0, <1>2 DEF pwrite
  <2>2. LeastOf(Len(s), Minus(getSizeInBytes, p)) = Len(s)
    BY <1>0, <2>1, SizeFacts
  <2>3. /\ file_size' = MostOf(p + Len(s), file_size)
        /\ buffer' = Stored(p, s, Len(s)) /\ UNCHANGED buf_offset
        /\ ret' = Result(Len(s), <<>>) /\ call' = Call("pwrite", s, 0, p)
    BY <1>2, <2>2 DEF pwrite, WritePos
  <2>4. file_size' = MostOf(file_size, p + Len(s))
    BY <1>0, <2>1, <2>3 DEF MostOf
  <2>5. /\ buffer' \in [Cells -> Nat]
        /\ file_size' \in Nat /\ file_size' <= BufSize
        /\ file_size' >= file_size
        /\ Len(View') = file_size' /\ Len(File!Overwritten(View, p, s)) = file_size'
        /\ \A i \in 1 .. file_size' \ (file_size + 1 .. p) :
              View'[i] = File!Overwritten(View, p, s)[i]
    BY <1>0, <2>1, <2>3, <2>4, StoredFacts
  <2>6. LogInv'
    BY <1>0, <2>3, <2>5 DEF LogInv, OffsetInFile
  <2>7. Len(View) = file_size
    BY ViewFacts DEF LogInv
  <2>8. File!PWriteNcl(s, p)
    BY <2>1, <2>3, <2>5, <2>7 DEF File!PWriteNcl, File!Call, File!Result, Call, Result
  <2> QED BY <2>6, <2>8
<1> QED BY <1>1, <1>2

\* The calls that read.
LEMMA ReadStep ==
    ASSUME WithinFile, LogInv, NEW n \in Counts,
           \/ read(n) \/ fgets(n)
           \/ \E p \in Offsets : pread(n, p)
           \/ \E m \in Counts : fread(m, n)
    PROVE  /\ LogInv'
           /\ \/ File!Read(n) \/ File!FGetsNcl(n)
              \/ \E p \in Offsets : File!PRead(n, p)
              \/ \E m \in Counts : File!FReadNcl(m, n)
<1> USE LogFileAssumption
<1>0. /\ n \in Nat \ {0} /\ OffsetInFile
      /\ buf_offset \in 0 .. file_size /\ file_size \in Nat
  BY DEF LogInv, OffsetInFile
<1>1. UNCHANGED <<buffer, file_size>> => View' = View
  BY DEF View
\* What Read and ReadPos copy.
<1>2. ASSUME NEW o \in 0 .. file_size, NEW k \in Nat
      PROVE  LET size == LeastOf(k, Minus(file_size, o)) IN
             /\ File!Window(View, o, k) = Loaded(o, size)
             /\ Len(File!Window(View, o, k)) = size
             /\ size \in 0 .. file_size - o
  <2>1. LeastOf(k, Minus(file_size, o)) = LeastOf(k, file_size - o)
    BY <1>0, <1>2, SizeFacts
  <2>2. LeastOf(k, file_size - o) \in 0 .. file_size - o
    BY <1>0 DEF LeastOf
  <2> QED BY <1>0, <2>1, <2>2, WindowIsLoaded
<1>3. ASSUME NEW len \in 0 .. file_size - buf_offset, buf_offset' = buf_offset + len,
             UNCHANGED <<buffer, file_size>>
      PROVE  LogInv'
  BY <1>0, <1>3 DEF LogInv, OffsetInFile
<1>4. ASSUME NEW k \in Nat, Read(k)
      PROVE  /\ LogInv' /\ UNCHANGED View
             /\ LET w == File!Window(View, buf_offset, k) IN
                buf_offset' = buf_offset + Len(w) /\ ret' = Result(Len(w), w)
  BY <1>0, <1>1, <1>2, <1>3, <1>4 DEF Read
<1>5. CASE read(n)
  <2>1. File!Read(n)
    BY <1>0, <1>4, <1>5 DEF read, File!Read, File!Call, File!Result, Call, Result
  <2> QED BY <1>0, <1>4, <1>5, <2>1 DEF read
<1>6. ASSUME NEW m \in Counts, fread(m, n) PROVE LogInv' /\ File!FReadNcl(m, n)
  <2>1. m * n \in Nat /\ Read(m * n) /\ call' = Call("fread", <<>>, n, m)
    BY <1>0, <1>6 DEF fread
  <2> DEFINE w == File!Window(View, buf_offset, m * n)
  <2>2. LogInv' /\ View' = View /\ buf_offset' = buf_offset + Len(w) /\ ret' = Result(Len(w), w)
    BY <1>4, <2>1
  <2> HIDE DEF w
  <2>3. File!FReadNcl(m, n)
    BY <2>1, <2>2 DEF w, File!FReadNcl, File!Call, File!Result, Call, Result
  <2> QED BY <2>2, <2>3
<1>7. ASSUME NEW p \in Offsets, pread(n, p) PROVE LogInv' /\ File!PRead(n, p)
  <2>1. p \in 0 .. file_size /\ ReadPos(n, p) /\ call' = Call("pread", <<>>, n, p)
    BY <1>0, <1>7 DEF pread
  <2>2. /\ ret' = Result(Len(File!Window(View, p, n)), File!Window(View, p, n))
        /\ UNCHANGED <<buffer, buf_offset, file_size>>
    BY <1>0, <1>2, <2>1 DEF ReadPos
  <2>3. View' = View
    BY <1>1, <2>2
  <2>4. LogInv'
    BY <2>2 DEF LogInv, OffsetInFile
  <2>5. File!PRead(n, p)
    BY <2>1, <2>2, <2>3 DEF File!PRead, File!Call, File!Result, Call, Result
  <2> QED BY <2>4, <2>5
<1>8. CASE fgets(n)
  <2>1. call' = Call("fgets", <<>>, n, 0) /\ UNCHANGED <<buffer, file_size>> /\ View' = View
    BY <1>1, <1>8 DEF fgets, GetLine
  <2> DEFINE l == File!LineNcl(View, buf_offset, n)
  <2>2. Len(View) = file_size
    BY <1>0, ViewFacts
  <2>3. /\ Len(l) \in 0 .. file_size - buf_offset
        /\ buf_offset' = buf_offset + Len(l)
        /\ ret' = Result(IF buf_offset < file_size THEN 1 ELSE 0, l)
    <3>1. CASE ~Eof
      <4>1. /\ LineLength(n) \in 0 .. file_size - buf_offset
            /\ l = Loaded(buf_offset, LineLength(n))
            /\ Len(l) = LineLength(n)
        BY <1>0, <1>8, <3>1, LineIsLoaded DEF fgets
      <4>2. buf_offset < file_size
        BY <1>0, <3>1 DEF Eof
      <4> HIDE DEF l
      <4> QED BY <1>8, <3>1, <4>1, <4>2 DEF fgets, GetLine
    <3>2. CASE Eof
      <4>1. buf_offset = file_size
        BY <1>0, <3>2 DEF Eof
      <4> DEFINE w == File!Window(View, buf_offset, n)
                 short == File!Window(View, buf_offset, n - 1)
      <4>2. /\ n - 1 \in Nat /\ LeastOf(n - 1, file_size - buf_offset) = 0
            /\ n \in Nat /\ LeastOf(n, file_size - buf_offset) = 0
        BY <1>0, <4>1 DEF LeastOf
      <4>3. short = Loaded(buf_offset, 0) /\ Len(short) = 0 /\ Len(w) = 0
        BY <1>0, <4>2, WindowIsLoaded
      <4>4. Loaded(buf_offset, 0) = <<>>
        BY DEF Loaded
      <4>5. l = short
        <5>1. {i \in 2 .. Len(w) : w[i] = Newline} = {}
          BY <4>3
        <5> QED BY <5>1 DEF File!LineNcl
      <4>6. Len(l) = 0 /\ l = <<>>
        BY <4>3, <4>4, <4>5
      <4> HIDE DEF l
      <4>7. ret' = Result(0, <<>>) /\ buf_offset' = buf_offset
        BY <1>8, <3>2 DEF fgets, GetLine
      <4> QED BY <1>0, <4>1, <4>6, <4>7
    <3> QED BY <3>1, <3>2
  <2> HIDE DEF l
  <2>4. LogInv'
    BY <1>3, <2>1, <2>3
  <2>5. File!FGetsNcl(n)
    BY <2>1, <2>2, <2>3 DEF l, File!FGetsNcl, File!Call, File!Result, Call, Result
  <2> QED BY <2>4, <2>5
<1> QED BY <1>5, <1>6, <1>7, <1>8

\* The calls that move the descriptor or cut the file.
LEMMA SeekStep ==
    ASSUME WithinFile, LogInv, NEW a \in Offsets,
           \/ \E whence \in Whences : lseek(a, whence) \/ fseek(a, whence)
           \/ ftruncate(a)
    PROVE  /\ LogInv'
           /\ \/ \E op \in {"lseek", "fseek"}, whence \in Whences : File!SeekNcl(op, a, whence)
              \/ File!FTruncateNcl(a)
<1> USE LogFileAssumption
<1>0. /\ a \in Int /\ OffsetInFile /\ buffer \in [Cells -> Nat]
      /\ buf_offset \in 0 .. file_size /\ file_size \in 0 .. BufSize
  BY DEF LogInv, OffsetInFile
<1>1. UNCHANGED <<buffer, file_size>> => View' = View
  BY DEF View
<1>2. Len(View) = file_size
  BY <1>0, ViewFacts
\* Seek goes where it is told, inside the file.
<1>3. ASSUME NEW t \in 0 .. file_size PROVE LeastOf(SizeT(t), getSizeInBytes - 1) = t
  <2>1. t \in Nat /\ t < SizeRange /\ t <= BufSize
    BY <1>0
  <2>2. SizeT(t) = t
    BY <2>1, NoWrap DEF SizeT
  <2> QED BY <2>1, <2>2 DEF LeastOf, getSizeInBytes
<1>4. ASSUME NEW t \in 0 .. file_size, buf_offset' = t, UNCHANGED <<buffer, file_size>>
      PROVE  LogInv' /\ View' = View
  BY <1>0, <1>1, <1>4 DEF LogInv, OffsetInFile
<1>5. ASSUME NEW whence \in Whences, NEW op \in {"lseek", "fseek"}, InFile(a, whence),
             Seek(a, whence), call' = Call(op, <<>>, whence, a)
      PROVE  LogInv' /\ File!SeekNcl(op, a, whence)
  <2> DEFINE t == CASE whence = 0 -> a [] whence = 1 -> buf_offset + a
                    [] whence = 2 -> file_size [] OTHER -> buf_offset
  <2>1. t \in 0 .. file_size
    BY <1>0, <1>5 DEF InFile
  <2>2. buf_offset' = t
    <3>1. CASE whence = 0
      BY <1>3, <1>5, <2>1, <3>1 DEF Seek
    <3>2. CASE whence = 1
      <4>1. a + buf_offset = t /\ a + buf_offset \in 0 .. file_size
        BY <1>0, <2>1, <3>2
      <4> QED BY <1>3, <1>5, <3>2, <4>1 DEF Seek
    <3>3. CASE whence \notin {0, 1}
      BY <1>5, <3>3 DEF Seek
    <3> QED BY <3>1, <3>2, <3>3
  <2>3. UNCHANGED <<buffer, file_size>> /\ ret' = Result(buf_offset', <<>>)
    BY <1>5 DEF Seek
  <2>4. LogInv' /\ View' = View
    BY <1>4, <2>1, <2>2, <2>3
  <2>5. File!SeekNcl(op, a, whence)
    BY <1>2, <1>5, <2>2, <2>3, <2>4 DEF File!SeekNcl, File!Call, File!Result, Call, Result
  <2> QED BY <2>4, <2>5
<1>6. ASSUME NEW whence \in Whences, lseek(a, whence) \/ fseek(a, whence)
      PROVE  LogInv' /\ \E op \in {"lseek", "fseek"} : File!SeekNcl(op, a, whence)
  <2>1. InFile(a, whence) /\ Seek(a, whence)
    BY <1>6 DEF lseek, fseek
  <2>2. PICK op \in {"lseek", "fseek"} : call' = Call(op, <<>>, whence, a)
    BY <1>6 DEF lseek, fseek
  <2> QED BY <1>5, <2>1, <2>2
<1>9. ASSUME ftruncate(a) PROVE LogInv' /\ File!FTruncateNcl(a)
  <2>1. a \in 0 .. BufSize /\ a >= 0
    BY <1>0, <1>9 DEF ftruncate
  <2> DEFINE B(c) == IF c \in a .. buf_offset - 1 THEN 0 ELSE buffer[c]
  <2>2. /\ call' = Call("ftruncate", <<>>, 0, a) /\ file_size' = a
        /\ buffer' = [c \in Cells |-> B(c)]
        /\ buf_offset' = LeastOf(buf_offset, a) /\ ret' = Result(0, <<>>)
    BY <1>9 DEF ftruncate, Truncate
  <2>3. \A c \in Cells : B(c) \in Nat
    BY <1>0
  <2>4. LogInv'
    <3>1. buffer' \in [Cells -> Nat]
      BY <2>2, <2>3
    <3>2. buf_offset' \in Nat /\ buf_offset' <= a
      BY <1>0, <2>1, <2>2 DEF LeastOf
    <3> QED BY <2>1, <2>2, <3>1, <3>2 DEF LogInv, OffsetInFile
  <2>5. View' = [i \in 1 .. a |-> buffer'[i - 1]]
    BY <2>2 DEF View
  <2>6. Len(View') = a
    BY <2>1, <2>5
  <2>7. \A i \in 1 .. LeastOf(a, file_size) : View'[i] = View[i]
    <3> SUFFICES ASSUME NEW i \in 1 .. LeastOf(a, file_size) PROVE View'[i] = View[i]
      OBVIOUS
    <3>1. i \in 1 .. a /\ i \in 1 .. file_size
      BY <1>0, <2>1 DEF LeastOf
    <3>2. i - 1 \in Cells /\ View[i] = buffer[i - 1]
      BY <1>0, <3>1, ViewFacts
    <3>3. i - 1 \notin a .. buf_offset - 1
      BY <2>1, <3>1
    <3>4. buffer'[i - 1] = buffer[i - 1]
      BY <2>2, <3>2, <3>3
    <3> QED BY <2>5, <3>1, <3>2, <3>4
  <2>8. File!LeastOf(a, Len(View)) = LeastOf(a, file_size) /\ File!LeastOf(buf_offset, a) = LeastOf(buf_offset, a)
    BY <1>2 DEF File!LeastOf, LeastOf
  <2>9. File!FTruncateNcl(a)
    BY <2>1, <2>2, <2>6, <2>7, <2>8 DEF File!FTruncateNcl, File!Call, File!Result, Call, Result
  <2> QED BY <2>4, <2>9
<1> QED BY <1>6, <1>9

\* The calls that ask.
LEMMA AskStep ==
    ASSUME LogInv, ftello64 \/ fstat \/ feof \/ fsync
    PROVE  LogInv' /\ File!Ask
<1>0. Len(View) = file_size
  BY ViewFacts DEF LogInv
<1>1. UNCHANGED <<buffer, buf_offset, file_size>>
  BY DEF ftello64, fstat, feof, fsync
<1>2. LogInv' /\ View' = View
  BY <1>1 DEF LogInv, OffsetInFile, View
<1>3. File!Ask
  BY <1>0, <1>1, <1>2
     DEF ftello64, fstat, feof, fsync, Eof, File!Ask, File!Call, File!Result, Call, Result
<1> QED BY <1>2, <1>3

\* The next file of the client: recovered, or as long as the last one.
LEMMA OpenStep ==
    ASSUME LogInv, NEW s \in Strings \cup {<<>>}, NEW recover \in {0, 1}, reopen(s, recover)
    PROVE  LogInv' /\ File!OpenNcl(s, recover)
<1> USE LogFileAssumption
<1>0. /\ s \in Seq(Nat) /\ Len(s) \in Nat /\ file_size \in Nat /\ file_size <= BufSize
      /\ \A i \in 1 .. Len(s) : s[i] \in Nat
  <2>1. s \in Seq(Nat)
    <3>1. CASE s = <<>>
      BY <3>1, EmptySeq
    <3>2. CASE s \in Strings
      BY <3>2
    <3> QED BY <3>1, <3>2
  <2>2. Len(s) \in Nat /\ \A i \in 1 .. Len(s) : s[i] \in Nat
    BY <2>1, LenProperties, ElementOfSeq
  <2> QED BY <2>1, <2>2 DEF LogInv, OffsetInFile
<1>1. Len(View) = file_size
  BY ViewFacts DEF LogInv
<1>2. /\ call' = Call("open", s, recover, 0) /\ buf_offset' = 0 /\ ret' = Result(0, <<>>)
      /\ Len(s) <= BufSize
  BY DEF reopen
<1>3. CASE recover = 1 /\ s # <<>>
  <2> DEFINE B(c) == IF c < Len(s) THEN s[c + 1] ELSE 0
  <2>1. buffer' = [c \in Cells |-> B(c)] /\ file_size' = Len(s)
    BY <1>3 DEF reopen, TryRecover
  <2>2. \A c \in Cells : B(c) \in Nat
    <3> SUFFICES ASSUME NEW c \in Cells, c < Len(s) PROVE s[c + 1] \in Nat
      OBVIOUS
    <3>1. c + 1 \in 1 .. Len(s)
      BY <1>0 DEF Cells
    <3> QED BY <1>0, <3>1
  <2>3. LogInv'
    <3>1. buffer' \in [Cells -> Nat]
      BY <2>1, <2>2
    <3> QED BY <1>0, <1>2, <2>1, <3>1 DEF LogInv, OffsetInFile
  <2>4. View' = [i \in 1 .. Len(s) |-> buffer'[i - 1]]
    BY <2>1 DEF View
  <2>5. \A i \in 1 .. Len(s) : buffer'[i - 1] = s[i]
    <3> SUFFICES ASSUME NEW i \in 1 .. Len(s) PROVE buffer'[i - 1] = s[i]
      OBVIOUS
    <3>1. i - 1 \in Cells /\ i - 1 < Len(s) /\ (i - 1) + 1 = i
      BY <1>0, <1>2 DEF Cells
    <3> QED BY <2>1, <3>1
  <2>6. View' = [i \in 1 .. Len(s) |-> s[i]]
    BY <2>4, <2>5
  <2>7. s = [i \in 1 .. Len(s) |-> s[i]]
    BY <1>0, LenProperties
  <2>8. View' = s
    BY <2>6, <2>7
  <2>9. File!OpenNcl(s, recover)
    BY <1>2, <1>3, <2>8 DEF File!OpenNcl, File!Call, File!Result, Call, Result
  <2> QED BY <2>3, <2>9
<1>4. CASE ~(recover = 1 /\ s # <<>>)
  <2>1. file_size' = file_size
    BY <1>4 DEF reopen, TryRecover
  <2>2. buffer' = [c \in Cells |-> 0]
    <3>1. CASE recover # 1
      BY <3>1 DEF reopen
    <3>2. CASE recover = 1
      <4>1. s = <<>> /\ buffer' = [c \in Cells |-> IF c < Len(s) THEN s[c + 1] ELSE 0]
        BY <1>4, <3>2 DEF reopen, TryRecover
      <4>2. \A c \in Cells : ~(c < Len(s))
        BY <4>1 DEF Cells
      <4> QED BY <4>1, <4>2
    <3> QED BY <3>1, <3>2
  <2>3. LogInv'
    BY <1>0, <1>2, <2>1, <2>2 DEF LogInv, OffsetInFile
  <2>4. \A i \in 1 .. file_size : buffer'[i - 1] = 0
    <3> SUFFICES ASSUME NEW i \in 1 .. file_size PROVE i - 1 \in Cells
      BY <2>2
    <3> QED BY <1>0 DEF Cells
  <2>5. View' = [i \in 1 .. Len(View) |-> 0]
    BY <1>1, <2>1, <2>4 DEF View
  <2>6. File!OpenNcl(s, recover)
    BY <1>2, <1>4, <2>5 DEF File!OpenNcl, File!Call, File!Result, Call, Result
  <2> QED BY <2>3, <2>6
<1> QED BY <1>3, <1>4

\* Every call is a call of the file.
LEMMA LogCall ==
    ASSUME WithinFile, LogInv, LogNext
    PROVE  LogInv' /\ File!NclNext
<1>1. ASSUME NEW s \in Strings, write(s) \/ \E p \in Offsets : pwrite(s, p)
      PROVE  LogInv' /\ File!NclNext
  BY <1>1, WriteStep DEF File!NclNext
<1>2. ASSUME NEW n \in Counts,
             \/ read(n) \/ fgets(n)
             \/ \E p \in Offsets : pread(n, p)
             \/ \E m \in Counts : fread(m, n)
      PROVE  LogInv' /\ File!NclNext
  BY <1>2, ReadStep DEF File!NclNext
<1>3. ASSUME NEW a \in Offsets,
             \/ \E whence \in Whences : lseek(a, whence) \/ fseek(a, whence)
             \/ ftruncate(a)
      PROVE  LogInv' /\ File!NclNext
  BY <1>3, SeekStep DEF File!NclNext
<1>4. CASE ftello64 \/ fstat \/ feof \/ fsync
  BY <1>4, AskStep DEF File!NclNext
<1>5. ASSUME NEW s \in Strings \cup {<<>>}, NEW recover \in {0, 1}, reopen(s, recover)
      PROVE  LogInv' /\ File!NclNext
  BY <1>5, OpenStep DEF File!NclNext
<1> QED BY <1>1, <1>2, <1>3, <1>4, <1>5 DEF LogNext

\* Every step of the log is a step of the file, or leaves it alone.
LEMMA LogStep ==
    ASSUME WithinFile, LogInv, [LogNext]_logVars
    PROVE  LogInv' /\ [File!NclNext]_(File!posixVars)
<1>1. CASE UNCHANGED logVars
  BY <1>1 DEF logVars, LogInv, OffsetInFile, File!posixVars, View
<1> QED BY <1>1, LogCall

\* A file that has just been created is empty.
LEMMA LogInitial == LogInit => LogInv /\ File!PosixInit
<1> SUFFICES ASSUME LogInit PROVE LogInv /\ File!PosixInit
  OBVIOUS
<1> USE LogFileAssumption
<1>1. LogInv
  BY DEF LogInit, LogInv, OffsetInFile
<1>2. View = <<>>
  BY DEF LogInit, View
<1> QED BY <1>1, <1>2 DEF LogInit, File!PosixInit, File!Call, File!Result, Call, Result

-----------------------------------------------------------------------------
(* Where the file is the one of PosixFile. *)

\* The line is the one of fgets when it does not start with a newline, unless it
\* is the last character of the file, and does not end with one behind the buffer.
LEMMA SameLine ==
    ASSUME LogInv, NEW n \in Nat \ {0},
           LET w == File!Window(View, buf_offset, n) IN
           ~(Len(w) > 1 /\ (w[1] = Newline \/ (Len(w) = n /\ w[n] = Newline)))
    PROVE  File!LineNcl(View, buf_offset, n) = File!Line(View, buf_offset, n)
<1> DEFINE w == File!Window(View, buf_offset, n)
           v == File!Window(View, buf_offset, n - 1)
           wide == {i \in 2 .. Len(w) : w[i] = Newline}
           ends == {i \in 1 .. Len(v) : v[i] = Newline}
           left == file_size - buf_offset
<1>0. /\ OffsetInFile /\ file_size \in Nat /\ buf_offset \in 0 .. file_size
      /\ left \in Nat /\ n \in Nat /\ n - 1 \in Nat
  BY DEF LogInv, OffsetInFile
<1>1. /\ Len(w) = LeastOf(n, left) /\ w = Loaded(buf_offset, LeastOf(n, left))
      /\ \A i \in 1 .. LeastOf(n, left) : /\ Loaded(buf_offset, LeastOf(n, left))[i] = buffer[buf_offset + i - 1]
                                          /\ buf_offset + i - 1 \in Cells
  BY <1>0, WindowIsLoaded
<1>2. /\ Len(v) = LeastOf(n - 1, left) /\ v = Loaded(buf_offset, LeastOf(n - 1, left))
      /\ \A i \in 1 .. LeastOf(n - 1, left) : Loaded(buf_offset, LeastOf(n - 1, left))[i] = buffer[buf_offset + i - 1]
  BY <1>0, WindowIsLoaded
<1> HIDE DEF w, v
<1>3. /\ Len(w) \in Nat /\ Len(v) \in Nat /\ Len(v) <= Len(w) /\ Len(v) <= n - 1
      /\ Len(w) = Len(v) \/ (Len(w) = n /\ Len(v) = n - 1)
  BY <1>0, <1>1, <1>2 DEF LeastOf
<1>4. \A i \in 1 .. Len(v) : v[i] = w[i]
  BY <1>1, <1>2, <1>3
<1>5. w \in Seq(Nat) /\ v \in Seq(Nat)
  <2>1. \A i \in 1 .. Len(w) : w[i] \in Nat
    BY <1>0, <1>1 DEF OffsetInFile
  <2>2. \A i \in 1 .. Len(v) : v[i] \in Nat
    BY <1>3, <1>4, <2>1
  <2>3. w = [i \in 1 .. Len(w) |-> w[i]] /\ v = [i \in 1 .. Len(v) |-> v[i]]
    <3>1. w = [i \in 1 .. LeastOf(n, left) |-> w[i]]
      BY <1>1 DEF Loaded
    <3>2. v = [i \in 1 .. LeastOf(n - 1, left) |-> v[i]]
      BY <1>2 DEF Loaded
    <3> QED BY <1>1, <1>2, <3>1, <3>2
  <2>4. w \in [1 .. Len(w) -> Nat] /\ v \in [1 .. Len(v) -> Nat]
    BY <2>1, <2>2, <2>3
  <2>5. \A k \in Nat : [1 .. k -> Nat] \subseteq Seq(Nat)
    BY SeqDef
  <2> QED BY <1>3, <2>4, <2>5
<1>6. \A i \in 1 .. Len(v) : SubSeq(w, 1, i) = SubSeq(v, 1, i)
  <2> SUFFICES ASSUME NEW i \in 1 .. Len(v) PROVE SubSeq(w, 1, i) = SubSeq(v, 1, i)
    OBVIOUS
  <2> DEFINE a == SubSeq(w, 1, i)
             b == SubSeq(v, 1, i)
  <2>1. a \in Seq(Nat) /\ Len(a) = i /\ \A j \in 1 .. i : a[j] = w[j]
    BY <1>3, <1>5, SubSeqProperties
  <2>2. b \in Seq(Nat) /\ Len(b) = i /\ \A j \in 1 .. i : b[j] = v[j]
    BY <1>3, <1>5, SubSeqProperties
  <2>3. \A j \in 1 .. i : a[j] = b[j]
    BY <1>3, <1>4, <2>1, <2>2
  <2> HIDE DEF a, b
  <2>4. a = b
    BY <2>1, <2>2, <2>3, SeqEqual
  <2> QED BY <2>4 DEF a, b
<1>7. /\ File!LineNcl(View, buf_offset, n) =
            IF wide = {} THEN v ELSE SubSeq(w, 1, CHOOSE i \in wide : \A j \in wide : i <= j)
      /\ File!Line(View, buf_offset, n) =
            IF ends = {} THEN v ELSE SubSeq(v, 1, CHOOSE i \in ends : \A j \in ends : i <= j)
  BY DEF File!LineNcl, File!Line, w, v
<1>8. CASE Len(w) <= 1
  <2>1. wide = {}
    BY <1>3, <1>8
  <2>2. CASE ends = {}
    BY <1>7, <2>1, <2>2
  <2>3. CASE ends # {}
    <3>1. Len(v) = 1 /\ ends = {1}
      <4>1. PICK i \in 1 .. Len(v) : v[i] = Newline
        BY <2>3
      <4>2. Len(v) \in Nat /\ Len(v) <= 1
        BY <1>3, <1>8
      <4>3. i \in Nat /\ 1 <= i /\ i <= Len(v)
        BY <4>2
      <4>4. \A k, l \in Nat : 1 <= k /\ k <= l /\ l <= 1 => k = 1 /\ l = 1
        OBVIOUS
      <4>5. i = 1 /\ Len(v) = 1
        BY <4>2, <4>3, <4>4, Zenon
      <4> QED BY <4>1, <4>5
    <3>2. (CHOOSE i \in ends : \A j \in ends : i <= j) = 1
      BY <3>1
    <3>3. SubSeq(v, 1, Len(v)) = v
      BY <1>5, SubSeqFull
    <3> QED BY <1>7, <2>1, <2>3, <3>1, <3>2, <3>3
  <2> QED BY <2>2, <2>3
<1>9. CASE Len(w) > 1
  <2>1. w[1] # Newline /\ ~(Len(w) = n /\ w[n] = Newline)
    BY <1>9 DEF w
  <2>2. wide = ends
    BY <1>3, <1>4, <1>9, <2>1
  <2>3. CASE ends = {}
    BY <1>7, <2>2, <2>3
  <2>4. CASE ends # {}
    <3>1. \E i \in ends : \A j \in ends : i <= j
      <4>1. ends \subseteq Nat
        BY <1>3
      <4> HIDE DEF ends
      <4> QED BY <2>4, <4>1, LowestExists
    <3>2. (CHOOSE i \in ends : \A j \in ends : i <= j) \in 1 .. Len(v)
      BY <3>1
    <3> QED BY <1>6, <1>7, <2>2, <2>4, <3>2
  <2> QED BY <2>3, <2>4
<1> QED BY <1>3, <1>8, <1>9

\* A call that is not one of Differs is one of PosixFile.
LEMMA SameCall ==
    ASSUME LogInv, LogInv', File!NclNext, ~File!Differs
    PROVE  File!PosixNext
<1> USE LogFileAssumption
<1>1. /\ Len(View) = file_size /\ file_size \in Nat
      /\ buf_offset \in Nat /\ buf_offset <= file_size /\ buf_offset' \in Nat
  BY ViewFacts DEF LogInv, OffsetInFile
<1>2. /\ View' = [i \in 1 .. file_size' |-> View'[i]] /\ file_size' \in Nat
      /\ Len(View') = file_size'
  BY DEF View, LogInv
<1>3. ASSUME NEW s \in Strings, File!Write(s) \/ \E p \in Offsets : File!PWriteNcl(s, p)
      PROVE  File!PosixNext
  <2>1. CASE File!Write(s)
    BY <2>1 DEF File!PosixNext
  <2>2. ASSUME NEW p \in Offsets, File!PWriteNcl(s, p) PROVE File!PWrite(s, p)
    <3> DEFINE over == File!Overwritten(View, p, s)
               most == File!MostOf(Len(View), p + Len(s))
    <3>1. call' = File!Call("pwrite", s, 0, p)
      BY <2>2 DEF File!PWriteNcl
    <3>2. p \in Nat /\ p <= Len(View)
      BY <1>1, <2>2, <3>1 DEF File!Differs, File!PWriteNcl, File!Call
    <3>3. Len(s) \in Nat /\ most \in Nat
      BY <1>1, <3>2, LenProperties DEF File!MostOf
    <3>4. over = [i \in 1 .. most |-> over[i]] /\ Len(over) = most
      BY <3>3 DEF File!Overwritten
    <3> HIDE DEF over
    <3>5. Len(View') = Len(over) /\ \A i \in 1 .. Len(View') \ (Len(View) + 1 .. p) : View'[i] = over[i]
      BY <2>2 DEF File!PWriteNcl, over
    <3>6. file_size' = most /\ \A i \in 1 .. file_size' : View'[i] = over[i]
      BY <1>1, <1>2, <3>2, <3>4, <3>5
    <3>7. View' = over
      BY <1>2, <3>4, <3>6
    <3> QED BY <2>2, <3>7 DEF over, File!PWriteNcl, File!PWrite, File!PWriteAt
  <2> QED BY <1>3, <2>1, <2>2 DEF File!PosixNext
<1>4. ASSUME NEW n \in Counts,
             File!Read(n) \/ File!FGetsNcl(n) \/ \E p \in Offsets : File!PRead(n, p)
      PROVE  File!PosixNext
  <2>1. CASE File!Read(n) \/ \E p \in Offsets : File!PRead(n, p)
    BY <2>1 DEF File!PosixNext
  <2>2. CASE File!FGetsNcl(n)
    <3>1. call' = File!Call("fgets", <<>>, n, 0)
      BY <2>2 DEF File!FGetsNcl
    <3>2. LET w == File!Window(View, buf_offset, n) IN
          ~(Len(w) > 1 /\ (w[1] = Newline \/ (Len(w) = n /\ w[n] = Newline)))
      BY <3>1 DEF File!Differs, File!Call
    <3>3. n \in Nat \ {0}
      OBVIOUS
    <3>4. File!LineNcl(View, buf_offset, n) = File!Line(View, buf_offset, n)
      BY <3>2, <3>3, SameLine
    <3>5. File!FGets(n)
      BY <2>2, <3>4 DEF File!FGetsNcl, File!FGets
    <3> QED BY <3>5 DEF File!PosixNext
  <2> QED BY <1>4, <2>1, <2>2
<1>5. ASSUME NEW m \in Counts, NEW n \in Counts, File!FReadNcl(m, n)
      PROVE  File!PosixNext
  <2> DEFINE got == Len(File!Window(View, buf_offset, m * n))
  <2>1. call' = File!Call("fread", <<>>, n, m) /\ ret' = File!Result(got, File!Window(View, buf_offset, m * n))
    BY <1>5 DEF File!FReadNcl
  <2>2. m * n \in Nat /\ m \in Nat \ {0}
    OBVIOUS
  <2>3. got \in Nat
    <3>1. got = LeastOf(m * n, file_size - buf_offset)
      BY <1>1, <2>2, WindowIsLoaded DEF LogInv
    <3> HIDE DEF got
    <3>2. \A k \in Nat : LeastOf(k, file_size - buf_offset) \in Nat
      BY <1>1 DEF LeastOf
    <3> QED BY <2>2, <3>1, <3>2
  <2> HIDE DEF got
  <2>4. m = 1 \/ got = 0
    BY <2>1, <2>2, <2>3 DEF File!Differs, File!Call, File!Result
  <2>5. got \div m = got
    BY <2>2, <2>3, <2>4
  <2>6. File!FRead(m, n)
    BY <1>5, <2>5 DEF File!FReadNcl, File!FRead, got
  <2> QED BY <2>6 DEF File!PosixNext
<1>6. ASSUME NEW op \in {"lseek", "fseek"}, NEW a \in Offsets, NEW whence \in Whences,
             File!SeekNcl(op, a, whence)
      PROVE  File!PosixNext
  <2>1. /\ call' = File!Call(op, <<>>, whence, a) /\ ret' = File!Result(buf_offset', <<>>)
        /\ View' = View
    BY <1>6 DEF File!SeekNcl
  <2>2. whence \in 0 .. 2 /\ (whence = 2 => a = 0) /\ (op = "fseek" => buf_offset' = 0)
    BY <2>1 DEF File!Differs, File!Call
  <2>3. buf_offset' = File!Target(a, whence)
    BY <1>1, <1>6, <2>2 DEF File!SeekNcl, File!Target
  <2>4. File!Target(a, whence) >= 0
    BY <1>1, <2>3
  <2>5. File!LSeek(a, whence) \/ File!FSeek(a, whence)
    BY <2>1, <2>2, <2>3, <2>4 DEF File!LSeek, File!FSeek
  <2> QED BY <2>5 DEF File!PosixNext
<1>7. ASSUME NEW l \in Offsets, File!FTruncateNcl(l) PROVE File!PosixNext
  <2>1. /\ l >= 0 /\ call' = File!Call("ftruncate", <<>>, 0, l) /\ Len(View') = l
        /\ buf_offset' = File!LeastOf(buf_offset, l) /\ ret' = File!Result(0, <<>>)
        /\ \A i \in 1 .. File!LeastOf(l, Len(View)) : View'[i] = View[i]
    BY <1>7 DEF File!FTruncateNcl
  <2>2. l \in buf_offset .. file_size
    BY <1>1, <2>1 DEF File!Differs, File!Call
  <2>3. buf_offset' = buf_offset /\ File!LeastOf(l, Len(View)) = l
    BY <1>1, <2>1, <2>2 DEF File!LeastOf
  <2>4. View' = [i \in 1 .. l |-> IF i <= Len(View) THEN View[i] ELSE 0]
    <3>1. View' = [i \in 1 .. l |-> View'[i]]
      BY <1>2, <2>1
    <3>2. \A i \in 1 .. l : i <= Len(View) /\ View'[i] = View[i]
      BY <1>1, <2>1, <2>2, <2>3
    <3> QED BY <3>1, <3>2
  <2>5. File!FTruncate(l)
    BY <2>1, <2>3, <2>4 DEF File!FTruncate
  <2> QED BY <2>5 DEF File!PosixNext
<1>8. CASE File!Ask
  BY <1>8 DEF File!PosixNext
<1>9. ASSUME NEW s \in Strings \cup {<<>>}, NEW recover \in {0, 1}, File!OpenNcl(s, recover)
      PROVE  File!PosixNext
  <2>1. call' = File!Call("open", s, recover, 0)
    BY <1>9 DEF File!OpenNcl
  <2>2. View = <<>> \/ (recover = 1 /\ s # <<>>)
    BY <2>1 DEF File!Differs, File!Call
  <2>3. View' = IF recover = 1 THEN s ELSE <<>>
    <3>1. View' = IF recover = 1 /\ s # <<>> THEN s ELSE [i \in 1 .. Len(View) |-> 0]
      BY <1>9 DEF File!OpenNcl
    <3>2. CASE recover = 1 /\ s # <<>>
      BY <3>1, <3>2
    <3>3. CASE ~(recover = 1 /\ s # <<>>)
      <4>1. Len(View) = 0
        BY <2>2, <3>3
      <4>2. View' = <<>>
        BY <3>1, <3>3, <4>1
      <4> QED BY <3>3, <4>2
    <3> QED BY <3>2, <3>3
  <2>4. File!Open(s, recover)
    BY <1>9, <2>3 DEF File!OpenNcl, File!Open
  <2> QED BY <2>4 DEF File!PosixNext
<1> QED BY <1>3, <1>4, <1>5, <1>6, <1>7, <1>8, <1>9 DEF File!NclNext

-----------------------------------------------------------------------------
(* The theorems. *)

\* For an application that stays inside the file the offset of the descriptor is
\* never behind the end of the file and the file never reaches the sequence word:
\* the size_t subtractions of Append, WritePos, Read and ReadPos do not wrap
\* (client.cc).
THEOREM OffsetInFileAlways ==
    ASSUME WithinFile
    PROVE  LogSpec => []OffsetInFile
<1>1. LogInit => LogInv
  BY LogInitial
<1>2. LogInv /\ [LogNext]_logVars => LogInv'
  BY LogStep
<1>3. LogInv => OffsetInFile
  BY DEF LogInv
<1> QED BY <1>1, <1>2, <1>3, PTL DEF LogSpec

\* The wrappers of csl.cc over CSLClient (client.cc) implement NclFile for such an
\* application, for every size of the buffer: every call changes the content and
\* the offset, and returns, what glibc's would, but for the differences NclFile
\* states.
THEOREM LogRefinesFile ==
    ASSUME WithinFile
    PROVE  LogSpec => Refinement
<1>1. LogInit => LogInv /\ File!PosixInit
  BY LogInitial
<1>2. LogInv /\ [LogNext]_logVars => LogInv' /\ [File!NclNext]_(File!posixVars)
  BY LogStep
<1> QED BY <1>1, <1>2, PTL DEF LogSpec, Refinement, File!NclSpec

\* The differences of NclFile from PosixFile are the only ones: any other call of
\* such an application does and returns what glibc has, as client.h:126-181 says.
THEOREM GlibcElsewhereAlways ==
    ASSUME WithinFile
    PROVE  LogSpec => GlibcElsewhere
<1>1. LogInit => LogInv
  BY LogInitial
<1>2. LogInv /\ [LogNext]_logVars => LogInv'
  BY LogStep
<1>3. LogInv /\ [LogNext]_logVars => [~File!Differs => File!PosixNext]_logVars
  BY LogCall, SameCall
<1> QED BY <1>1, <1>2, <1>3, PTL DEF LogSpec, GlibcElsewhere

=============================================================================
