---------------------------- MODULE CommandProofs ----------------------------
(***************************************************************************)
(* What the decoders guarantee for every frame and every payload: no index *)
(* runs outside of the slice it reads, an accepted sample lies within the  *)
(* limits, and the checksum notices one digit that changed.  The checksum  *)
(* is a recursive function; facts about it are proved by the least index   *)
(* at which they fail.                                                     *)
(*                                                                         *)
(* That parsing undoes what the BMS does, for every reading: Lay(P, p, s)  *)
(* says where the digits s of a field stand in a text P, which is derived  *)
(* once for the frame and once for the payload, and each field of the      *)
(* parsers is then read where it was laid.                                 *)
(*                                                                         *)
(* And what a run of the process guarantees for every command line, every  *)
(* configuration file and every reply: each key of the configuration has   *)
(* the value that was given last, the process ends with everything closed  *)
(* and prunes only the past unless an int64 overflows, the sample is what  *)
(* was measured or the log says that it may not be, and the exit code      *)
(* tells what was met.  The invariant follows the configuration from       *)
(* LoadConfig over ValidateConfig, where the result is judged, to the      *)
(* ticker; and what the last read met from the read to the exit.           *)
(***************************************************************************)
EXTENDS Command, SequenceTheorems, WellFoundedInduction, TLAPS

\* A digit is one of 0..15.
LEMMA DigitRange == \A d \in Digit : d \in 0..15
BY DEF Digit

\* A digit is a number.
LEMMA DigitIsInt == \A d \in Digit : d \in Int
BY DEF Digit

\* The bytes, as the provers want them.
LEMMA ByteRange == Byte = 0..255
BY DEF Byte

\* A byte is a number.
LEMMA ByteIsInt == \A b \in Byte : b \in Int
BY DEF Byte

-----------------------------------------------------------------------------
(* Indices *)

\* A frame that is long enough for the length it states: every digit that
\* ParseFrame looks at is there, the checksum included.
THEOREM FrameReadsInside ==
  ASSUME NEW digits \in Seq(Digit), ~Malformed(digits)
  PROVE  /\ Len(digits) >= 16
         /\ InfoHexLen(digits) \in 0..4095 /\ InfoHexLen(digits) % 2 = 0
         /\ 16 + InfoHexLen(digits) <= Len(digits)
         /\ \A i \in 1..InfoHexLen(digits) \div 2 :
              12 + 2 * i \in 1..12 + InfoHexLen(digits)
<1> DEFINE n == InfoHexLen(digits)
<1>1. Len(digits) >= 16
  BY DEF Malformed
<1>2. digits[10] \in Digit /\ digits[11] \in Digit /\ digits[12] \in Digit
  BY <1>1
<1>3. n \in 0..4095
  <2> DEFINE a == digits[10]
             b == digits[11]
             c == digits[12]
  <2>1. a \in 0..15 /\ b \in 0..15 /\ c \in 0..15
    BY <1>2, DigitRange
  <2>2. n = 256 * a + 16 * b + c
    BY DEF InfoHexLen
  <2> HIDE DEF a, b, c, n
  <2> QED
    BY <2>1, <2>2
<1>4. n % 2 = 0 /\ ~(Len(digits) < 12 + n + 4)
  BY DEF Malformed
<1> HIDE DEF n
<1>5. 16 + n <= Len(digits)
  BY <1>3, <1>4
<1>6. \A i \in 1..n \div 2 : 12 + 2 * i \in 1..12 + n
  BY <1>3
<1> QED
  BY <1>1, <1>3, <1>4, <1>5, <1>6 DEF n

\* The payload of an accepted frame is a sequence of bytes.
LEMMA InfoIsBytes ==
  ASSUME NEW digits \in Seq(Digit)
  PROVE  ParseFrame(digits).info \in Seq(Byte)
<1>1. CASE Malformed(digits) \/ ByteAt(digits, 7) # RTNOk
  <2>1. ParseFrame(digits).info = <<>>
    BY <1>1 DEF ParseFrame, BadFrame, NoInfo
  <2> QED
    BY <2>1
<1>2. CASE ~Malformed(digits) /\ ByteAt(digits, 7) = RTNOk
  <2> DEFINE n == InfoHexLen(digits)
             half == n \div 2
  <2>0. n \in 0..4095 /\ n % 2 = 0 /\ 16 + n <= Len(digits)
    BY <1>2, FrameReadsInside
  <2> HIDE DEF n
  <2>1. half \in Nat /\ n = 2 * half /\ 16 + n <= Len(digits)
    BY <2>0
  <2>2. ASSUME NEW i \in 1..half PROVE ByteAt(digits, 12 + 2 * i - 1) \in Byte
    <3>1. 12 + 2 * i - 1 \in 1..Len(digits) /\ 12 + 2 * i - 1 + 1 \in 1..Len(digits)
      BY <2>1
    <3>2. digits[12 + 2 * i - 1] \in Digit /\ digits[12 + 2 * i - 1 + 1] \in Digit
      BY <3>1
    <3> DEFINE a == digits[12 + 2 * i - 1]
               b == digits[12 + 2 * i - 1 + 1]
    <3>3. a \in 0..15 /\ b \in 0..15
      BY <3>2, DigitRange
    <3>4. ByteAt(digits, 12 + 2 * i - 1) = 16 * a + b
      BY DEF ByteAt
    <3> HIDE DEF a, b
    <3>5. 16 * a + b \in 0..255
      BY <3>3
    <3> QED
      BY <3>4, <3>5, ByteRange
  <2>3. ParseFrame(digits).info = [i \in 1..half |-> ByteAt(digits, 12 + 2 * i - 1)]
    BY <1>2 DEF ParseFrame, n
  <2> HIDE DEF half
  <2> DEFINE bytes == [i \in 1..half |-> ByteAt(digits, 12 + 2 * i - 1)]
  <2>4. bytes \in [1..half -> Byte]
    BY <2>2
  <2> HIDE DEF bytes
  <2>5. bytes \in Seq(Byte)
    BY <2>1, <2>4
  <2> QED
    BY <2>3, <2>5 DEF bytes
<1> QED
  BY <1>1, <1>2

\* Every count is cut to its bound.
LEMMA Counts ==
  ASSUME NEW info \in Seq(Byte), ~Truncated(info)
  PROVE  /\ Len(info) >= 10
         /\ CellCount(info) \in 0..32 /\ TempCount(info) \in 0..8
         /\ TempsAt(info) = 2 + 2 * CellCount(info) /\ TempsAt(info) <= Len(info)
         /\ MainAt(info) <= Len(info)
         /\ \/ /\ TempsAt(info) + 1 <= Len(info)
               /\ MainAt(info) = TempsAt(info) + 1 + 2 * TempCount(info)
            \/ TempCount(info) = 0 /\ MainAt(info) = TempsAt(info)
<1> DEFINE L == Len(info)
           k == CellCount(info)
           p == TempsAt(info)
           m == TempCount(info)
           q == MainAt(info)
<1>1. L >= 10 /\ L \in Nat /\ info[2] \in Byte
  <2>1. L >= 10 /\ L \in Nat
    BY DEF Truncated
  <2> QED
    BY <2>1
<1>2. k \in 0..32
  <2> DEFINE n == info[2]
  <2>1. n \in 0..255 /\ k = AtMost(32, n)
    BY <1>1, ByteRange DEF CellCount, MaxCells
  <2> HIDE DEF n, k
  <2> QED
    BY <2>1 DEF AtMost
<1>3. p = 2 + 2 * k
  BY DEF TempsAt
<1>4. p + 0 <= L /\ q + 0 <= L
  BY DEF Truncated, Has
<1>5. m \in 0..8 /\ \/ p + 1 <= L /\ q = p + 1 + 2 * m
                    \/ m = 0 /\ q = p
  <2>1. q = IF Has(info, p, 1) THEN p + 1 + 2 * m ELSE p
    BY DEF MainAt
  <2>2. p \in Nat
    <3> HIDE DEF k, p
    <3> QED
      BY <1>2, <1>3
  <2>3. CASE Has(info, p, 1)
    <3>1. p + 1 <= L
      BY <2>3 DEF Has
    <3> DEFINE n == info[p + 1]
    <3>2. n \in Byte
      BY <1>1, <2>2, <3>1
    <3>3. m = AtMost(8, n)
      BY <2>3 DEF TempCount, MaxTemps
    <3> HIDE DEF m, n, p, q
    <3>4. m \in 0..8
      <4>1. n \in 0..255
        BY <3>2, ByteRange
      <4> QED
        BY <3>3, <4>1 DEF AtMost
    <3> QED
      BY <2>1, <2>3, <3>1, <3>4
  <2>4. CASE ~Has(info, p, 1)
    <3>1. m = 0
      BY <2>4 DEF TempCount
    <3> HIDE DEF m, p, q
    <3> QED
      BY <2>1, <2>4, <3>1
  <2> QED
    BY <2>3, <2>4
<1> HIDE DEF L, k, p, m, q
<1>6. L >= 10 /\ k \in 0..32 /\ m \in 0..8 /\ p = 2 + 2 * k /\ p <= L /\ q <= L
  <2>1. p \in Int /\ q \in Int
    BY <1>2, <1>3, <1>5
  <2> QED
    BY <1>1, <1>2, <1>3, <1>4, <1>5, <2>1
<1> QED
  BY <1>5, <1>6 DEF L, k, p, m, q

\* For every payload that is not refused as truncated: each of the words and bytes
\* that the decoder reads lies within it, so that no index panics.
THEOREM AnalogReadsInside ==
  ASSUME NEW info \in Seq(Byte), ~Truncated(info)
  PROVE  /\ \A i \in 1..CellCount(info) : 2 * i + 2 \in 1..Len(info)
         /\ \A i \in 1..TempCount(info) : TempsAt(info) + 2 * i + 1 \in 1..Len(info)
         /\ HasMain(info) => MainAt(info) + 6 \in 1..Len(info)
         /\ HasFull(info) => FullAt(info) + 3 \in 1..Len(info)
         /\ HasCounters(info) => CountersAt(info) + 4 \in 1..Len(info)
<1> DEFINE L == Len(info)
           k == CellCount(info)
           p == TempsAt(info)
           m == TempCount(info)
           q == MainAt(info)
<1>1. /\ L \in Nat /\ L >= 10 /\ k \in 0..32 /\ m \in 0..8 /\ p = 2 + 2 * k /\ p <= L /\ q <= L
      /\ (p + 1 <= L /\ q = p + 1 + 2 * m) \/ (m = 0 /\ q = p)
  BY Counts
<1>2. /\ HasMain(info) => q + 6 <= L
      /\ HasFull(info) => q + 6 + 3 <= L /\ FullAt(info) = q + 6
      /\ HasCounters(info) => q + 6 + 3 + 4 <= L /\ CountersAt(info) = q + 6 + 3
  BY DEF HasMain, HasFull, HasCounters, Has, FullAt, CountersAt
<1> HIDE DEF L, k, p, m, q
<1>3. p \in Nat /\ q \in Nat
  BY <1>1
<1>4. \A i \in 1..k : 2 * i + 2 \in 1..L
  BY <1>1
<1>5. \A i \in 1..m : p + 2 * i + 1 \in 1..L
  BY <1>1, <1>3
<1>6. /\ HasMain(info) => q + 6 \in 1..L
      /\ HasFull(info) => q + 6 + 3 \in 1..L
      /\ HasCounters(info) => q + 6 + 3 + 4 \in 1..L
  BY <1>1, <1>2, <1>3
<1> QED
  BY <1>2, <1>4, <1>5, <1>6 DEF L, k, p, m, q

-----------------------------------------------------------------------------
(* Values *)

\* The 16-bit two's complement of the current is undone for every value.
THEOREM SignedUndoesComplement ==
  ASSUME NEW n \in Int, -32768 <= n, n <= 32767
  PROVE  Signed(n % 65536) = n
<1>1. CASE n >= 0
  <2>1. n % 65536 = n
    BY <1>1
  <2> QED
    BY <1>1, <2>1 DEF Signed
<1>2. CASE n < 0
  <2>1. n % 65536 = n + 65536
    BY <1>2
  <2> QED
    BY <1>2, <2>1 DEF Signed
<1> QED
  BY <1>1, <1>2

\* What replaces a value out of range is in range.
LEMMA NulledIsInRange ==
  ASSUME NEW v \in Int, NEW lo \in Int, NEW hi \in Int, lo <= 0, 0 <= hi
  PROVE  Nulled(v, lo, hi) \in lo..hi
BY DEF Nulled

\* A word of the payload is a number.
LEMMA WordIsInt ==
  ASSUME NEW info \in Seq(Byte), NEW p \in Nat, p + 2 <= Len(info)
  PROVE  U16(info, p) \in Int
<1> DEFINE a == info[p + 1]
           b == info[p + 2]
<1>1. a \in Byte /\ b \in Byte
  OBVIOUS
<1>2. a \in Int /\ b \in Int
  BY <1>1, ByteIsInt
<1>3. U16(info, p) = 256 * a + b
  BY DEF U16
<1> HIDE DEF a, b
<1>4. 256 * a + b \in Int
  BY <1>2
<1> QED
  BY <1>3, <1>4

\* For every payload: what is accepted lies within the limits of the decoder,
\* whatever the counts and the length of the payload, so that the store and the
\* page need no checks of their own.
THEOREM AcceptedIsPlausible ==
  ASSUME NEW info \in Seq(Byte), ParseAnalog(info).err = "none"
  PROVE  LET s == ParseAnalog(info).sample IN
         /\ \A i \in DOMAIN s.cells : s.cells[i] \in CellMVMin..CellMVMax
         /\ \A i \in DOMAIN s.temps : s.temps[i] \in DeciCMin..DeciCMax
         /\ s.mv \in PackMVMin..PackMVMax
         /\ s.ma \in -CurrentMAMax..CurrentMAMax
         /\ s.soc \in 0..100 /\ s.soh \in 0..100
<1>1. ~Truncated(info) /\ ~Implausible(info) /\ ParseAnalog(info).sample = Decoded(info)
  BY DEF ParseAnalog
<1> DEFINE s == Decoded(info)
<1>2. /\ s.cells = Cells(info) /\ s.temps = Temps(info) /\ s.mv = PackMV(info)
      /\ s.ma = Nulled(PackMA(info), -CurrentMAMax, CurrentMAMax)
      /\ s.soc = Nulled(Counter(info, 2), 0, 100) /\ s.soh = Nulled(Counter(info, 3), 0, 100)
  BY DEF Decoded
<1> HIDE DEF s
<1>3. \A i \in DOMAIN s.cells : s.cells[i] \in CellMVMin..CellMVMax
  <2>1. DOMAIN Cells(info) = 1..CellCount(info)
    BY DEF Cells
  <2> QED
    BY <1>1, <1>2, <2>1 DEF Implausible
<1>4. \A i \in DOMAIN s.temps : s.temps[i] \in DeciCMin..DeciCMax
  BY <1>2 DEF Temps
<1>5. s.mv \in PackMVMin..PackMVMax
  BY <1>1, <1>2 DEF Implausible
<1>6. MainAt(info) \in Nat
  <2> DEFINE k == CellCount(info)
             m == TempCount(info)
             q == MainAt(info)
  <2>1. /\ k \in 0..32 /\ m \in 0..8
        /\ q = 2 + 2 * k + 1 + 2 * m \/ q = 2 + 2 * k
    BY <1>1, Counts
  <2> HIDE DEF k, m, q
  <2>2. q \in Nat
    BY <2>1
  <2> QED
    BY <2>2 DEF q
<1>7. PackMA(info) \in Int
  <2>1. CASE HasMain(info)
    <3> DEFINE raw == U16(info, MainAt(info))
    <3>1. MainAt(info) + 6 <= Len(info)
      BY <2>1 DEF HasMain, Has
    <3>2. MainAt(info) + 2 <= Len(info)
      BY <1>6, <3>1
    <3>3. raw \in Int
      BY <1>6, <3>2, WordIsInt
    <3>4. PackMA(info) = 10 * Signed(raw)
      BY <2>1 DEF PackMA
    <3> HIDE DEF raw
    <3>5. 10 * Signed(raw) \in Int
      BY <3>3 DEF Signed
    <3> QED
      BY <3>4, <3>5
  <2>2. CASE ~HasMain(info)
    BY <2>2 DEF PackMA
  <2> QED
    BY <2>1, <2>2
<1>8. ASSUME NEW i \in 1..3 PROVE Counter(info, i) \in Int
  <2>1. CASE HasCounters(info)
    <3> DEFINE p == CountersAt(info) + 1 + i
    <3>1. CountersAt(info) = MainAt(info) + 6 + 3
      BY DEF CountersAt, FullAt
    <3>2. CountersAt(info) + 4 <= Len(info)
      BY <2>1 DEF HasCounters, Has
    <3>3. Counter(info, i) = info[p]
      BY <2>1 DEF Counter
    <3>4. p \in 1..Len(info)
      <4> DEFINE c == CountersAt(info)
                 q == MainAt(info)
                 L == Len(info)
      <4>1. L \in Nat /\ q \in Nat /\ c = q + 6 + 3 /\ c + 4 <= L
        BY <1>6, <3>1, <3>2
      <4> HIDE DEF c, q, L
      <4>2. c + 1 + i \in 1..L
        BY <4>1
      <4> QED
        BY <4>2 DEF c, L
    <3> HIDE DEF p
    <3>5. info[p] \in Byte
      BY <3>4
    <3> QED
      BY <3>3, <3>5, ByteIsInt
  <2>2. CASE ~HasCounters(info)
    BY <2>2 DEF Counter
  <2> QED
    BY <2>1, <2>2
<1>9. s.ma \in -CurrentMAMax..CurrentMAMax
  <2>1. CurrentMAMax \in Nat
    BY DEF CurrentMAMax
  <2>2. -CurrentMAMax \in Int /\ -CurrentMAMax <= 0 /\ CurrentMAMax \in Int /\ 0 <= CurrentMAMax
    BY <2>1
  <2> QED
    BY <1>2, <1>7, <2>2, NulledIsInRange
<1>10. s.soc \in 0..100 /\ s.soh \in 0..100
  <2>1. \A v \in Int : Nulled(v, 0, 100) \in 0..100
    BY DEF Nulled
  <2>2. Counter(info, 2) \in Int /\ Counter(info, 3) \in Int
    BY <1>8
  <2> QED
    BY <1>2, <2>1, <2>2
<1> QED
  BY <1>1, <1>3, <1>4, <1>5, <1>9, <1>10 DEF s

-----------------------------------------------------------------------------
(* The checksum *)

\* The partial sums behind ChecksumOf.
Sums(digits) ==
  CHOOSE f : f = [i \in 0..Len(digits) |-> IF i = 0 THEN 0 ELSE f[i - 1] + Ascii(digits[i])]

\* ChecksumOf in terms of the partial sums.
LEMMA ChecksumIsASum ==
  ASSUME NEW digits
  PROVE  ChecksumOf(digits) = (-Sums(digits)[Len(digits)]) % 65536
BY DEF ChecksumOf, Sums

\* A set of natural numbers has a least element.
LEMMA MinExists ==
  ASSUME NEW T, T \subseteq Nat, T # {}
  PROVE  \E x \in T : \A y \in T : x <= y
<1> DEFINE R == {p \in Nat \X Nat : p[1] < p[2]}
<1>1. IsWellFoundedOn(R, Nat)
  BY NatLessThanWellFounded DEF OpToRel
<1> HIDE DEF R
<1>2. \E x \in T : \A y \in T : ~ (<<y, x>> \in R)
  BY <1>1, WFMin
<1>3. ASSUME NEW x \in T, NEW y \in T, ~ (<<y, x>> \in R) PROVE x <= y
  BY <1>3 DEF R
<1> QED
  BY <1>2, <1>3

\* What holds at 0 and goes on holding up to n holds there: the set of indices
\* where it fails has no least element.
LEMMA UpTo ==
  ASSUME NEW n \in Nat, NEW Good, 0 \in Good,
         \A i \in 1..n : i - 1 \in Good => i \in Good
  PROVE  \A i \in 0..n : i \in Good
<1> DEFINE Bad == {i \in 0..n : i \notin Good}
<1>1. CASE Bad = {}
  BY <1>1
<1>2. CASE Bad # {}
  <2>1. Bad \subseteq Nat
    OBVIOUS
  <2>2. PICK m \in Bad : \A y \in Bad : m <= y
    BY <1>2, <2>1, MinExists
  <2>3. m \in 0..n /\ m \notin Good
    OBVIOUS
  <2>4. m \in 1..n
    BY <2>3
  <2>5. m - 1 \in Good
    <3>1. m - 1 \in 0..n /\ ~(m <= m - 1)
      BY <2>4
    <3> QED
      BY <2>2, <3>1
  <2> QED
    BY <2>3, <2>4, <2>5
<1> QED
  BY <1>1, <1>2

\* The code point of a digit is a natural number.
LEMMA AsciiIsNat == \A d \in Digit : Ascii(d) \in Nat
<1> SUFFICES ASSUME NEW d \in Digit PROVE Ascii(d) \in Nat
  OBVIOUS
<1>1. d \in 0..15
  BY DigitRange
<1> QED
  BY <1>1 DEF Ascii

\* The partial sums are what their recursive definition says.
LEMMA SumsAreSums ==
  ASSUME NEW digits \in Seq(Digit)
  PROVE  /\ Sums(digits) \in [0..Len(digits) -> Nat]
         /\ Sums(digits)[0] = 0
         /\ \A i \in 1..Len(digits) :
              Sums(digits)[i] = Sums(digits)[i - 1] + Ascii(digits[i])
<1> DEFINE n == Len(digits)
           S == Sums(digits)
           A == [i \in 1..n |-> Ascii(digits[i])]
           Up(f, m) == f[0] = 0 /\ \A i \in 1..m : f[i] = f[i - 1] + A[i]
           Good == {m \in 0..n : \E f \in [0..n -> Nat] : Up(f, m)}
<1>1. n \in Nat /\ \A i \in 1..n : A[i] \in Nat /\ A[i] = Ascii(digits[i])
  BY AsciiIsNat
<1> HIDE DEF n, A
<1>2. 0 \in Good
  <2> DEFINE z == [i \in 0..n |-> 0]
  <2>1. z \in [0..n -> Nat]
    OBVIOUS
  <2>2. 0 \in 0..n
    BY <1>1
  <2>3. z[0] = 0
    BY <2>2
  <2>4. \A i \in 1..0 : z[i] = z[i - 1] + A[i]
    OBVIOUS
  <2> HIDE DEF z
  <2> QED
    BY <2>1, <2>2, <2>3, <2>4, Zenon
<1>3. ASSUME NEW i \in 1..n, i - 1 \in Good PROVE i \in Good
  <2>1. PICK f \in [0..n -> Nat] : Up(f, i - 1)
    BY <1>3
  <2> DEFINE g == [f EXCEPT ![i] = f[i - 1] + A[i]]
  <2>2. i \in 0..n /\ i - 1 \in 0..n /\ i \in Int /\ i # 0
    BY <1>1
  <2>3. f[i - 1] + A[i] \in Nat
    BY <1>1, <2>2
  <2>4. g \in [0..n -> Nat] /\ g[i] = f[i - 1] + A[i] /\ \A j \in 0..n : j # i => g[j] = f[j]
    BY <2>2, <2>3
  <2> HIDE DEF g
  <2>5. g[0] = 0
    BY <1>1, <2>1, <2>2, <2>4
  <2>6. ASSUME NEW j \in 1..i PROVE g[j] = g[j - 1] + A[j]
    <3>1. j \in 0..n /\ j - 1 \in 0..n /\ j - 1 # i
      BY <1>1, <2>2
    <3>2. CASE j = i
      BY <2>4, <3>1, <3>2
    <3>3. CASE j # i
      <4>1. j \in 1..i - 1
        BY <2>2, <3>3
      <4> QED
        BY <2>1, <2>4, <3>1, <3>3, <4>1
    <3> QED
      BY <3>2, <3>3
  <2> QED
    BY <2>2, <2>4, <2>5, <2>6
<1>4. n \in Good
  <2> HIDE DEF Good
  <2>1. \A i \in 0..n : i \in Good
    BY <1>1, <1>2, <1>3, UpTo
  <2> QED
    BY <1>1, <2>1
<1>5. PICK f \in [0..n -> Nat] : Up(f, n)
  BY <1>4
<1>6. f = [i \in 0..n |-> IF i = 0 THEN 0 ELSE f[i - 1] + Ascii(digits[i])]
  <2> DEFINE h == [i \in 0..n |-> IF i = 0 THEN 0 ELSE f[i - 1] + Ascii(digits[i])]
  <2>1. ASSUME NEW i \in 0..n PROVE f[i] = h[i]
    <3>1. CASE i = 0
      BY <1>5, <3>1
    <3>2. CASE i # 0
      <4>1. i \in 1..n
        BY <1>1, <3>2
      <4> QED
        BY <1>1, <1>5, <3>2, <4>1
    <3> QED
      BY <3>1, <3>2
  <2>2. DOMAIN f = 0..n /\ DOMAIN h = 0..n
    OBVIOUS
  <2> HIDE DEF h
  <2>3. f = h
    <3>1. f = [i \in 0..n |-> f[i]] /\ h = [i \in 0..n |-> h[i]]
      BY <2>2 DEF h
    <3> QED
      BY <2>1, <3>1
  <2> QED
    BY <2>3 DEF h
<1>7. S = [i \in 0..n |-> IF i = 0 THEN 0 ELSE S[i - 1] + Ascii(digits[i])]
  BY <1>6 DEF Sums, n
<1> HIDE DEF S
<1>8. S[0] = 0 /\ \A i \in 1..n : S[i] = S[i - 1] + Ascii(digits[i])
  <2>1. \A i \in 0..n : S[i] = IF i = 0 THEN 0 ELSE S[i - 1] + Ascii(digits[i])
    BY <1>7
  <2>2. 0 \in 0..n /\ \A i \in 1..n : i \in 0..n /\ i # 0
    BY <1>1
  <2> QED
    BY <2>1, <2>2
<1>9. \A i \in 0..n : S[i] \in Nat
  <2> DEFINE G == {i \in 0..n : S[i] \in Nat}
  <2>1. 0 \in G
    BY <1>1, <1>8
  <2>2. ASSUME NEW i \in 1..n, i - 1 \in G PROVE i \in G
    <3>1. S[i - 1] \in Nat
      BY <2>2
    <3>2. A[i] \in Nat /\ A[i] = Ascii(digits[i]) /\ i \in 0..n
      BY <1>1
    <3>3. S[i] = S[i - 1] + Ascii(digits[i])
      BY <1>8
    <3> QED
      BY <3>1, <3>2, <3>3
  <2> HIDE DEF G
  <2>3. \A i \in 0..n : i \in G
    BY <1>1, <2>1, <2>2, UpTo
  <2> QED
    BY <2>3 DEF G
<1>10. S \in [0..n -> Nat]
  BY <1>7, <1>9
<1> QED
  BY <1>8, <1>10 DEF n, S

\* Changing one digit changes the sum by the difference of the two characters.
LEMMA ChangedSum ==
  ASSUME NEW digits \in Seq(Digit), NEW k \in 1..Len(digits), NEW x \in Digit
  PROVE  LET n == Len(digits) IN
         Sums([digits EXCEPT ![k] = x])[n] = Sums(digits)[n] + (Ascii(x) - Ascii(digits[k]))
<1> DEFINE n == Len(digits)
           changed == [digits EXCEPT ![k] = x]
           D == Sums(digits)
           E == Sums(changed)
           diff == Ascii(x) - Ascii(digits[k])
<1>1. /\ changed \in Seq(Digit) /\ Len(changed) = n /\ changed[k] = x
      /\ \A i \in 1..n : i # k => changed[i] = digits[i]
  OBVIOUS
<1>2. n \in Nat /\ k \in 1..n /\ digits[k] \in Digit
  OBVIOUS
<1>3. Ascii(x) \in Nat /\ Ascii(digits[k]) \in Nat
  BY <1>2, AsciiIsNat
<1> HIDE DEF changed
<1>4. /\ D \in [0..n -> Nat] /\ D[0] = 0
      /\ \A i \in 1..n : D[i] = D[i - 1] + Ascii(digits[i])
  BY SumsAreSums
<1>5. /\ E \in [0..n -> Nat] /\ E[0] = 0
      /\ \A i \in 1..n : E[i] = E[i - 1] + Ascii(changed[i])
  BY <1>1, SumsAreSums
<1>6. \A i \in 1..n : Ascii(digits[i]) \in Nat
  <2>1. \A i \in 1..n : digits[i] \in Digit
    OBVIOUS
  <2> QED
    BY <2>1, AsciiIsNat
<1> HIDE DEF n, D, E
<1> DEFINE Good == {i \in 0..n : E[i] = IF i < k THEN D[i] ELSE D[i] + diff}
<1>7. 0 \in Good
  BY <1>2, <1>4, <1>5
<1>8. ASSUME NEW i \in 1..n, i - 1 \in Good PROVE i \in Good
  <2>1. i \in 0..n /\ i - 1 \in 0..n /\ i \in Int /\ k \in Int
    BY <1>2
  <2>2. D[i] \in Nat /\ D[i - 1] \in Nat /\ E[i] \in Nat /\ E[i - 1] \in Nat
    BY <1>4, <1>5, <2>1
  <2>3. D[i] = D[i - 1] + Ascii(digits[i]) /\ E[i] = E[i - 1] + Ascii(changed[i])
    BY <1>4, <1>5
  <2>4. E[i - 1] = IF i - 1 < k THEN D[i - 1] ELSE D[i - 1] + diff
    BY <1>8
  <2>5. CASE i < k
    <3>1. changed[i] = digits[i] /\ i - 1 < k
      BY <1>1, <2>1, <2>5
    <3> QED
      BY <2>1, <2>3, <2>4, <2>5, <3>1
  <2>6. CASE i = k
    <3>1. E[i] = D[i - 1] + Ascii(x) /\ D[i] = D[i - 1] + Ascii(digits[k])
      BY <1>1, <2>1, <2>3, <2>4, <2>6
    <3>2. E[i] = D[i] + diff
      BY <1>3, <2>2, <3>1
    <3> QED
      BY <2>1, <2>6, <3>2
  <2>7. CASE i > k
    <3>1. changed[i] = digits[i] /\ ~(i - 1 < k) /\ ~(i < k)
      BY <1>1, <2>1, <2>7
    <3>2. E[i - 1] = D[i - 1] + diff
      BY <2>4, <3>1
    <3>3. PICK p : p = D[i - 1]
      OBVIOUS
    <3>4. PICK r : r = Ascii(digits[i])
      OBVIOUS
    <3>5. p \in Nat /\ r \in Nat /\ diff \in Int
      BY <1>3, <1>6, <2>2, <3>3, <3>4
    <3>6. E[i] = (p + diff) + r /\ D[i] = p + r
      BY <2>3, <3>1, <3>2, <3>3, <3>4
    <3> HIDE DEF diff
    <3>7. (p + diff) + r = (p + r) + diff
      BY <3>5
    <3>8. E[i] = D[i] + diff
      BY <3>6, <3>7
    <3> QED
      BY <2>1, <3>1, <3>8
  <2> QED
    BY <2>1, <2>5, <2>6, <2>7
<1>9. n \in Good
  <2> HIDE DEF Good
  <2>1. \A i \in 0..n : i \in Good
    BY <1>2, <1>7, <1>8, UpTo
  <2> QED
    BY <1>2, <2>1
<1>10. E[n] = D[n] + diff
  BY <1>2, <1>9
<1> QED
  BY <1>10 DEF n, D, E, changed

\* No two digits have the same character, and their characters are close together.
LEMMA AsciiIsInjective ==
  ASSUME NEW d \in Digit, NEW x \in Digit, x # d
  PROVE  /\ Ascii(x) # Ascii(d)
         /\ Ascii(x) - Ascii(d) <= 22 /\ Ascii(d) - Ascii(x) <= 22
<1>1. d \in 0..15 /\ x \in 0..15
  BY DigitRange
<1> QED
  BY <1>1 DEF Ascii

\* A checksum has 16 bits.
LEMMA ChecksumRange ==
  ASSUME NEW digits \in Seq(Digit)
  PROVE  ChecksumOf(digits) \in Int /\ 0 <= ChecksumOf(digits) /\ ChecksumOf(digits) < 65536
<1>1. PICK a : a = Sums(digits)[Len(digits)]
  OBVIOUS
<1>2. a \in Nat
  BY <1>1, SumsAreSums
<1>3. ChecksumOf(digits) = (-a) % 65536
  BY <1>1, ChecksumIsASum
<1> QED
  BY <1>2, <1>3

\* The checksum of a text changes with every single digit of it.
LEMMA ChangedChecksum ==
  ASSUME NEW digits \in Seq(Digit), NEW k \in 1..Len(digits), NEW x \in Digit, x # digits[k]
  PROVE  ChecksumOf([digits EXCEPT ![k] = x]) # ChecksumOf(digits)
<1> DEFINE changed == [digits EXCEPT ![k] = x]
           a == Sums(digits)[Len(digits)]
           b == Sums(changed)[Len(digits)]
           diff == Ascii(x) - Ascii(digits[k])
<1>1. digits[k] \in Digit /\ changed \in Seq(Digit) /\ Len(changed) = Len(digits)
  OBVIOUS
<1>2. diff \in Int /\ diff # 0 /\ diff <= 22 /\ -22 <= diff
  <2>1. Ascii(x) \in Nat /\ Ascii(digits[k]) \in Nat
    BY <1>1, AsciiIsNat
  <2> QED
    BY <1>1, <2>1, AsciiIsInjective
<1>3. b = a + diff
  BY ChangedSum
<1>4. a \in Nat /\ b \in Nat
  BY <1>1, SumsAreSums
<1>5. ChecksumOf(digits) = (-a) % 65536 /\ ChecksumOf(changed) = (-b) % 65536
  <2>1. ChecksumOf(digits) = (-Sums(digits)[Len(digits)]) % 65536
    BY ChecksumIsASum
  <2>2. ChecksumOf(changed) = (-Sums(changed)[Len(changed)]) % 65536
    BY ChecksumIsASum
  <2> QED
    BY <1>1, <2>1, <2>2
<1> HIDE DEF a, b, diff, changed
<1>6. (-b) % 65536 # (-a) % 65536
  BY <1>2, <1>3, <1>4
<1> QED
  BY <1>5, <1>6 DEF changed

\* Four digits hold any number of 16 bits.
LEMMA HexIsInjective ==
  ASSUME NEW a \in Int, 0 <= a, a < 65536, NEW b \in Int, 0 <= b, b < 65536,
         Hex(a, 4) = Hex(b, 4)
  PROVE  a = b
<1>1. /\ 1 \in 1..4 /\ 2 \in 1..4 /\ 3 \in 1..4 /\ 4 \in 1..4
      /\ 4 - 1 + 1 = 4 /\ 4 - 2 + 1 = 3 /\ 4 - 3 + 1 = 2 /\ 4 - 4 + 1 = 1
  OBVIOUS
<1>2. Weight[1] = 1 /\ Weight[2] = 16 /\ Weight[3] = 256 /\ Weight[4] = 4096
  BY DEF Weight
<1> DEFINE D(n, w) == (n \div w) % 16
<1>3. ASSUME NEW n \in Int, NEW i \in 1..4 PROVE Hex(n, 4)[i] = D(n, Weight[4 - i + 1])
  BY DEF Hex
<1> HIDE DEF D
<1>4. ASSUME NEW n \in Int
      PROVE  /\ Hex(n, 4)[1] = D(n, 4096) /\ Hex(n, 4)[2] = D(n, 256)
             /\ Hex(n, 4)[3] = D(n, 16) /\ Hex(n, 4)[4] = D(n, 1)
  BY <1>1, <1>2, <1>3
<1>5. /\ D(a, 4096) = D(b, 4096) /\ D(a, 256) = D(b, 256)
      /\ D(a, 16) = D(b, 16) /\ D(a, 1) = D(b, 1)
  <2>1. D(a, 4096) = Hex(a, 4)[1] /\ D(a, 256) = Hex(a, 4)[2]
        /\ D(a, 16) = Hex(a, 4)[3] /\ D(a, 1) = Hex(a, 4)[4]
    BY <1>4
  <2>2. D(b, 4096) = Hex(b, 4)[1] /\ D(b, 256) = Hex(b, 4)[2]
        /\ D(b, 16) = Hex(b, 4)[3] /\ D(b, 1) = Hex(b, 4)[4]
    BY <1>4
  <2>3. /\ Hex(a, 4)[1] = Hex(b, 4)[1] /\ Hex(a, 4)[2] = Hex(b, 4)[2]
        /\ Hex(a, 4)[3] = Hex(b, 4)[3] /\ Hex(a, 4)[4] = Hex(b, 4)[4]
    OBVIOUS
  <2> QED
    BY <2>1, <2>2, <2>3
<1> USE DEF D
<1>6. a \div 1 = a /\ b \div 1 = b
  OBVIOUS
<1>7. a \div 4096 = b \div 4096
  <2>1. /\ 0 <= a \div 4096 /\ a \div 4096 < 16 /\ 0 <= b \div 4096 /\ b \div 4096 < 16
        /\ a \div 4096 \in Int /\ b \div 4096 \in Int
    OBVIOUS
  <2> QED
    BY <1>5, <2>1
<1>8. a \div 256 = b \div 256
  BY <1>5, <1>7
<1>9. a \div 16 = b \div 16
  BY <1>5, <1>8
<1> QED
  BY <1>5, <1>6, <1>9

\* One character of a response changes on its way, in any position but the
\* length field: the frame is rejected or its checksum is seen not to match.
\* (The length field carries a nibble of its own for this, which parseFrame does
\* not look at, and a mismatch of the checksum is only logged.)
THEOREM DamageIsNoticed ==
  ASSUME NEW digits \in Seq(Digit),
         ParseFrame(digits).err = "none", ParseFrame(digits).checksumOK,
         NEW k \in 1..16 + InfoHexLen(digits), k \notin 10..12,
         NEW x \in Digit, x # digits[k]
  PROVE  LET f == ParseFrame([digits EXCEPT ![k] = x])
         IN  f.err # "none" \/ ~f.checksumOK
<1> DEFINE changed == [digits EXCEPT ![k] = x]
           n == InfoHexLen(digits)
           body == SubSeq(digits, 1, 12 + n)
           other == SubSeq(changed, 1, 12 + n)
           tail == SubSeq(digits, 13 + n, 16 + n)
           cut == SubSeq(changed, 13 + n, 16 + n)
<1>1. ~Malformed(digits)
  BY DEF ParseFrame, BadFrame
<1>2. n \in Nat /\ 16 + n <= Len(digits) /\ Len(digits) \in Nat
  <2>1. n \in 0..4095 /\ 16 + n <= Len(digits)
    BY <1>1, FrameReadsInside
  <2> HIDE DEF n
  <2> QED
    BY <2>1
<1>3. /\ changed \in Seq(Digit) /\ Len(changed) = Len(digits) /\ changed[k] = x
      /\ \A i \in 1..Len(digits) : i # k => changed[i] = digits[i]
  BY <1>2
<1>4. InfoHexLen(changed) = n
  BY <1>2, <1>3 DEF InfoHexLen
<1>5. tail = Hex(ChecksumOf(body), 4)
  BY <1>1 DEF ParseFrame, BadFrame
<1>6. SUFFICES ASSUME ParseFrame(changed).err = "none", ParseFrame(changed).checksumOK
               PROVE  FALSE
  OBVIOUS
<1>7. cut = Hex(ChecksumOf(other), 4)
  <2>1. ~Malformed(changed)
    BY <1>6 DEF ParseFrame, BadFrame
  <2> HIDE DEF changed
  <2> QED
    BY <1>4, <1>6, <2>1 DEF ParseFrame, BadFrame
<1> HIDE DEF n, changed
<1>8. /\ body \in Seq(Digit) /\ Len(body) = 12 + n /\ \A i \in 1..12 + n : body[i] = digits[i]
      /\ other \in Seq(Digit) /\ Len(other) = 12 + n /\ \A i \in 1..12 + n : other[i] = changed[i]
  BY <1>2, <1>3
<1>9. /\ Len(tail) = 4 /\ \A i \in 1..4 : tail[i] = digits[12 + n + i]
      /\ Len(cut) = 4 /\ \A i \in 1..4 : cut[i] = changed[12 + n + i]
  BY <1>2, <1>3
<1>10. CASE k <= 12 + n
  <2>1. cut = tail
    <3>2. tail \in Seq(Digit) /\ cut \in Seq(Digit)
      BY <1>2, <1>3
    <3> HIDE DEF tail, cut
    <3>1. ASSUME NEW i \in 1..4 PROVE cut[i] = tail[i]
      <4>1. 12 + n + i \in 1..Len(digits) /\ 12 + n + i # k
        BY <1>2, <1>10
      <4>2. cut[i] = changed[12 + n + i] /\ tail[i] = digits[12 + n + i]
        BY <1>9
      <4> QED
        BY <1>3, <4>1, <4>2
    <3>3. Len(cut) = 4 /\ Len(tail) = 4
      BY <1>9
    <3>4. \A i \in 1..Len(cut) : cut[i] = tail[i]
      BY <3>1, <3>3
    <3> QED
      BY ONLY <3>2, <3>3, <3>4, SeqEqual
  <2>2. other = [body EXCEPT ![k] = x]
    <3> DEFINE edited == [body EXCEPT ![k] = x]
    <3> HIDE DEF body, other
    <3>1. edited \in Seq(Digit) /\ Len(edited) = 12 + n
      <4>1. k \in 1..Len(body)
        BY <1>2, <1>8, <1>10
      <4> QED
        BY <1>8, <4>1, ExceptSeq
    <3>2. ASSUME NEW i \in 1..12 + n PROVE other[i] = edited[i]
      <4>1. i \in 1..Len(digits) /\ i \in 1..Len(body)
        BY <1>2, <1>8
      <4>2. CASE i = k
        BY <1>3, <1>8, <4>1, <4>2
      <4>3. CASE i # k
        BY <1>3, <1>8, <4>1, <4>3
      <4> QED
        BY <4>2, <4>3
    <3> HIDE DEF edited
    <3>3. other \in Seq(Digit) /\ Len(other) = Len(edited)
      BY <1>8, <3>1
    <3>4. \A i \in 1..Len(other) : other[i] = edited[i]
      BY <1>8, <3>2
    <3>5. other = edited
      BY ONLY <3>1, <3>3, <3>4, SeqEqual
    <3> QED
      BY <3>5 DEF edited
  <2>3. k \in 1..Len(body) /\ x # body[k]
    BY <1>2, <1>8, <1>10
  <2> HIDE DEF body, other, tail, cut
  <2>4. ChecksumOf(other) # ChecksumOf(body)
    BY <1>8, <2>2, <2>3, ChangedChecksum
  <2> QED
    BY <1>5, <1>7, <1>8, <2>1, <2>4, ChecksumRange, HexIsInjective
<1>11. CASE k > 12 + n
  <2>1. other = body
    <3> HIDE DEF body, other
    <3>1. ASSUME NEW i \in 1..12 + n PROVE other[i] = body[i]
      <4>1. i \in 1..Len(digits) /\ i # k
        BY <1>2, <1>11
      <4>2. other[i] = changed[i] /\ body[i] = digits[i]
        BY <1>8
      <4> QED
        BY <1>3, <4>1, <4>2
    <3>2. /\ other \in Seq(Digit) /\ body \in Seq(Digit)
          /\ Len(other) = 12 + n /\ Len(body) = 12 + n
      BY <1>8
    <3>3. \A i \in 1..Len(other) : other[i] = body[i]
      BY <3>1, <3>2
    <3> QED
      BY ONLY <3>2, <3>3, SeqEqual
  <2>2. PICK i \in 1..4 : k = 12 + n + i
    BY <1>2, <1>11 DEF n
  <2>3. cut[i] # tail[i]
    BY <1>3, <1>9, <2>2
  <2> HIDE DEF body, other, tail, cut
  <2> QED
    BY <1>5, <1>7, <2>1, <2>3
<1> QED
  BY <1>2, <1>10, <1>11

-----------------------------------------------------------------------------
(* The text of a number *)

\* The digits s stand in h, after the first p.
Lay(h, p, s) == p + Len(s) <= Len(h) /\ \A i \in 1..Len(s) : h[p + i] = s[i]

\* The bytes that a text of digits stands for.
Bytes(digits) == [i \in 1..Len(digits) \div 2 |-> ByteAt(digits, 2 * i - 1)]

\* What is laid down as a whole is laid down in parts.
LEMMA LayParts ==
  ASSUME NEW h \in Seq(Digit), NEW p \in Nat, NEW s \in Seq(Digit), NEW t \in Seq(Digit),
         Lay(h, p, s \o t)
  PROVE  Lay(h, p, s) /\ Lay(h, p + Len(s), t)
<1> DEFINE m == Len(s)
           n == Len(t)
           k == Len(h)
           u == s \o t
<1>1. m \in Nat /\ n \in Nat /\ k \in Nat
  OBVIOUS
<1>2. /\ Len(u) = m + n
      /\ \A i \in 1..m + n : u[i] = IF i <= m THEN s[i] ELSE t[i - m]
  BY ConcatProperties
<1>3. p + Len(u) <= k /\ \A i \in 1..Len(u) : h[p + i] = u[i]
  BY DEF Lay
<1> HIDE DEF m, n, k, u
<1>4. p + m <= k /\ (p + m) + n <= k
  BY <1>1, <1>2, <1>3
<1>5. ASSUME NEW i \in 1..m PROVE h[p + i] = s[i]
  <2>1. i \in 1..m + n /\ i <= m
    BY <1>1
  <2> QED
    BY <1>2, <1>3, <2>1
<1>6. ASSUME NEW i \in 1..n PROVE h[(p + m) + i] = t[i]
  <2>1. m + i \in 1..m + n /\ ~(m + i <= m) /\ (m + i) - m = i /\ p + (m + i) = (p + m) + i
    BY <1>1
  <2>2. h[p + (m + i)] = u[m + i]
    BY <1>2, <1>3, <2>1
  <2>3. u[m + i] = t[(m + i) - m]
    BY <1>2, <2>1
  <2> QED
    BY <2>1, <2>2, <2>3
<1> QED
  BY <1>4, <1>5, <1>6 DEF Lay, m, n, k

\* A text stands in itself.
LEMMA LayWhole ==
  ASSUME NEW h \in Seq(Digit)
  PROVE  Lay(h, 0, h)
<1>1. Len(h) \in Nat
  OBVIOUS
<1>2. 0 + Len(h) <= Len(h) /\ \A i \in 1..Len(h) : 0 + i = i
  BY <1>1
<1> QED
  BY <1>2 DEF Lay

\* The digit of n that has weight w.
Nibble(n, w) == (n \div w) % 16

\* The digits of a number.
LEMMA HexDigits ==
  ASSUME NEW n \in Int
  PROVE  /\ Hex(n, 2) \in Seq(Digit) /\ Len(Hex(n, 2)) = 2
         /\ Hex(n, 2)[1] = Nibble(n, 16) /\ Hex(n, 2)[2] = Nibble(n, 1)
         /\ Hex(n, 4) \in Seq(Digit) /\ Len(Hex(n, 4)) = 4
         /\ Hex(n, 4)[1] = Nibble(n, 4096) /\ Hex(n, 4)[2] = Nibble(n, 256)
         /\ Hex(n, 4)[3] = Nibble(n, 16) /\ Hex(n, 4)[4] = Nibble(n, 1)
<1>1. Weight[1] = 1 /\ Weight[2] = 16 /\ Weight[3] = 256 /\ Weight[4] = 4096
  BY DEF Weight
<1>2. /\ Nibble(n, 4096) \in Digit /\ Nibble(n, 256) \in Digit
      /\ Nibble(n, 16) \in Digit /\ Nibble(n, 1) \in Digit
  BY DEF Digit, Nibble
<1>3. /\ Hex(n, 2) = [i \in 1..2 |-> Nibble(n, Weight[2 - i + 1])]
      /\ Hex(n, 4) = [i \in 1..4 |-> Nibble(n, Weight[4 - i + 1])]
  BY DEF Hex, Nibble
<1>5. /\ Hex(n, 2)[1] = Nibble(n, 16) /\ Hex(n, 2)[2] = Nibble(n, 1)
      /\ Hex(n, 4)[1] = Nibble(n, 4096) /\ Hex(n, 4)[2] = Nibble(n, 256)
      /\ Hex(n, 4)[3] = Nibble(n, 16) /\ Hex(n, 4)[4] = Nibble(n, 1)
  BY <1>1, <1>3
<1>6. /\ \A i \in 1..2 : Nibble(n, Weight[2 - i + 1]) \in Digit
      /\ \A i \in 1..4 : Nibble(n, Weight[4 - i + 1]) \in Digit
  BY <1>1, <1>2
<1>7. /\ Hex(n, 2) \in [1..2 -> Digit] /\ Hex(n, 4) \in [1..4 -> Digit]
  <2>1. [i \in 1..2 |-> Nibble(n, Weight[2 - i + 1])] \in [1..2 -> Digit]
    BY <1>6
  <2>2. [i \in 1..4 |-> Nibble(n, Weight[4 - i + 1])] \in [1..4 -> Digit]
    BY <1>6
  <2> QED
    BY <1>3, <2>1, <2>2
<1>8. /\ Hex(n, 2) \in Seq(Digit) /\ Hex(n, 4) \in Seq(Digit)
      /\ Len(Hex(n, 2)) = 2 /\ Len(Hex(n, 4)) = 4
  <2>1. ASSUME NEW m \in Nat, NEW h \in [1..m -> Digit] PROVE h \in Seq(Digit) /\ Len(h) = m
    OBVIOUS
  <2> QED
    BY <1>7, <2>1
<1> QED
  BY <1>5, <1>8

\* The digits of a byte, without their values.
LEMMA TwoDigits == \A n \in Int : Hex(n, 2) \in Seq(Digit) /\ Len(Hex(n, 2)) = 2
BY HexDigits

\* The same of a field of two bytes.
LEMMA FourDigits == \A n \in Int : Hex(n, 4) \in Seq(Digit) /\ Len(Hex(n, 4)) = 4
BY HexDigits

\* Two digits hold a byte, and four hold a word.
LEMMA HexByte ==
  ASSUME NEW n \in Byte
  PROVE  16 * Nibble(n, 16) + Nibble(n, 1) = n
<1>1. n \in Int /\ 0 <= n /\ n <= 255
  BY ByteRange
<1>2. (n \div 16) % 16 = n \div 16 /\ n \div 1 = n
  BY ONLY <1>1
<1>3. Nibble(n, 16) = n \div 16 /\ Nibble(n, 1) = n % 16
  BY ONLY <1>2 DEF Nibble
<1>4. 16 * (n \div 16) + (n % 16) = n
  BY ONLY <1>1
<1> QED
  BY ONLY <1>3, <1>4

\* The words, as the provers want them.
LEMMA WordRange == \A n \in Word : n \in Int /\ 0 <= n /\ n <= 65535
<1>1. WordMax \in Int /\ WordMax <= 65535
  BY DEF WordMax
<1>2. \A n \in Word : n \in Int /\ 0 <= n /\ n <= WordMax
  BY <1>1 DEF Word
<1> QED
  BY <1>1, <1>2

\* A number in their range is a word.
LEMMA IsWord ==
  ASSUME NEW n \in Int, 0 <= n, n <= 65535
  PROVE  n \in Word
<1>1. WordMax \in Int /\ n <= WordMax
  BY DEF WordMax
<1> QED
  BY <1>1 DEF Word

\* Four digits hold a word.
LEMMA HexWord ==
  ASSUME NEW n \in Word
  PROVE  256 * (16 * Nibble(n, 4096) + Nibble(n, 256))
           + (16 * Nibble(n, 16) + Nibble(n, 1)) = n
<1>1. n \in Int /\ 0 <= n /\ n < 65536
  BY WordRange
<1> DEFINE a == n \div 16
           b == n \div 256
           c == n \div 4096
<1>2. a = 16 * b + (a % 16) /\ b = 16 * c + (b % 16) /\ n = 16 * a + (n % 16) /\ n \div 1 = n
  BY <1>1
<1>3. c % 16 = c
  BY <1>1
<1> QED
  BY <1>1, <1>2, <1>3 DEF Nibble

\* The digits of words, four for each.
LEMMA WordDigits ==
  ASSUME NEW ws \in Seq(Int)
  PROVE  /\ HexWords(ws) \in Seq(Digit) /\ Len(HexWords(ws)) = 4 * Len(ws)
         /\ \A j \in 1..Len(ws) :
              /\ HexWords(ws)[4 * (j - 1) + 1] = Nibble(ws[j], 4096)
              /\ HexWords(ws)[4 * (j - 1) + 2] = Nibble(ws[j], 256)
              /\ HexWords(ws)[4 * (j - 1) + 3] = Nibble(ws[j], 16)
              /\ HexWords(ws)[4 * (j - 1) + 4] = Nibble(ws[j], 1)
<1> DEFINE n == Len(ws)
           h == HexWords(ws)
<1>1. n \in Nat /\ \A j \in 1..n : ws[j] \in Int
  OBVIOUS
<1>2. h = [i \in 1..4 * n |-> Nibble(ws[(i + 3) \div 4], Weight[((-i) % 4) + 1])]
  BY DEF HexWords, Nibble
<1>3. Weight[1] = 1 /\ Weight[2] = 16 /\ Weight[3] = 256 /\ Weight[4] = 4096
  BY DEF Weight
<1>4. \A x \in Int : /\ Nibble(x, 1) \in Digit /\ Nibble(x, 16) \in Digit
                     /\ Nibble(x, 256) \in Digit /\ Nibble(x, 4096) \in Digit
  BY DEF Digit, Nibble
<1> HIDE DEF n, h
<1>5. ASSUME NEW i \in 1..4 * n
      PROVE  /\ (i + 3) \div 4 \in 1..n
             /\ ((-i) % 4) + 1 \in {1, 2, 3, 4}
  BY <1>1
<1>6. ASSUME NEW i \in 1..4 * n PROVE Nibble(ws[(i + 3) \div 4], Weight[((-i) % 4) + 1]) \in Digit
  <2>1. ws[(i + 3) \div 4] \in Int
    BY <1>1, <1>5
  <2> DEFINE x == ws[(i + 3) \div 4]
             k == ((-i) % 4) + 1
  <2>2. x \in Int /\ k \in {1, 2, 3, 4}
    BY <1>5, <2>1
  <2> HIDE DEF x, k
  <2>3. Nibble(x, Weight[k]) \in Digit
    BY <1>3, <1>4, <2>2
  <2> QED
    BY <2>3 DEF x, k
<1>7. h \in [1..4 * n -> Digit]
  BY <1>2, <1>6
<1>8. h \in Seq(Digit) /\ Len(h) = 4 * n
  <2> DEFINE m == 4 * n
  <2>1. m \in Nat /\ h \in [1..m -> Digit]
    BY <1>1, <1>7
  <2> HIDE DEF m
  <2>2. h \in Seq(Digit) /\ Len(h) = m
    BY <2>1
  <2> QED
    BY <2>2 DEF m
<1>9. ASSUME NEW j \in 1..n
      PROVE  /\ h[4 * (j - 1) + 1] = Nibble(ws[j], 4096)
             /\ h[4 * (j - 1) + 2] = Nibble(ws[j], 256)
             /\ h[4 * (j - 1) + 3] = Nibble(ws[j], 16)
             /\ h[4 * (j - 1) + 4] = Nibble(ws[j], 1)
  <2> DEFINE i == 4 * (j - 1)
  <2>1. /\ i + 1 \in 1..4 * n /\ i + 2 \in 1..4 * n /\ i + 3 \in 1..4 * n /\ i + 4 \in 1..4 * n
    BY <1>1
  <2>2. /\ ((i + 1) + 3) \div 4 = j /\ ((i + 2) + 3) \div 4 = j
        /\ ((i + 3) + 3) \div 4 = j /\ ((i + 4) + 3) \div 4 = j
    BY <1>1
  <2>3. /\ ((-(i + 1)) % 4) + 1 = 4 /\ ((-(i + 2)) % 4) + 1 = 3
        /\ ((-(i + 3)) % 4) + 1 = 2 /\ ((-(i + 4)) % 4) + 1 = 1
    BY <1>1
  <2> HIDE DEF i
  <2>4. \A k \in 1..4 * n : h[k] = Nibble(ws[(k + 3) \div 4], Weight[((-k) % 4) + 1])
    BY <1>2
  <2>5. /\ h[i + 1] = Nibble(ws[j], 4096) /\ h[i + 2] = Nibble(ws[j], 256)
        /\ h[i + 3] = Nibble(ws[j], 16) /\ h[i + 4] = Nibble(ws[j], 1)
    <3>1. h[i + 1] = Nibble(ws[j], Weight[4])
      <4>1. h[i + 1] = Nibble(ws[((i + 1) + 3) \div 4], Weight[((-(i + 1)) % 4) + 1])
        BY <2>1, <2>4
      <4> QED
        BY ONLY <2>2, <2>3, <4>1
    <3>2. h[i + 2] = Nibble(ws[j], Weight[3])
      <4>1. h[i + 2] = Nibble(ws[((i + 2) + 3) \div 4], Weight[((-(i + 2)) % 4) + 1])
        BY <2>1, <2>4
      <4> QED
        BY ONLY <2>2, <2>3, <4>1
    <3>3. h[i + 3] = Nibble(ws[j], Weight[2])
      <4>1. h[i + 3] = Nibble(ws[((i + 3) + 3) \div 4], Weight[((-(i + 3)) % 4) + 1])
        BY <2>1, <2>4
      <4> QED
        BY ONLY <2>2, <2>3, <4>1
    <3>4. h[i + 4] = Nibble(ws[j], Weight[1])
      <4>1. h[i + 4] = Nibble(ws[((i + 4) + 3) \div 4], Weight[((-(i + 4)) % 4) + 1])
        BY <2>1, <2>4
      <4> QED
        BY ONLY <2>2, <2>3, <4>1
    <3> QED
      BY <1>3, <3>1, <3>2, <3>3, <3>4
  <2> QED
    BY <2>5 DEF i
<1> QED
  BY <1>8, <1>9 DEF n, h

\* A byte that is laid down in a payload is read from it.
LEMMA ByteIsRead ==
  ASSUME NEW P \in Seq(Digit), NEW q \in Nat, NEW n \in Byte, Lay(P, 2 * q, Hex(n, 2))
  PROVE  Bytes(P)[q + 1] = n
<1>1. Len(P) \in Nat /\ n \in Int
  BY ByteIsInt
<1>2. Len(Hex(n, 2)) = 2 /\ Hex(n, 2)[1] = Nibble(n, 16) /\ Hex(n, 2)[2] = Nibble(n, 1)
  BY <1>1, HexDigits
<1>3. 2 * q + 2 <= Len(P) /\ P[2 * q + 1] = Hex(n, 2)[1] /\ P[2 * q + 2] = Hex(n, 2)[2]
  <2>1. 1 \in 1..2 /\ 2 \in 1..2
    OBVIOUS
  <2> QED
    BY <1>2, <2>1 DEF Lay
<1>4. q + 1 \in 1..Len(P) \div 2 /\ 2 * (q + 1) - 1 = 2 * q + 1 /\ (2 * q + 1) + 1 = 2 * q + 2
  BY <1>1, <1>3
<1>5. Bytes(P)[q + 1] = 16 * P[2 * q + 1] + P[2 * q + 2]
  BY <1>4 DEF Bytes, ByteAt
<1> QED
  BY <1>2, <1>3, <1>5, HexByte

\* So is a word.
LEMMA WordIsRead ==
  ASSUME NEW P \in Seq(Digit), NEW q \in Nat, NEW ws \in Seq(Int), Lay(P, 2 * q, HexWords(ws)),
         NEW j \in 1..Len(ws), ws[j] \in Word
  PROVE  U16(Bytes(P), q + 2 * (j - 1)) = ws[j]
<1> DEFINE n == Len(ws)
           h == HexWords(ws)
           w == ws[j]
           i == 4 * (j - 1)
           k == q + 2 * (j - 1)
           m == Len(P)
<1>1. n \in Nat /\ m \in Nat /\ j \in 1..n /\ w \in Word
  OBVIOUS
<1>2. /\ Len(h) = 4 * n
      /\ h[i + 1] = Nibble(w, 4096) /\ h[i + 2] = Nibble(w, 256)
      /\ h[i + 3] = Nibble(w, 16) /\ h[i + 4] = Nibble(w, 1)
  BY WordDigits
<1>3. 2 * q + Len(h) <= m /\ \A x \in 1..Len(h) : P[2 * q + x] = h[x]
  BY DEF Lay
<1> HIDE DEF h, w, n, m
<1>4. /\ i + 1 \in 1..4 * n /\ i + 2 \in 1..4 * n /\ i + 3 \in 1..4 * n /\ i + 4 \in 1..4 * n
      /\ 2 * q + (i + 1) = 2 * k + 1 /\ 2 * q + (i + 2) = 2 * k + 2
      /\ 2 * q + (i + 3) = 2 * k + 3 /\ 2 * q + (i + 4) = 2 * k + 4
  BY <1>1
<1>5. /\ P[2 * k + 1] = h[i + 1] /\ P[2 * k + 2] = h[i + 2]
      /\ P[2 * k + 3] = h[i + 3] /\ P[2 * k + 4] = h[i + 4]
  <2>1. /\ P[2 * q + (i + 1)] = h[i + 1] /\ P[2 * q + (i + 2)] = h[i + 2]
        /\ P[2 * q + (i + 3)] = h[i + 3] /\ P[2 * q + (i + 4)] = h[i + 4]
    <3> HIDE DEF i, k
    <3>1. \A x \in 1..4 * n : P[2 * q + x] = h[x]
      BY <1>2, <1>3
    <3>2. P[2 * q + (i + 1)] = h[i + 1]
      BY <1>4, <3>1
    <3>3. P[2 * q + (i + 2)] = h[i + 2]
      BY <1>4, <3>1
    <3>4. P[2 * q + (i + 3)] = h[i + 3]
      BY <1>4, <3>1
    <3>5. P[2 * q + (i + 4)] = h[i + 4]
      BY <1>4, <3>1
    <3> QED
      BY <3>2, <3>3, <3>4, <3>5
  <2> HIDE DEF i, k
  <2> QED
    BY <1>4, <2>1
<1>6. /\ k + 1 \in 1..m \div 2 /\ k + 2 \in 1..m \div 2
      /\ 2 * (k + 1) - 1 = 2 * k + 1 /\ (2 * k + 1) + 1 = 2 * k + 2
      /\ 2 * (k + 2) - 1 = 2 * k + 3 /\ (2 * k + 3) + 1 = 2 * k + 4
  <2>1. k \in Nat /\ 2 * (k + 2) <= 2 * q + 4 * n /\ 2 * q + 4 * n <= m
    BY <1>1, <1>2, <1>3
  <2> HIDE DEF k
  <2>2. 2 * (k + 2) <= m
    BY <1>1, <2>1
  <2> QED
    BY <1>1, <2>1, <2>2
<1> HIDE DEF i, k
<1>7. /\ Bytes(P)[k + 1] = 16 * P[2 * k + 1] + P[2 * k + 2]
      /\ Bytes(P)[k + 2] = 16 * P[2 * k + 3] + P[2 * k + 4]
  BY <1>6 DEF Bytes, ByteAt, m
<1>8. U16(Bytes(P), k) = 256 * (16 * Nibble(w, 4096) + Nibble(w, 256))
                           + (16 * Nibble(w, 16) + Nibble(w, 1))
  BY <1>2, <1>5, <1>7 DEF U16
<1>9. U16(Bytes(P), k) = w
  BY <1>1, <1>8, HexWord
<1> QED
  BY <1>9 DEF k, w

\* The words ws are read from the text P, the first of them at the cursor q.
WordsAt(P, q, ws) ==
  \A j \in 1..Len(ws) : ws[j] \in Word => U16(Bytes(P), q + 2 * (j - 1)) = ws[j]

\* Words are read where they stand.
LEMMA WordsAreRead ==
  ASSUME NEW P \in Seq(Digit), NEW p, NEW q \in Nat, NEW ws \in Seq(Int),
         p = 2 * q, Lay(P, p, HexWords(ws))
  PROVE  WordsAt(P, q, ws)
<1>1. Lay(P, 2 * q, HexWords(ws))
  OBVIOUS
<1> SUFFICES ASSUME NEW j \in 1..Len(ws), ws[j] \in Word
             PROVE  U16(Bytes(P), q + 2 * (j - 1)) = ws[j]
  BY DEF WordsAt
<1> QED
  BY <1>1, WordIsRead

-----------------------------------------------------------------------------
(* The text of a frame *)

\* The low three digits of the length field are the count.
LEMMA LengthIsKept ==
  ASSUME NEW n \in Nat, n <= 4095
  PROVE  /\ EncodeLength(n) \in Int
         /\ 256 * Nibble(EncodeLength(n), 256) + 16 * Nibble(EncodeLength(n), 16)
              + Nibble(EncodeLength(n), 1) = n
<1> DEFINE nib == (-n) % 16
           e == EncodeLength(n)
           b == n \div 256
           a == n \div 16
<1>1. nib \in Int /\ 0 <= nib /\ nib <= 15 /\ n % 4096 = n
  OBVIOUS
<1>2. e = 4096 * nib + n
  BY <1>1 DEF EncodeLength
<1>3. /\ a \in Nat /\ b \in Nat /\ b <= 15 /\ n = 16 * a + (n % 16) /\ a = 16 * b + (a % 16)
      /\ n % 16 \in Int /\ 0 <= n % 16 /\ n % 16 <= 15
      /\ a % 16 \in Int /\ 0 <= a % 16 /\ a % 16 <= 15
  OBVIOUS
<1> HIDE DEF nib, e, a, b
<1>4. e \div 256 = 16 * nib + b
  <2>1. e = 256 * (16 * nib + b) + (16 * (a % 16) + (n % 16))
    BY <1>1, <1>2, <1>3
  <2>2. PICK x \in Int : x = 16 * nib + b
    BY <1>1, <1>3
  <2>3. PICK y \in Int : y = 16 * (a % 16) + (n % 16)
    BY <1>3
  <2>4. e = 256 * x + y /\ 0 <= y /\ y <= 255
    BY <1>3, <2>1, <2>2, <2>3
  <2> QED
    BY <2>2, <2>4
<1>5. e \div 16 = 256 * nib + a
  <2>1. e = 16 * (256 * nib + a) + (n % 16)
    BY <1>1, <1>2, <1>3
  <2>2. PICK x \in Int : x = 256 * nib + a
    BY <1>1, <1>3
  <2>3. PICK y \in Int : y = n % 16
    BY <1>3
  <2>4. e = 16 * x + y /\ 0 <= y /\ y <= 15
    BY <1>3, <2>1, <2>2, <2>3
  <2> QED
    BY <2>2, <2>4
<1>6. e \in Int /\ e \div 1 = e
  BY <1>1, <1>2
<1>7. Nibble(e, 256) = b
  BY <1>1, <1>3, <1>4 DEF Nibble
<1>8. Nibble(e, 16) = a % 16
  <2>1. 256 * nib + a = 16 * (16 * nib + b) + (a % 16)
    BY <1>1, <1>3
  <2>2. PICK x \in Int : x = 16 * nib + b
    BY <1>1, <1>3
  <2>3. PICK y \in Int : y = a % 16
    BY <1>3
  <2>4. e \div 16 = 16 * x + y /\ 0 <= y /\ y <= 15
    BY <1>3, <1>5, <2>1, <2>2, <2>3
  <2> QED
    BY <2>3, <2>4 DEF Nibble
<1>9. Nibble(e, 1) = n % 16
  <2>1. PICK x \in Int : x = 256 * nib + a
    BY <1>1, <1>3
  <2>2. PICK y \in Int : y = n % 16
    BY <1>3
  <2>3. e = 16 * x + y /\ 0 <= y /\ y <= 15
    BY <1>1, <1>2, <1>3, <2>1, <2>2
  <2> QED
    BY <1>6, <2>2, <2>3 DEF Nibble
<1>10. 256 * Nibble(e, 256) + 16 * Nibble(e, 16) + Nibble(e, 1) = n
  <2>1. 256 * b + 16 * (a % 16) + (n % 16) = n
    BY <1>3
  <2> QED
    BY <1>7, <1>8, <1>9, <2>1
<1> QED
  BY <1>6, <1>10 DEF e


\* Two texts make one text.
LEMMA Joined ==
  ASSUME NEW s \in Seq(Digit), NEW t \in Seq(Digit)
  PROVE  s \o t \in Seq(Digit) /\ Len(s \o t) = Len(s) + Len(t)
BY ConcatProperties

\* What is laid down at the start is laid down in parts.
LEMMA LayStart ==
  ASSUME NEW h \in Seq(Digit), NEW s \in Seq(Digit), NEW t \in Seq(Digit), Lay(h, 0, s \o t)
  PROVE  Lay(h, 0, s) /\ Lay(h, Len(s), t)
<1> DEFINE p == 0
<1>1. p \in Nat /\ Lay(h, p, s \o t) /\ p + Len(s) = Len(s)
  OBVIOUS
<1> HIDE DEF p
<1>2. Lay(h, p, s) /\ Lay(h, p + Len(s), t)
  BY ONLY <1>1, h \in Seq(Digit), s \in Seq(Digit), t \in Seq(Digit), LayParts
<1> QED
  BY <1>1, <1>2 DEF p

\* The fields of a frame stand where the parser looks for them.
LEMMA FrameParts ==
  ASSUME NEW P \in Seq(Digit), Len(P) <= 4095, NEW a \in Byte, NEW cid2 \in Byte,
         NEW d, d = Frame(a, cid2, P)
  PROVE  /\ d \in Seq(Digit) /\ Len(d) = 16 + Len(P)
         /\ Lay(d, 6, Hex(cid2, 2))
         /\ Lay(d, 8, Hex(EncodeLength(Len(P)), 4))
         /\ Lay(d, 12, P)
         /\ SubSeq(d, 13 + Len(P), 16 + Len(P))
              = Hex(ChecksumOf(SubSeq(d, 1, 12 + Len(P))), 4)
<1> DEFINE n == Len(P)
           e == EncodeLength(n)
           s1 == Hex(Ver, 2) \o Hex(a, 2)
           s2 == s1 \o Hex(CID1, 2)
           s3 == s2 \o Hex(cid2, 2)
           s4 == s3 \o Hex(e, 4)
           inner == s4 \o P
           chk == Hex(ChecksumOf(inner), 4)
<1>1. n \in Nat /\ n <= 4095 /\ e \in Int /\ a \in Int /\ cid2 \in Int
  BY LengthIsKept, ByteIsInt
<1>2. Ver \in Int /\ CID1 \in Int
  BY DEF Ver, CID1
<1>3. d = inner \o chk
  BY DEF Frame
<1> HIDE DEF e, n
<1> HIDE DEF s1, s2, s3, s4, inner, chk
<1>4. s1 \in Seq(Digit) /\ Len(s1) = 4
  <2>1. Hex(Ver, 2) \in Seq(Digit) /\ Len(Hex(Ver, 2)) = 2
    BY ONLY <1>1, <1>2, TwoDigits
  <2>2. Hex(a, 2) \in Seq(Digit) /\ Len(Hex(a, 2)) = 2
    BY ONLY <1>1, <1>2, TwoDigits
  <2>3. s1 \in Seq(Digit) /\ Len(s1) = 2 + 2
    BY ONLY <2>1, <2>2, Joined DEF s1
  <2>4. 2 + 2 = 4
    OBVIOUS
  <2> QED
    BY <2>3, <2>4
<1>5. s2 \in Seq(Digit) /\ Len(s2) = 6
  <2>2. Hex(CID1, 2) \in Seq(Digit) /\ Len(Hex(CID1, 2)) = 2
    BY ONLY <1>2, TwoDigits
  <2>3. s2 \in Seq(Digit) /\ Len(s2) = 4 + 2
    BY ONLY <1>4, <2>2, Joined DEF s2
  <2>4. 4 + 2 = 6
    OBVIOUS
  <2> QED
    BY <2>3, <2>4
<1>6. s3 \in Seq(Digit) /\ Len(s3) = 8
  <2>2. Hex(cid2, 2) \in Seq(Digit) /\ Len(Hex(cid2, 2)) = 2
    BY ONLY <1>1, TwoDigits
  <2>3. s3 \in Seq(Digit) /\ Len(s3) = 6 + 2
    BY ONLY <1>5, <2>2, Joined DEF s3
  <2>4. 6 + 2 = 8
    OBVIOUS
  <2> QED
    BY <2>3, <2>4
<1>7. s4 \in Seq(Digit) /\ Len(s4) = 12
  <2>2. Hex(e, 4) \in Seq(Digit) /\ Len(Hex(e, 4)) = 4
    BY ONLY <1>1, FourDigits
  <2>3. s4 \in Seq(Digit) /\ Len(s4) = 8 + 4
    BY ONLY <1>6, <2>2, Joined DEF s4
  <2>4. 8 + 4 = 12
    OBVIOUS
  <2> QED
    BY <2>3, <2>4
<1>8. inner \in Seq(Digit) /\ Len(inner) = 12 + n
  <2>1. P \in Seq(Digit) /\ Len(P) = n
    BY DEF n
  <2>2. inner \in Seq(Digit) /\ Len(inner) = Len(s4) + Len(P)
    BY ONLY <1>7, <2>1, Joined DEF inner
  <2> QED
    BY <1>7, <2>1, <2>2
<1>9. ChecksumOf(inner) \in Int
  BY <1>8, ChecksumRange
<1>10. chk \in Seq(Digit) /\ Len(chk) = 4
  BY ONLY <1>9, FourDigits DEF chk
<1>11. d \in Seq(Digit) /\ Len(d) = 16 + n
  <2>1. d \in Seq(Digit) /\ Len(d) = Len(inner) + Len(chk)
    BY ONLY <1>3, <1>8, <1>10, Joined
  <2>2. Len(d) = (12 + n) + 4 /\ (12 + n) + 4 = 16 + n
    BY <1>1, <1>8, <1>10, <2>1
  <2> QED
    BY <2>1, <2>2
<1>12. Lay(d, 0, inner \o chk)
  <2>1. Lay(d, 0, d)
    BY <1>11, LayWhole
  <2> QED
    BY <1>3, <2>1
<1>13. Lay(d, 0, inner) /\ Lay(d, 12 + n, chk)
  <2>1. Lay(d, 0, inner) /\ Lay(d, Len(inner), chk)
    BY ONLY <1>8, <1>10, <1>11, <1>12, LayStart
  <2> QED
    BY <1>8, <2>1
<1>14. Lay(d, 0, s4) /\ Lay(d, 12, P)
  <2>1. Lay(d, 0, s4 \o P) /\ P \in Seq(Digit)
    BY <1>13 DEF inner
  <2>2. Lay(d, 0, s4) /\ Lay(d, Len(s4), P)
    BY ONLY <1>7, <1>11, <2>1, LayStart
  <2> QED
    BY ONLY <1>7, <2>2
<1>15. Lay(d, 0, s3) /\ Lay(d, 8, Hex(e, 4))
  <2> DEFINE t == Hex(e, 4)
  <2>1. Lay(d, 0, s3 \o t)
    BY <1>14 DEF s4
  <2>2. t \in Seq(Digit)
    BY ONLY <1>1, FourDigits
  <2> HIDE DEF t
  <2>3. Lay(d, 0, s3) /\ Lay(d, Len(s3), t)
    BY ONLY <1>6, <1>11, <2>1, <2>2, LayStart
  <2>4. Lay(d, 0, s3) /\ Lay(d, 8, t)
    BY ONLY <1>6, <2>3
  <2> QED
    BY <2>4 DEF t
<1>16. Lay(d, 6, Hex(cid2, 2))
  <2> DEFINE t == Hex(cid2, 2)
  <2>1. Lay(d, 0, s2 \o t)
    BY <1>15 DEF s3
  <2>2. t \in Seq(Digit)
    BY ONLY <1>1, TwoDigits
  <2> HIDE DEF t
  <2>3. Lay(d, Len(s2), t)
    BY ONLY <1>5, <1>11, <2>1, <2>2, LayStart
  <2>4. Lay(d, 6, t)
    BY ONLY <1>5, <2>3
  <2> QED
    BY <2>4 DEF t
<1>17. SubSeq(d, 1, 12 + n) = inner
  <2> DEFINE u == SubSeq(d, 1, 12 + n)
  <2>1. u \in Seq(Digit) /\ Len(u) = 12 + n /\ \A i \in 1..12 + n : u[i] = d[i]
    BY <1>1, <1>11
  <2> HIDE DEF u
  <2>2. \A i \in 1..12 + n : d[i] = inner[i]
    <3>1. \A i \in 1..12 + n : d[0 + i] = inner[i]
      BY <1>8, <1>13 DEF Lay
    <3>2. \A i \in 1..12 + n : 0 + i = i
      BY <1>1
    <3> QED
      BY <3>1, <3>2
  <2>3. Len(u) = Len(inner) /\ \A i \in 1..Len(u) : u[i] = inner[i]
    BY <1>8, <2>1, <2>2
  <2>4. u = inner
    BY ONLY <1>8, <2>1, <2>3, SeqEqual
  <2> QED
    BY <2>4 DEF u
<1>18. SubSeq(d, 13 + n, 16 + n) = chk
  <2> DEFINE u == SubSeq(d, 13 + n, 16 + n)
  <2>1. u \in Seq(Digit) /\ Len(u) = 4 /\ \A i \in 1..4 : u[i] = d[(12 + n) + i]
    BY <1>1, <1>11
  <2> HIDE DEF u
  <2>2. \A i \in 1..4 : d[(12 + n) + i] = chk[i]
    BY <1>10, <1>13 DEF Lay
  <2>3. Len(u) = Len(chk) /\ \A i \in 1..Len(u) : u[i] = chk[i]
    BY <1>10, <2>1, <2>2
  <2>4. u = chk
    BY ONLY <1>10, <2>1, <2>3, SeqEqual
  <2> QED
    BY <2>4 DEF u
<1>19. SubSeq(d, 13 + n, 16 + n) = Hex(ChecksumOf(SubSeq(d, 1, 12 + n)), 4)
  <2>1. chk = Hex(ChecksumOf(inner), 4)
    BY DEF chk
  <2> QED
    BY ONLY <1>17, <1>18, <2>1
<1> QED
  BY <1>11, <1>14, <1>15, <1>16, <1>19 DEF n, e

\* A frame arrives as it was sent.
LEMMA FrameIsParsed ==
  ASSUME NEW P \in Seq(Digit), Len(P) <= 4095, Len(P) % 2 = 0, NEW a \in Byte, NEW cid2 \in Byte,
         NEW d, d = Frame(a, cid2, P)
  PROVE  /\ d \in Seq(Digit) /\ Len(d) = 16 + Len(P) /\ InfoHexLen(d) = Len(P)
         /\ cid2 # RTNOk => ParseFrame(d).err = "bms"
         /\ cid2 = RTNOk => /\ ParseFrame(d).err = "none" /\ ParseFrame(d).checksumOK
                            /\ ParseFrame(d).info = Bytes(P)
<1> DEFINE n == Len(P)
           e == EncodeLength(n)
<1>1. n \in Nat /\ n <= 4095 /\ n % 2 = 0
  OBVIOUS
<1>2. /\ d \in Seq(Digit) /\ Len(d) = 16 + n
      /\ Lay(d, 6, Hex(cid2, 2)) /\ Lay(d, 8, Hex(e, 4)) /\ Lay(d, 12, P)
  BY FrameParts
<1>3. SubSeq(d, 13 + n, 16 + n) = Hex(ChecksumOf(SubSeq(d, 1, 12 + n)), 4)
  BY FrameParts
<1>4. /\ e \in Int
      /\ 256 * Nibble(e, 256) + 16 * Nibble(e, 16) + Nibble(e, 1) = n
  BY ONLY <1>1, LengthIsKept
<1> HIDE DEF e
<1>5. InfoHexLen(d) = n
  <2>0. e \in Int
    BY <1>4
  <2>1. /\ Len(Hex(e, 4)) = 4 /\ Hex(e, 4)[2] = Nibble(e, 256)
        /\ Hex(e, 4)[3] = Nibble(e, 16) /\ Hex(e, 4)[4] = Nibble(e, 1)
    BY ONLY <2>0, HexDigits
  <2>2. d[8 + 2] = Hex(e, 4)[2] /\ d[8 + 3] = Hex(e, 4)[3] /\ d[8 + 4] = Hex(e, 4)[4]
    <3>1. 2 \in 1..4 /\ 3 \in 1..4 /\ 4 \in 1..4
      OBVIOUS
    <3>2. \A i \in 1..4 : d[8 + i] = Hex(e, 4)[i]
      BY ONLY <1>2, <2>1 DEF Lay
    <3> QED
      BY ONLY <3>1, <3>2
  <2>3. d[10] = Nibble(e, 256) /\ d[11] = Nibble(e, 16) /\ d[12] = Nibble(e, 1)
    BY <2>1, <2>2
  <2> QED
    BY <1>4, <2>3 DEF InfoHexLen
<1>6. ByteAt(d, 7) = cid2
  <2>0. cid2 \in Int
    BY ByteIsInt
  <2>1. /\ Len(Hex(cid2, 2)) = 2 /\ Hex(cid2, 2)[1] = Nibble(cid2, 16)
        /\ Hex(cid2, 2)[2] = Nibble(cid2, 1)
    BY ONLY <2>0, HexDigits
  <2>2. d[6 + 1] = Hex(cid2, 2)[1] /\ d[6 + 2] = Hex(cid2, 2)[2]
    <3>1. 1 \in 1..2 /\ 2 \in 1..2
      OBVIOUS
    <3>2. \A i \in 1..2 : d[6 + i] = Hex(cid2, 2)[i]
      BY ONLY <1>2, <2>1 DEF Lay
    <3> QED
      BY ONLY <3>1, <3>2
  <2>3. d[7] = Nibble(cid2, 16) /\ d[7 + 1] = Nibble(cid2, 1)
    BY <2>1, <2>2
  <2> QED
    BY <2>3, HexByte DEF ByteAt
<1>7. ~Malformed(d)
  BY <1>1, <1>2, <1>5 DEF Malformed
<1>8. cid2 # RTNOk => ParseFrame(d).err = "bms"
  BY <1>6, <1>7 DEF ParseFrame, BadFrame
<1>9. ASSUME cid2 = RTNOk
      PROVE  /\ ParseFrame(d).err = "none" /\ ParseFrame(d).checksumOK
             /\ ParseFrame(d).info = [i \in 1..n \div 2 |-> ByteAt(d, 12 + 2 * i - 1)]
  <2> DEFINE m == InfoHexLen(d)
             info == [i \in 1..m \div 2 |-> ByteAt(d, 12 + 2 * i - 1)]
             matches == SubSeq(d, 13 + m, 16 + m) = Hex(ChecksumOf(SubSeq(d, 1, 12 + m)), 4)
  <2>1. ParseFrame(d) = [err |-> "none", info |-> info, checksumOK |-> matches]
    BY <1>6, <1>7, <1>9 DEF ParseFrame
  <2>2. matches
    BY <1>3, <1>5
  <2> HIDE DEF matches, info
  <2>3. /\ ParseFrame(d).err = "none" /\ ParseFrame(d).info = info
        /\ ParseFrame(d).checksumOK = matches
    BY <2>1
  <2>4. ParseFrame(d).checksumOK
    BY ONLY <2>2, <2>3, Zenon
  <2>5. info = [i \in 1..n \div 2 |-> ByteAt(d, 12 + 2 * i - 1)]
    BY <1>5 DEF info
  <2>6. ParseFrame(d).info = [i \in 1..n \div 2 |-> ByteAt(d, 12 + 2 * i - 1)]
    BY <2>3, <2>5
  <2> QED
    BY ONLY <2>3, <2>4, <2>6
<1>10. [i \in 1..n \div 2 |-> ByteAt(d, 12 + 2 * i - 1)] = Bytes(P)
  <2>1. ASSUME NEW i \in 1..n \div 2 PROVE ByteAt(d, 12 + 2 * i - 1) = ByteAt(P, 2 * i - 1)
    <3>1. /\ 2 * i - 1 \in 1..n /\ 2 * i \in 1..n /\ 12 + (2 * i - 1) = 12 + 2 * i - 1
          /\ (12 + 2 * i - 1) + 1 = 12 + 2 * i /\ (2 * i - 1) + 1 = 2 * i
      BY <1>1
    <3>2. d[12 + (2 * i - 1)] = P[2 * i - 1] /\ d[12 + 2 * i] = P[2 * i]
      <4>1. Lay(d, 12, P)
        BY <1>2
      <4>2. \A j \in 1..n : d[12 + j] = P[j]
        BY ONLY <4>1 DEF Lay
      <4> QED
        BY ONLY <3>1, <4>2
    <3> QED
      BY <3>1, <3>2 DEF ByteAt
  <2> QED
    BY <2>1 DEF Bytes
<1> QED
  <2>1. d \in Seq(Digit) /\ Len(d) = 16 + Len(P) /\ InfoHexLen(d) = Len(P)
    BY <1>2, <1>5
  <2>2. ASSUME cid2 = RTNOk PROVE ParseFrame(d).info = Bytes(P)
    BY <1>9, <1>10, <2>2
  <2>3. ASSUME cid2 = RTNOk PROVE ParseFrame(d).err = "none" /\ ParseFrame(d).checksumOK
    BY ONLY <1>9, <2>3
  <2> QED
    BY ONLY <1>8, <2>1, <2>2, <2>3

-----------------------------------------------------------------------------
(* The text of a payload *)

\* Eight texts, one after the other.
Chain(a, b, c, d, e, f, g, h) == a \o b \o c \o d \o e \o f \o g \o h

\* They stand in P, each behind the one before it.
Placed(P, a, b, c, d, e, f, g, h) ==
  /\ P \in Seq(Digit)
  /\ Len(P) = Len(a) + Len(b) + Len(c) + Len(d) + Len(e) + Len(f) + Len(g) + Len(h)
  /\ Lay(P, Len(a), b)
  /\ Lay(P, Len(a) + Len(b), c)
  /\ Lay(P, Len(a) + Len(b) + Len(c), d)
  /\ Lay(P, Len(a) + Len(b) + Len(c) + Len(d), e)
  /\ Lay(P, Len(a) + Len(b) + Len(c) + Len(d) + Len(e), f)
  /\ Lay(P, Len(a) + Len(b) + Len(c) + Len(d) + Len(e) + Len(f), g)
  /\ Lay(P, Len(a) + Len(b) + Len(c) + Len(d) + Len(e) + Len(f) + Len(g), h)

\* That is where they stand in their concatenation.
LEMMA EightParts ==
  ASSUME NEW a \in Seq(Digit), NEW b \in Seq(Digit), NEW c \in Seq(Digit), NEW d \in Seq(Digit),
         NEW e \in Seq(Digit), NEW f \in Seq(Digit), NEW g \in Seq(Digit), NEW h \in Seq(Digit)
  PROVE  Placed(Chain(a, b, c, d, e, f, g, h), a, b, c, d, e, f, g, h)
<1>20. PICK P : P = Chain(a, b, c, d, e, f, g, h)
  OBVIOUS
<1> DEFINE s2 == a \o b
           s3 == s2 \o c
           s4 == s3 \o d
           s5 == s4 \o e
           s6 == s5 \o f
           s7 == s6 \o g
<1>0. P = s7 \o h
  BY <1>20 DEF Chain
<1> HIDE DEF s2, s3, s4, s5, s6, s7
<1>2. s2 \in Seq(Digit) /\ Len(s2) = Len(a) + Len(b)
  BY Joined DEF s2
<1>3. s3 \in Seq(Digit) /\ Len(s3) = Len(a) + Len(b) + Len(c)
  BY <1>2, Joined DEF s3
<1>4. s4 \in Seq(Digit) /\ Len(s4) = Len(a) + Len(b) + Len(c) + Len(d)
  BY <1>3, Joined DEF s4
<1>5. s5 \in Seq(Digit) /\ Len(s5) = Len(a) + Len(b) + Len(c) + Len(d) + Len(e)
  BY <1>4, Joined DEF s5
<1>6. s6 \in Seq(Digit) /\ Len(s6) = Len(a) + Len(b) + Len(c) + Len(d) + Len(e) + Len(f)
  BY <1>5, Joined DEF s6
<1>7. s7 \in Seq(Digit) /\ Len(s7) = Len(a) + Len(b) + Len(c) + Len(d) + Len(e) + Len(f) + Len(g)
  BY <1>6, Joined DEF s7
<1>8. /\ P \in Seq(Digit)
      /\ Len(P) = Len(a) + Len(b) + Len(c) + Len(d) + Len(e) + Len(f) + Len(g) + Len(h)
  BY <1>0, <1>7, Joined
<1>9. Lay(P, 0, s7 \o h)
  <2>1. Lay(P, 0, P)
    BY <1>8, LayWhole
  <2> QED
    BY <1>0, <2>1
<1>10. Lay(P, 0, s6 \o g) /\ Lay(P, Len(s7), h)
  BY <1>7, <1>8, <1>9, LayStart DEF s7
<1>11. Lay(P, 0, s5 \o f) /\ Lay(P, Len(s6), g)
  BY <1>6, <1>8, <1>10, LayStart DEF s6
<1>12. Lay(P, 0, s4 \o e) /\ Lay(P, Len(s5), f)
  BY <1>5, <1>8, <1>11, LayStart DEF s5
<1>13. Lay(P, 0, s3 \o d) /\ Lay(P, Len(s4), e)
  BY <1>4, <1>8, <1>12, LayStart DEF s4
<1>14. Lay(P, 0, s2 \o c) /\ Lay(P, Len(s3), d)
  BY <1>3, <1>8, <1>13, LayStart DEF s3
<1>15. Lay(P, 0, a \o b) /\ Lay(P, Len(s2), c)
  BY <1>2, <1>8, <1>14, LayStart DEF s2
<1>16. Lay(P, Len(a), b)
  BY <1>8, <1>15, LayStart
<1> QED
  BY <1>2, <1>3, <1>4, <1>5, <1>6, <1>7, <1>8, <1>10, <1>11, <1>12, <1>13, <1>14, <1>15, <1>16, <1>20 DEF Placed

\* The last fields of a payload.
FullField(r) == IF r.fields = "main" THEN <<>> ELSE Hex(5, 2) \o HexWords(<<r.full>>)
CounterFields(r) ==
  IF r.fields # "all" THEN <<>>
  ELSE Hex(0, 2) \o Hex(r.cycles, 2) \o Hex(r.soc, 2) \o Hex(r.soh, 2)

\* The digits of a single word.
LEMMA OneWord ==
  ASSUME NEW w \in Int
  PROVE  /\ HexWords(<<w>>) \in Seq(Digit) /\ Len(HexWords(<<w>>)) = 4
<1> DEFINE ws == <<w>>
<1>1. ws \in Seq(Int) /\ Len(ws) = 1
  OBVIOUS
<1> HIDE DEF ws
<1>2. HexWords(ws) \in Seq(Digit) /\ Len(HexWords(ws)) = 4 * Len(ws)
  <2>1. ws \in Seq(Int)
    BY <1>1
  <2> QED
    BY ONLY <2>1, WordDigits
<1>3. 4 * Len(ws) = 4
  BY <1>1
<1> QED
  BY <1>2, <1>3 DEF ws

\* The field of the full capacity, if it is sent, and where its word stands.
LEMMA FullFieldParts ==
  ASSUME NEW r, ReadingOK(r)
  PROVE  /\ FullField(r) \in Seq(Digit)
         /\ r.fields = "main" => Len(FullField(r)) = 0
         /\ r.fields # "main" =>
              /\ Len(FullField(r)) = 6
              /\ \A P \in Seq(Digit), p \in Nat :
                   Lay(P, p, FullField(r)) => Lay(P, p + 2, HexWords(<<r.full>>))
<1>1. CASE r.fields = "main"
  BY <1>1 DEF FullField
<1>2. CASE r.fields # "main"
  <2> DEFINE s == Hex(5, 2)
             t == HexWords(<<r.full>>)
  <2>1. FullField(r) = s \o t
    BY <1>2 DEF FullField
  <2>2. r.full \in Int
    <3>1. r.full \in Word
      BY DEF ReadingOK
    <3> QED
      BY ONLY <3>1, WordRange
  <2>3. t \in Seq(Digit) /\ Len(t) = 4
    BY <2>2, OneWord
  <2>4. s \in Seq(Digit) /\ Len(s) = 2
    <3>1. 5 \in Int
      OBVIOUS
    <3> QED
      BY ONLY <3>1, HexDigits
  <2> HIDE DEF s, t
  <2>5. s \o t \in Seq(Digit) /\ Len(s \o t) = 6
    <3>1. s \o t \in Seq(Digit) /\ Len(s \o t) = 2 + 4
      BY ONLY <2>3, <2>4, Joined
    <3>2. 2 + 4 = 6
      OBVIOUS
    <3> QED
      BY ONLY <3>1, <3>2
  <2>6. ASSUME NEW P \in Seq(Digit), NEW p \in Nat, Lay(P, p, s \o t) PROVE Lay(P, p + 2, t)
    <3>1. Lay(P, p + Len(s), t)
      BY <2>3, <2>4, <2>6, LayParts
    <3> QED
      BY <2>4, <3>1
  <2> QED
    BY <1>2, <2>1, <2>5, <2>6 DEF t
<1> QED
  BY <1>1, <1>2

\* The counters, if they are sent, and where they stand.
LEMMA CounterFieldsParts ==
  ASSUME NEW r, ReadingOK(r)
  PROVE  /\ CounterFields(r) \in Seq(Digit)
         /\ r.fields # "all" => Len(CounterFields(r)) = 0
         /\ r.fields = "all" =>
              /\ Len(CounterFields(r)) = 8
              /\ \A P \in Seq(Digit), p \in Nat :
                   Lay(P, p, CounterFields(r)) =>
                     /\ Lay(P, p + 2, Hex(r.cycles, 2))
                     /\ Lay(P, p + 4, Hex(r.soc, 2))
                     /\ Lay(P, p + 6, Hex(r.soh, 2))
<1>1. CASE r.fields # "all"
  BY <1>1 DEF CounterFields
<1>2. CASE r.fields = "all"
  <2> DEFINE a == Hex(0, 2)
             b == Hex(r.cycles, 2)
             c == Hex(r.soc, 2)
             d == Hex(r.soh, 2)
             s2 == a \o b
             s3 == s2 \o c
  <2>1. CounterFields(r) = s3 \o d
    BY <1>2 DEF CounterFields
  <2>2. 0 \in Int /\ r.cycles \in Int /\ r.soc \in Int /\ r.soh \in Int
    <3>1. r.cycles \in Byte /\ r.soc \in Byte /\ r.soh \in Byte
      BY DEF ReadingOK
    <3> QED
      BY ONLY <3>1, ByteIsInt
  <2>3. /\ a \in Seq(Digit) /\ Len(a) = 2 /\ b \in Seq(Digit) /\ Len(b) = 2
        /\ c \in Seq(Digit) /\ Len(c) = 2 /\ d \in Seq(Digit) /\ Len(d) = 2
    BY ONLY <2>2, TwoDigits
  <2> HIDE DEF a, b, c, d, s2, s3
  <2>4. s2 \in Seq(Digit) /\ Len(s2) = 4
    <3>1. s2 \in Seq(Digit) /\ Len(s2) = 2 + 2
      <4>1. a \in Seq(Digit) /\ Len(a) = 2 /\ b \in Seq(Digit) /\ Len(b) = 2
        BY <2>3
      <4>2. s2 \in Seq(Digit) /\ Len(s2) = Len(a) + Len(b)
        BY ONLY <4>1, Joined DEF s2
      <4> QED
        BY ONLY <4>1, <4>2
    <3>2. 2 + 2 = 4
      OBVIOUS
    <3> QED
      BY ONLY <3>1, <3>2
  <2>5. s3 \in Seq(Digit) /\ Len(s3) = 6
    <3>1. s3 \in Seq(Digit) /\ Len(s3) = 4 + 2
      BY ONLY <2>3, <2>4, Joined DEF s3
    <3>2. 4 + 2 = 6
      OBVIOUS
    <3> QED
      BY ONLY <3>1, <3>2
  <2>6. s3 \o d \in Seq(Digit) /\ Len(s3 \o d) = 8
    <3>1. s3 \o d \in Seq(Digit) /\ Len(s3 \o d) = 6 + 2
      BY ONLY <2>3, <2>5, Joined
    <3>2. 6 + 2 = 8
      OBVIOUS
    <3> QED
      BY ONLY <3>1, <3>2
  <2>7. ASSUME NEW P \in Seq(Digit), NEW p \in Nat, Lay(P, p, s3 \o d)
        PROVE  Lay(P, p + 2, b) /\ Lay(P, p + 4, c) /\ Lay(P, p + 6, d)
    <3>1. Lay(P, p, s3) /\ Lay(P, p + Len(s3), d)
      BY <2>3, <2>5, <2>7, LayParts
    <3>2. Lay(P, p, s2) /\ Lay(P, p + Len(s2), c)
      BY <2>3, <2>4, <3>1, LayParts DEF s3
    <3>3. Lay(P, p + Len(a), b)
      BY <2>3, <3>2, LayParts DEF s2
    <3> QED
      BY <2>3, <2>4, <2>5, <3>1, <3>2, <3>3
  <2> QED
    BY <1>2, <2>1, <2>6, <2>7 DEF b, c, d
<1> QED
  BY <1>1, <1>2

\* The temperatures and the main values as words of a payload.
TempWords(r) == [i \in DOMAIN r.temps |-> r.temps[i] + TempOffset]
MainWords(r) == <<r.current % 65536, r.volts, r.remain>>

\* The signed words, as the provers want them.
LEMMA SignedWordRange == \A n \in SignedWord : n \in Int /\ -32768 <= n /\ n <= 32767
BY WordRange DEF SignedWord

\* Every word of a reading fits into its field.
LEMMA ReadingWords ==
  ASSUME NEW r, ReadingOK(r)
  PROVE  /\ Len(r.cells) \in Nat /\ Len(r.cells) <= 32
         /\ Len(r.temps) \in Nat /\ Len(r.temps) <= 8
         /\ r.cells \in Seq(Int) /\ \A j \in 1..Len(r.cells) : r.cells[j] \in Word
         /\ TempWords(r) \in Seq(Int) /\ Len(TempWords(r)) = Len(r.temps)
         /\ \A j \in 1..Len(r.temps) :
              TempWords(r)[j] \in Word /\ TempWords(r)[j] = r.temps[j] + TempOffset
         /\ MainWords(r) \in Seq(Int) /\ Len(MainWords(r)) = 3
         /\ MainWords(r)[1] \in Word /\ MainWords(r)[1] = r.current % 65536
         /\ MainWords(r)[2] \in Word /\ MainWords(r)[2] = r.volts
         /\ MainWords(r)[3] \in Word /\ MainWords(r)[3] = r.remain
<1>1. Word \subseteq Int
  BY WordRange
<1>2. /\ r.cells \in Seq(Word) /\ Len(r.cells) <= MaxCells
      /\ r.temps \in Seq(Int) /\ Len(r.temps) <= MaxTemps
      /\ \A i \in DOMAIN r.temps : r.temps[i] + TempOffset \in Word
      /\ r.current \in SignedWord /\ r.volts \in Word /\ r.remain \in Word
  BY DEF ReadingOK
<1>3. /\ Len(r.cells) \in Nat /\ Len(r.cells) <= 32
      /\ Len(r.temps) \in Nat /\ Len(r.temps) <= 8
  BY <1>2 DEF MaxCells, MaxTemps
<1>4. /\ r.cells \in Seq(Int)
      /\ \A j \in 1..Len(r.cells) : r.cells[j] \in Word
  <2>1. r.cells \in Seq(Int)
    BY ONLY <1>1, <1>2, SeqMonotonic
  <2> QED
    BY <1>2, <2>1
<1>5. /\ TempWords(r) \in Seq(Int) /\ Len(TempWords(r)) = Len(r.temps)
      /\ \A j \in 1..Len(r.temps) :
           TempWords(r)[j] \in Word /\ TempWords(r)[j] = r.temps[j] + TempOffset
  <2> DEFINE n == Len(r.temps)
             t == TempWords(r)
  <2>1. n \in Nat /\ DOMAIN r.temps = 1..n
    BY <1>2
  <2>2. t = [i \in 1..n |-> r.temps[i] + TempOffset]
    BY <2>1 DEF TempWords
  <2>3. \A i \in 1..n : r.temps[i] + TempOffset \in Word
    BY <1>2, <2>1
  <2> HIDE DEF n, t
  <2>4. t \in [1..n -> Word] /\ \A j \in 1..n : t[j] \in Word /\ t[j] = r.temps[j] + TempOffset
    BY <2>2, <2>3
  <2>5. t \in Seq(Word) /\ Len(t) = n
    BY ONLY <2>1, <2>4
  <2>6. t \in Seq(Int)
    BY ONLY <1>1, <2>5, SeqMonotonic
  <2> QED
    BY <2>4, <2>5, <2>6 DEF n, t
<1>6. /\ MainWords(r) \in Seq(Int) /\ Len(MainWords(r)) = 3
      /\ MainWords(r)[1] \in Word /\ MainWords(r)[1] = r.current % 65536
      /\ MainWords(r)[2] \in Word /\ MainWords(r)[2] = r.volts
      /\ MainWords(r)[3] \in Word /\ MainWords(r)[3] = r.remain
  <2>1. r.current % 65536 \in Word
    <3>1. r.current \in Int
      BY <1>2, SignedWordRange
    <3>2. PICK c \in Int : c = r.current
      BY <3>1
    <3>3. c % 65536 \in Int /\ 0 <= c % 65536 /\ c % 65536 <= 65535
      BY ONLY c \in Int
    <3>4. c % 65536 \in Word
      BY ONLY <3>3, IsWord
    <3> QED
      BY <3>2, <3>4
  <2>2. PICK c \in Word : c = r.current % 65536
    BY <2>1
  <2>3. PICK v \in Word : v = r.volts
    BY <1>2
  <2>4. PICK w \in Word : w = r.remain
    BY <1>2
  <2>5. c \in Int /\ v \in Int /\ w \in Int
    BY <1>1
  <2>6. MainWords(r) = <<c, v, w>>
    BY <2>2, <2>3, <2>4 DEF MainWords
  <2>7. /\ <<c, v, w>> \in Seq(Int) /\ Len(<<c, v, w>>) = 3
        /\ <<c, v, w>>[1] = c /\ <<c, v, w>>[2] = v /\ <<c, v, w>>[3] = w
    BY ONLY <2>5
  <2> QED
    BY ONLY <2>2, <2>3, <2>4, <2>6, <2>7, c \in Word, v \in Word, w \in Word
<1> QED
  BY <1>3, <1>4, <1>5, <1>6

\* Where the fields of a reading are in its payload.
LaidOut(r, P, K, M) ==
  /\ P \in Seq(Digit) /\ K \in Nat /\ K <= 32 /\ M \in Nat /\ M <= 8
  /\ Len(P) = 18 + 4 * K + 4 * M + Len(FullField(r)) + Len(CounterFields(r))
  /\ Lay(P, 2, Hex(K, 2))
  /\ Lay(P, 4, HexWords(r.cells))
  /\ Lay(P, 4 + 4 * K, Hex(M, 2))
  /\ Lay(P, 6 + 4 * K, HexWords(TempWords(r)))
  /\ Lay(P, 6 + 4 * K + 4 * M, HexWords(MainWords(r)))
  /\ Lay(P, 18 + 4 * K + 4 * M, FullField(r))
  /\ Lay(P, 18 + 4 * K + 4 * M + Len(FullField(r)), CounterFields(r))

\* They are there in the payload of every reading.
LEMMA PayloadLayout ==
  ASSUME NEW r, ReadingOK(r), NEW P, P = Payload(r),
         NEW K, K = Len(r.cells), NEW M, M = Len(r.temps)
  PROVE  LaidOut(r, P, K, M)
<1> DEFINE a == Hex(0, 2)
           b == Hex(K, 2)
           c == HexWords(r.cells)
           d == Hex(M, 2)
           e == HexWords(TempWords(r))
           f == HexWords(MainWords(r))
           g == FullField(r)
           h == CounterFields(r)
<1>1. P = Chain(a, b, c, d, e, f, g, h)
  <2>1. Payload(r) = Chain(a, Hex(Len(r.cells), 2), c, Hex(Len(r.temps), 2), e, f, g, h)
    BY ONLY TRUE DEF Chain, Payload, TempWords, MainWords, FullField, CounterFields
  <2> QED
    BY <2>1
<1>2. K \in Nat /\ K <= 32 /\ M \in Nat /\ M <= 8
  BY ReadingWords
<1>3. r.cells \in Seq(Int) /\ TempWords(r) \in Seq(Int) /\ MainWords(r) \in Seq(Int)
  BY ReadingWords
<1>4. a \in Seq(Digit) /\ Len(a) = 2
  <2>1. 0 \in Int
    OBVIOUS
  <2> QED
    BY ONLY <2>1, HexDigits
<1>5. b \in Seq(Digit) /\ Len(b) = 2 /\ d \in Seq(Digit) /\ Len(d) = 2
  <2>1. K \in Int /\ M \in Int
    BY <1>2
  <2> QED
    BY ONLY <2>1, HexDigits
<1>6. c \in Seq(Digit) /\ Len(c) = 4 * K
  <2>1. c \in Seq(Digit) /\ Len(c) = 4 * Len(r.cells)
    BY ONLY <1>3, WordDigits
  <2> QED
    BY <2>1
<1>7. e \in Seq(Digit) /\ Len(e) = 4 * M
  <2>1. e \in Seq(Digit) /\ Len(e) = 4 * Len(TempWords(r))
    BY ONLY <1>3, WordDigits
  <2>2. Len(TempWords(r)) = M
    BY ReadingWords
  <2> QED
    BY <2>1, <2>2
<1>8. f \in Seq(Digit) /\ Len(f) = 12
  <2>1. f \in Seq(Digit) /\ Len(f) = 4 * Len(MainWords(r))
    BY ONLY <1>3, WordDigits
  <2>2. Len(MainWords(r)) = 3
    BY ReadingWords
  <2>3. 4 * 3 = 12
    OBVIOUS
  <2> QED
    BY ONLY <2>1, <2>2, <2>3
<1>9. g \in Seq(Digit) /\ h \in Seq(Digit)
  BY FullFieldParts, CounterFieldsParts
<1> HIDE DEF a, b, c, d, e, f, g, h
<1>10. /\ P \in Seq(Digit)
       /\ Len(P) = Len(a) + Len(b) + Len(c) + Len(d) + Len(e) + Len(f) + Len(g) + Len(h)
       /\ Lay(P, Len(a), b)
       /\ Lay(P, Len(a) + Len(b), c)
       /\ Lay(P, Len(a) + Len(b) + Len(c), d)
       /\ Lay(P, Len(a) + Len(b) + Len(c) + Len(d), e)
       /\ Lay(P, Len(a) + Len(b) + Len(c) + Len(d) + Len(e), f)
       /\ Lay(P, Len(a) + Len(b) + Len(c) + Len(d) + Len(e) + Len(f), g)
       /\ Lay(P, Len(a) + Len(b) + Len(c) + Len(d) + Len(e) + Len(f) + Len(g), h)
  <2>1. Placed(Chain(a, b, c, d, e, f, g, h), a, b, c, d, e, f, g, h)
    BY ONLY <1>4, <1>5, <1>6, <1>7, <1>8, <1>9, EightParts
  <2>2. Placed(P, a, b, c, d, e, f, g, h)
    BY ONLY <1>1, <2>1
  <2> QED
    BY ONLY <2>2 DEF Placed
<1>11. Len(g) \in Nat /\ Len(h) \in Nat
  BY ONLY <1>9
<1>12. PICK x \in Nat : x = Len(g)
  BY <1>11
<1>13. PICK y \in Nat : y = Len(h)
  BY <1>11
<1>14. /\ Len(P) = 2 + 2 + 4 * K + 2 + 4 * M + 12 + x + y
       /\ Lay(P, 2, b) /\ Lay(P, 2 + 2, c) /\ Lay(P, 2 + 2 + 4 * K, d)
       /\ Lay(P, 2 + 2 + 4 * K + 2, e) /\ Lay(P, 2 + 2 + 4 * K + 2 + 4 * M, f)
       /\ Lay(P, 2 + 2 + 4 * K + 2 + 4 * M + 12, g)
       /\ Lay(P, 2 + 2 + 4 * K + 2 + 4 * M + 12 + x, h)
  BY ONLY <1>4, <1>5, <1>6, <1>7, <1>8, <1>10, <1>12, <1>13
<1>15. /\ 2 + 2 = 4 /\ 2 + 2 + 4 * K = 4 + 4 * K /\ 2 + 2 + 4 * K + 2 = 6 + 4 * K
       /\ 2 + 2 + 4 * K + 2 + 4 * M = 6 + 4 * K + 4 * M
       /\ 2 + 2 + 4 * K + 2 + 4 * M + 12 = 18 + 4 * K + 4 * M
       /\ 2 + 2 + 4 * K + 2 + 4 * M + 12 + x = 18 + 4 * K + 4 * M + x
       /\ 2 + 2 + 4 * K + 2 + 4 * M + 12 + x + y = 18 + 4 * K + 4 * M + x + y
  BY ONLY <1>2, x \in Nat, y \in Nat
<1>16. /\ Len(P) = 18 + 4 * K + 4 * M + x + y
       /\ Lay(P, 2, b) /\ Lay(P, 4, c) /\ Lay(P, 4 + 4 * K, d)
       /\ Lay(P, 6 + 4 * K, e) /\ Lay(P, 6 + 4 * K + 4 * M, f)
       /\ Lay(P, 18 + 4 * K + 4 * M, g)
       /\ Lay(P, 18 + 4 * K + 4 * M + x, h)
  BY ONLY <1>14, <1>15
<1> QED
  BY <1>2, <1>10, <1>12, <1>13, <1>16 DEF b, c, d, e, f, g, h, LaidOut

\* The payload P and its bytes, with the counts, the words and the counters of a
\* reading where the decoder looks for them.
ReadsAs(r, P, info, K, M) ==
  /\ P \in Seq(Digit) /\ Len(P) % 2 = 0 /\ Len(P) <= 4095
  /\ K \in Nat /\ K <= 32 /\ M \in Nat /\ M <= 8
  /\ Len(info) = 9 + 2 * K + 2 * M + (IF r.fields = "main" THEN 0 ELSE 3)
                   + (IF r.fields = "all" THEN 4 ELSE 0)
  /\ info[2] = K /\ info[3 + 2 * K] = M
  /\ \A j \in 1..K : U16(info, 2 * j) = r.cells[j]
  /\ \A j \in 1..M : U16(info, 1 + 2 * K + 2 * j) = r.temps[j] + TempOffset
  /\ U16(info, 3 + 2 * K + 2 * M) = r.current % 65536
  /\ U16(info, 5 + 2 * K + 2 * M) = r.volts
  /\ U16(info, 7 + 2 * K + 2 * M) = r.remain
  /\ r.fields # "main" => U16(info, 10 + 2 * K + 2 * M) = r.full
  /\ r.fields = "all" => /\ info[14 + 2 * K + 2 * M] = r.cycles
                         /\ info[15 + 2 * K + 2 * M] = r.soc
                         /\ info[16 + 2 * K + 2 * M] = r.soh

\* The payload of a reading, field by field.
LEMMA PayloadIsReadHere ==
  ASSUME NEW r, ReadingOK(r), NEW P, P = Payload(r), NEW info, info = Bytes(P),
         NEW K, K = Len(r.cells), NEW M, M = Len(r.temps)
  PROVE  ReadsAs(r, P, info, K, M)
<1> DEFINE g == FullField(r)
           h == CounterFields(r)
<1>1. /\ P \in Seq(Digit) /\ K \in Nat /\ K <= 32 /\ M \in Nat /\ M <= 8
      /\ Len(P) = 18 + 4 * K + 4 * M + Len(g) + Len(h)
      /\ Lay(P, 2, Hex(K, 2)) /\ Lay(P, 4, HexWords(r.cells))
      /\ Lay(P, 4 + 4 * K, Hex(M, 2)) /\ Lay(P, 6 + 4 * K, HexWords(TempWords(r)))
      /\ Lay(P, 6 + 4 * K + 4 * M, HexWords(MainWords(r)))
      /\ Lay(P, 18 + 4 * K + 4 * M, g)
      /\ Lay(P, 18 + 4 * K + 4 * M + Len(g), h)
  <2>1. LaidOut(r, P, K, M)
    BY PayloadLayout
  <2> QED
    BY ONLY <2>1 DEF LaidOut
<1>2. /\ g \in Seq(Digit)
      /\ r.fields = "main" => Len(g) = 0
      /\ r.fields # "main" =>
           /\ Len(g) = 6
           /\ \A Q \in Seq(Digit), p \in Nat :
                Lay(Q, p, g) => Lay(Q, p + 2, HexWords(<<r.full>>))
  BY FullFieldParts
<1>3. /\ h \in Seq(Digit)
      /\ r.fields # "all" => Len(h) = 0
      /\ r.fields = "all" =>
           /\ Len(h) = 8
           /\ \A Q \in Seq(Digit), p \in Nat :
                Lay(Q, p, h) => /\ Lay(Q, p + 2, Hex(r.cycles, 2))
                                /\ Lay(Q, p + 4, Hex(r.soc, 2))
                                /\ Lay(Q, p + 6, Hex(r.soh, 2))
  BY CounterFieldsParts
<1> HIDE DEF g, h
<1>4. /\ Len(P) = 18 + 4 * K + 4 * M + (IF r.fields = "main" THEN 0 ELSE 6)
                    + (IF r.fields = "all" THEN 8 ELSE 0)
      /\ Len(P) % 2 = 0 /\ Len(P) <= 4095
      /\ Len(info) = 9 + 2 * K + 2 * M + (IF r.fields = "main" THEN 0 ELSE 3)
                       + (IF r.fields = "all" THEN 4 ELSE 0)
  <2>1. PICK x \in Nat : x = (IF r.fields = "main" THEN 0 ELSE 3)
    OBVIOUS
  <2>2. PICK y \in Nat : y = (IF r.fields = "all" THEN 4 ELSE 0)
    OBVIOUS
  <2>3. Len(g) = 2 * x /\ Len(h) = 2 * y /\ x <= 3 /\ y <= 4
    BY <1>2, <1>3, <2>1, <2>2
  <2>4. Len(P) = 18 + 4 * K + 4 * M + 2 * x + 2 * y
    BY ONLY <1>1, <2>3
  <2>5. PICK n \in Nat : n = Len(P)
    <3>1. Len(P) \in Nat
      BY ONLY <1>1
    <3> QED
      BY ONLY <3>1
  <2>6. PICK m \in Nat : m = 9 + 2 * K + 2 * M + x + y
    <3>1. 9 + 2 * K + 2 * M + x + y \in Nat
      BY ONLY <1>1, x \in Nat, y \in Nat
    <3> QED
      BY ONLY <3>1
  <2>7. n = 2 * m /\ m <= 200
    BY ONLY <1>1, <2>3, <2>4, <2>5, <2>6, x \in Nat, y \in Nat
  <2>8. n % 2 = 0 /\ n \div 2 = m /\ n <= 4095
    BY ONLY <2>7, n \in Nat, m \in Nat
  <2>9. Len(info) = Len(P) \div 2
    <3>1. Len(P) \div 2 \in Nat
      BY ONLY <2>5, <2>8, n \in Nat, m \in Nat
    <3>2. info = [i \in 1..Len(P) \div 2 |-> ByteAt(P, 2 * i - 1)]
      BY DEF Bytes
    <3> QED
      BY ONLY <3>1, <3>2
  <2>10. 2 * x = (IF r.fields = "main" THEN 0 ELSE 6) /\ 2 * y = (IF r.fields = "all" THEN 8 ELSE 0)
    BY ONLY <2>1, <2>2
  <2> QED
    BY ONLY <2>1, <2>2, <2>4, <2>5, <2>6, <2>8, <2>9, <2>10
<1>5. info[2] = K /\ info[3 + 2 * K] = M
  <2>1. K \in Byte /\ M \in Byte
    BY ONLY <1>1, ByteRange
  <2>2. 2 = 2 * 1 /\ 4 + 4 * K = 2 * (2 + 2 * K) /\ 2 + 2 * K \in Nat
    BY ONLY <1>1
  <2>3. Lay(P, 2 * 1, Hex(K, 2)) /\ Lay(P, 2 * (2 + 2 * K), Hex(M, 2))
    BY ONLY <1>1, <2>2
  <2>4. Bytes(P)[1 + 1] = K
    BY ONLY <1>1, <2>1, <2>3, 1 \in Nat, ByteIsRead
  <2>5. Bytes(P)[(2 + 2 * K) + 1] = M
    BY ONLY <1>1, <2>1, <2>2, <2>3, ByteIsRead
  <2>6. 1 + 1 = 2 /\ (2 + 2 * K) + 1 = 3 + 2 * K
    BY ONLY <1>1
  <2> QED
    BY ONLY <2>4, <2>5, <2>6, info = Bytes(P)
<1>6. /\ r.cells \in Seq(Int) /\ \A j \in 1..Len(r.cells) : r.cells[j] \in Word
      /\ TempWords(r) \in Seq(Int) /\ Len(TempWords(r)) = M
      /\ \A j \in 1..M : TempWords(r)[j] \in Word /\ TempWords(r)[j] = r.temps[j] + TempOffset
      /\ MainWords(r) \in Seq(Int) /\ Len(MainWords(r)) = 3
      /\ MainWords(r)[1] \in Word /\ MainWords(r)[1] = r.current % 65536
      /\ MainWords(r)[2] \in Word /\ MainWords(r)[2] = r.volts
      /\ MainWords(r)[3] \in Word /\ MainWords(r)[3] = r.remain
  BY ONLY ReadingWords, ReadingOK(r), K = Len(r.cells), M = Len(r.temps)
<1>7. ASSUME NEW j \in 1..K PROVE U16(info, 2 * j) = r.cells[j]
  <2>1. WordsAt(P, 2, r.cells)
    <3> DEFINE p == 4
               q == 2
    <3>1. p = 2 * q /\ q \in Nat
      OBVIOUS
    <3> HIDE DEF p, q
    <3>2. P \in Seq(Digit) /\ Lay(P, p, HexWords(r.cells))
      BY ONLY <1>1 DEF p
    <3>3. r.cells \in Seq(Int)
      BY ONLY <1>6
    <3>4. WordsAt(P, q, r.cells)
      BY ONLY <3>1, <3>2, <3>3, WordsAreRead
    <3> QED
      BY ONLY <3>4 DEF q
  <2>2. 2 + 2 * (j - 1) = 2 * j /\ j \in 1..Len(r.cells)
    BY ONLY j \in 1..K, K \in Nat, K = Len(r.cells)
  <2>3. U16(Bytes(P), 2 + 2 * (j - 1)) = r.cells[j]
    BY ONLY <1>6, <2>1, <2>2 DEF WordsAt
  <2> QED
    BY ONLY <2>2, <2>3, info = Bytes(P)
<1>8. ASSUME NEW j \in 1..M PROVE U16(info, 1 + 2 * K + 2 * j) = r.temps[j] + TempOffset
  <2> DEFINE ws == TempWords(r)
             p == 6 + 4 * K
             q == 3 + 2 * K
  <2>1. p = 2 * q /\ q \in Nat /\ q + 2 * (j - 1) = 1 + 2 * K + 2 * j
    BY ONLY <1>1, j \in 1..M
  <2> HIDE DEF ws, p, q
  <2>2. ws \in Seq(Int) /\ j \in 1..Len(ws) /\ ws[j] \in Word /\ ws[j] = r.temps[j] + TempOffset
    BY ONLY <1>6, j \in 1..M DEF ws
  <2>3. Lay(P, p, HexWords(ws))
    BY ONLY <1>1 DEF p, ws
  <2>4. WordsAt(P, q, ws)
    <3>1. P \in Seq(Digit)
      BY ONLY <1>1
    <3>2. p = 2 * q /\ q \in Nat /\ ws \in Seq(Int)
      BY ONLY <2>1, <2>2
    <3> QED
      BY ONLY <2>3, <3>1, <3>2, WordsAreRead
  <2>5. U16(Bytes(P), q + 2 * (j - 1)) = ws[j]
    BY ONLY <2>2, <2>4 DEF WordsAt
  <2> QED
    BY ONLY <2>1, <2>2, <2>5, info = Bytes(P)
<1>9. /\ U16(info, 3 + 2 * K + 2 * M) = r.current % 65536
      /\ U16(info, 5 + 2 * K + 2 * M) = r.volts
      /\ U16(info, 7 + 2 * K + 2 * M) = r.remain
  <2> DEFINE ws == MainWords(r)
             p == 6 + 4 * K + 4 * M
             q == 3 + 2 * K + 2 * M
  <2>1. /\ p = 2 * q /\ q \in Nat
        /\ q + 2 * (1 - 1) = q /\ q + 2 * (2 - 1) = 5 + 2 * K + 2 * M
        /\ q + 2 * (3 - 1) = 7 + 2 * K + 2 * M
    BY ONLY <1>1
  <2>2. /\ ws \in Seq(Int) /\ Len(ws) = 3
        /\ ws[1] \in Word /\ ws[1] = r.current % 65536
        /\ ws[2] \in Word /\ ws[2] = r.volts
        /\ ws[3] \in Word /\ ws[3] = r.remain
    BY ONLY <1>6
  <2>3. Lay(P, p, HexWords(ws))
    BY ONLY <1>1
  <2> HIDE DEF ws, p, q
  <2>4. WordsAt(P, q, ws)
    <3>1. P \in Seq(Digit)
      BY ONLY <1>1
    <3>2. p = 2 * q /\ q \in Nat /\ ws \in Seq(Int)
      BY ONLY <2>1, <2>2
    <3> QED
      BY ONLY <2>3, <3>1, <3>2, WordsAreRead
  <2>5. 1 \in 1..Len(ws) /\ 2 \in 1..Len(ws) /\ 3 \in 1..Len(ws)
    BY ONLY <2>2
  <2>6. /\ U16(Bytes(P), q + 2 * (1 - 1)) = ws[1]
        /\ U16(Bytes(P), q + 2 * (2 - 1)) = ws[2]
        /\ U16(Bytes(P), q + 2 * (3 - 1)) = ws[3]
    BY ONLY <2>2, <2>4, <2>5 DEF WordsAt
  <2>7. /\ U16(info, q) = r.current % 65536
        /\ U16(info, 5 + 2 * K + 2 * M) = r.volts /\ U16(info, 7 + 2 * K + 2 * M) = r.remain
    BY ONLY <2>1, <2>2, <2>6, info = Bytes(P)
  <2> QED
    BY ONLY <2>7 DEF q
<1>10. ASSUME r.fields # "main" PROVE U16(info, 10 + 2 * K + 2 * M) = r.full
  <2> DEFINE ws == <<r.full>>
             o == 18 + 4 * K + 4 * M
             q == 10 + 2 * K + 2 * M
  <2>1. o \in Nat /\ o + 2 = 2 * q /\ q \in Nat /\ q + 2 * (1 - 1) = q
    BY ONLY <1>1
  <2>2. Lay(P, o, g)
    BY ONLY <1>1
  <2> HIDE DEF o, q
  <2>3. Lay(P, o + 2, HexWords(ws))
    BY ONLY <1>1, <1>2, <1>10, <2>1, <2>2
  <2>4. r.full \in Word
    BY DEF ReadingOK
  <2>5. r.full \in Int
    BY ONLY <2>4, WordRange
  <2>6. ws \in Seq(Int) /\ 1 \in 1..Len(ws) /\ ws[1] = r.full
    BY ONLY <2>5
  <2> HIDE DEF ws
  <2>7. WordsAt(P, q, ws)
    <3>1. P \in Seq(Digit)
      BY ONLY <1>1
    <3>2. o + 2 = 2 * q /\ q \in Nat /\ ws \in Seq(Int)
      BY ONLY <2>1, <2>6
    <3> QED
      BY ONLY <2>3, <3>1, <3>2, WordsAreRead
  <2>8. U16(Bytes(P), q + 2 * (1 - 1)) = ws[1]
    <3>1. ws[1] \in Word
      BY ONLY <2>4, <2>6
    <3> QED
      BY ONLY <2>6, <2>7, <3>1 DEF WordsAt
  <2>9. U16(info, q) = r.full
    BY ONLY <2>1, <2>6, <2>8, info = Bytes(P)
  <2> QED
    BY ONLY <2>9 DEF q
<1>11. ASSUME r.fields = "all"
       PROVE  /\ info[14 + 2 * K + 2 * M] = r.cycles /\ info[15 + 2 * K + 2 * M] = r.soc
              /\ info[16 + 2 * K + 2 * M] = r.soh
  <2> DEFINE p == 24 + 4 * K + 4 * M
             q == 13 + 2 * K + 2 * M
  <2>1. /\ p \in Nat /\ 18 + 4 * K + 4 * M + 6 = p /\ q \in Nat
        /\ p + 2 = 2 * q /\ p + 4 = 2 * (q + 1) /\ p + 6 = 2 * (q + 2)
        /\ q + 1 \in Nat /\ q + 2 \in Nat
        /\ q + 1 = 14 + 2 * K + 2 * M /\ (q + 1) + 1 = 15 + 2 * K + 2 * M
        /\ (q + 2) + 1 = 16 + 2 * K + 2 * M
    BY ONLY <1>1
  <2> HIDE DEF p, q
  <2>2. r.cycles \in Byte /\ r.soc \in Byte /\ r.soh \in Byte
    BY DEF ReadingOK
  <2>3. Len(g) = 6
    BY <1>2, <1>11
  <2>4. Lay(P, p, h)
    BY ONLY <1>1, <2>1, <2>3
  <2>5. Lay(P, p + 2, Hex(r.cycles, 2)) /\ Lay(P, p + 4, Hex(r.soc, 2)) /\ Lay(P, p + 6, Hex(r.soh, 2))
    BY ONLY <1>1, <1>3, <1>11, <2>1, <2>4
  <2>6. /\ Lay(P, 2 * q, Hex(r.cycles, 2)) /\ Lay(P, 2 * (q + 1), Hex(r.soc, 2))
        /\ Lay(P, 2 * (q + 2), Hex(r.soh, 2))
    BY ONLY <2>1, <2>5
  <2>7. Bytes(P)[q + 1] = r.cycles
    BY ONLY <1>1, <2>1, <2>2, <2>6, ByteIsRead
  <2>8. Bytes(P)[(q + 1) + 1] = r.soc
    BY ONLY <1>1, <2>1, <2>2, <2>6, ByteIsRead
  <2>9. Bytes(P)[(q + 2) + 1] = r.soh
    BY ONLY <1>1, <2>1, <2>2, <2>6, ByteIsRead
  <2> QED
    BY ONLY <2>1, <2>7, <2>8, <2>9, info = Bytes(P)
<1> QED
  BY ONLY <1>1, <1>4, <1>5, <1>7, <1>8, <1>9, <1>10, <1>11 DEF ReadsAs

\* Every payload reads as the reading that it reports.
LEMMA PayloadIsRead ==
  ASSUME NEW r, ReadingOK(r)
  PROVE  ReadsAs(r, Payload(r), Bytes(Payload(r)), Len(r.cells), Len(r.temps))
BY PayloadIsReadHere

-----------------------------------------------------------------------------
(* What was measured is what is decoded *)

\* The counts and the fields of a reading, where the decoder finds them.
FoundIn(info, r, K, M) ==
  /\ K \in Nat /\ M \in Nat
  /\ ~Truncated(info)
  /\ CellCount(info) = K /\ TempsAt(info) = 2 + 2 * K /\ TempCount(info) = M
  /\ MainAt(info) = 3 + 2 * K + 2 * M /\ FullAt(info) = 9 + 2 * K + 2 * M
  /\ CountersAt(info) = 12 + 2 * K + 2 * M
  /\ HasMain(info)
  /\ HasFull(info) <=> r.fields # "main"
  /\ HasCounters(info) <=> r.fields = "all"

\* They are found in the payload of every reading.
LEMMA FieldsAreFound ==
  ASSUME NEW r, ReadingOK(r), NEW info, info = Bytes(Payload(r)),
         NEW K, K = Len(r.cells), NEW M, M = Len(r.temps)
  PROVE  FoundIn(info, r, K, M)
<1>1. PICK x \in Nat : x = (IF r.fields = "main" THEN 0 ELSE 3)
  OBVIOUS
<1>2. PICK y \in Nat : y = (IF r.fields = "all" THEN 4 ELSE 0)
  OBVIOUS
<1>3. /\ r.fields = "main" => x = 0 /\ y = 0
      /\ r.fields = "full" => x = 3 /\ y = 0
      /\ r.fields = "all" => x = 3 /\ y = 4
  BY ONLY <1>1, <1>2
<1>4. r.fields \in {"main", "full", "all"} /\ (K > 0 \/ M > 0 \/ r.fields # "main")
  <2>1. /\ r.cells \in Seq(Word) /\ r.temps \in Seq(Int)
        /\ r.cells # <<>> \/ r.temps # <<>> \/ r.fields # "main"
        /\ r.fields \in {"main", "full", "all"}
    BY DEF ReadingOK
  <2> QED
    BY ONLY <2>1, K = Len(r.cells), M = Len(r.temps)
<1>5. /\ K \in Nat /\ K <= 32 /\ M \in Nat /\ M <= 8
      /\ Len(info) = 9 + 2 * K + 2 * M + (IF r.fields = "main" THEN 0 ELSE 3)
                       + (IF r.fields = "all" THEN 4 ELSE 0)
      /\ info[2] = K /\ info[3 + 2 * K] = M
  <2>1. ReadsAs(r, Payload(r), info, K, M)
    BY PayloadIsRead
  <2> QED
    BY ONLY <2>1 DEF ReadsAs
<1>6. Len(info) = 9 + 2 * K + 2 * M + x + y
  BY ONLY <1>1, <1>2, <1>5
<1>7. CellCount(info) = K /\ TempsAt(info) = 2 + 2 * K
  <2>1. CellCount(info) = K
    BY ONLY <1>5 DEF CellCount, AtMost, MaxCells
  <2> QED
    BY ONLY <2>1 DEF TempsAt
<1>8. Has(info, TempsAt(info), 1) /\ TempCount(info) = M
  <2>1. Has(info, TempsAt(info), 1)
    BY ONLY <1>5, <1>6, <1>7, x \in Nat, y \in Nat DEF Has
  <2>2. info[TempsAt(info) + 1] = M
    <3>1. TempsAt(info) + 1 = 3 + 2 * K
      BY ONLY <1>5, <1>7
    <3> QED
      BY ONLY <1>5, <3>1
  <2> QED
    BY ONLY <1>5, <2>1, <2>2 DEF TempCount, AtMost, MaxTemps
<1>9. /\ MainAt(info) = 3 + 2 * K + 2 * M /\ FullAt(info) = 9 + 2 * K + 2 * M
      /\ CountersAt(info) = 12 + 2 * K + 2 * M
  <2>1. MainAt(info) = 3 + 2 * K + 2 * M
    BY ONLY <1>5, <1>7, <1>8 DEF MainAt
  <2>2. FullAt(info) = 9 + 2 * K + 2 * M
    BY ONLY <1>5, <2>1 DEF FullAt
  <2> QED
    BY ONLY <1>5, <2>1, <2>2 DEF CountersAt
<1>10. ~Truncated(info)
  BY ONLY <1>3, <1>4, <1>5, <1>6, <1>7, <1>9, x \in Nat, y \in Nat DEF Truncated, Has
<1>11. HasMain(info)
  BY ONLY <1>5, <1>6, <1>9, x \in Nat, y \in Nat DEF HasMain, Has
<1>12. HasFull(info) <=> r.fields # "main"
  <2>1. HasFull(info) <=> Has(info, FullAt(info), 3)
    BY <1>11 DEF HasFull
  <2> QED
    BY ONLY <1>3, <1>4, <1>5, <1>6, <1>9, <2>1, x \in Nat, y \in Nat DEF Has
<1>13. HasCounters(info) <=> r.fields = "all"
  <2>1. HasCounters(info) <=> r.fields # "main" /\ Has(info, CountersAt(info), 4)
    BY <1>12 DEF HasCounters
  <2> QED
    BY ONLY <1>3, <1>4, <1>5, <1>6, <1>9, <2>1, x \in Nat, y \in Nat DEF Has
<1> QED
  BY ONLY <1>5, <1>7, <1>8, <1>9, <1>10, <1>11, <1>12, <1>13 DEF FoundIn

\* A payload is decoded into what the BMS measured, whatever it measured, and is
\* refused exactly if a primary value is out of its limits.
LEMMA PayloadIsDecoded ==
  ASSUME NEW r, ReadingOK(r), NEW info, info = Bytes(Payload(r))
  PROVE  ~Truncated(info) /\ (Implausible(info) <=> ~PlausibleReading(r)) /\ Decoded(info) = Meaning(r)
<1> DEFINE K == Len(r.cells)
           M == Len(r.temps)
<1>1. /\ K \in Nat /\ M \in Nat
      /\ ~Truncated(info)
      /\ CellCount(info) = K /\ TempsAt(info) = 2 + 2 * K /\ TempCount(info) = M
      /\ MainAt(info) = 3 + 2 * K + 2 * M /\ FullAt(info) = 9 + 2 * K + 2 * M
      /\ CountersAt(info) = 12 + 2 * K + 2 * M
      /\ HasMain(info)
      /\ HasFull(info) <=> r.fields # "main"
      /\ HasCounters(info) <=> r.fields = "all"
  <2>1. FoundIn(info, r, K, M)
    BY FieldsAreFound
  <2> HIDE DEF K, M
  <2> QED
    BY ONLY <2>1 DEF FoundIn
<1>2. /\ \A j \in 1..K : U16(info, 2 * j) = r.cells[j]
      /\ \A j \in 1..M : U16(info, 1 + 2 * K + 2 * j) = r.temps[j] + TempOffset
      /\ U16(info, 3 + 2 * K + 2 * M) = r.current % 65536
      /\ U16(info, 5 + 2 * K + 2 * M) = r.volts
      /\ U16(info, 7 + 2 * K + 2 * M) = r.remain
      /\ r.fields # "main" => U16(info, 10 + 2 * K + 2 * M) = r.full
      /\ r.fields = "all" => /\ info[14 + 2 * K + 2 * M] = r.cycles
                             /\ info[15 + 2 * K + 2 * M] = r.soc
                             /\ info[16 + 2 * K + 2 * M] = r.soh
  <2>1. ReadsAs(r, Payload(r), info, K, M)
    BY PayloadIsRead
  <2> HIDE DEF K, M
  <2> QED
    BY ONLY <2>1 DEF ReadsAs
<1>3. /\ r.cells \in Seq(Word) /\ r.temps \in Seq(Int)
      /\ r.current \in SignedWord /\ r.volts \in Word /\ r.remain \in Word /\ r.full \in Word
      /\ r.cycles \in Byte /\ r.soc \in Byte /\ r.soh \in Byte
  BY DEF ReadingOK
<1>4. /\ r.volts \in Int /\ r.remain \in Int /\ r.full \in Int
      /\ r.cycles \in Int /\ r.soc \in Int /\ r.soh \in Int
      /\ r.current \in Int /\ -32768 <= r.current /\ r.current <= 32767
  BY ONLY <1>3, WordRange, SignedWordRange, ByteIsInt
<1> HIDE DEF K, M
<1>5. Cells(info) = r.cells
  <2>1. Cells(info) = [i \in 1..K |-> U16(info, 2 * i)]
    BY ONLY <1>1 DEF Cells
  <2>2. r.cells = [i \in 1..K |-> r.cells[i]]
    BY ONLY <1>3 DEF K
  <2> QED
    BY ONLY <1>2, <2>1, <2>2
<1>6. Temps(info) = Meaning(r).temps
  <2>1. ASSUME NEW j \in 1..M PROVE DeciC(info, j) = r.temps[j]
    <3>1. TempsAt(info) + 2 * j - 1 = 1 + 2 * K + 2 * j
      BY ONLY <1>1, j \in 1..M
    <3>2. r.temps[j] \in Int
      BY ONLY <1>3, j \in 1..M DEF M
    <3>3. U16(info, TempsAt(info) + 2 * j - 1) = r.temps[j] + TempOffset
      BY ONLY <1>2, <3>1, j \in 1..M
    <3> QED
      BY ONLY <3>2, <3>3 DEF DeciC, TempOffset
  <2>2. DOMAIN r.temps = 1..M
    BY ONLY <1>3 DEF M
  <2>3. Temps(info) = [i \in {j \in 1..M : DeciC(info, j) \in DeciCMin..DeciCMax} |-> DeciC(info, i)]
    BY ONLY <1>1 DEF Temps
  <2>4. Meaning(r).temps = [i \in {j \in 1..M : r.temps[j] \in DeciCMin..DeciCMax} |-> r.temps[i]]
    BY ONLY <2>2 DEF Meaning
  <2>5. {j \in 1..M : DeciC(info, j) \in DeciCMin..DeciCMax}
          = {j \in 1..M : r.temps[j] \in DeciCMin..DeciCMax}
    BY ONLY <2>1
  <2> QED
    BY ONLY <2>1, <2>3, <2>4, <2>5
<1>7. /\ PackMA(info) = 10 * r.current /\ PackMV(info) = 10 * r.volts
      /\ RemainMAH(info) = 10 * r.remain
  <2>1. MainAt(info) + 2 = 5 + 2 * K + 2 * M /\ MainAt(info) + 4 = 7 + 2 * K + 2 * M
    BY ONLY <1>1
  <2>2. PackMA(info) = 10 * Signed(r.current % 65536)
    BY ONLY <1>1, <1>2 DEF PackMA
  <2>3. Signed(r.current % 65536) = r.current
    BY ONLY <1>4, SignedUndoesComplement
  <2>4. PackMA(info) = 10 * r.current
    BY ONLY <2>2, <2>3
  <2> QED
    BY ONLY <1>1, <1>2, <2>1, <2>4 DEF PackMV, RemainMAH
<1>8. FullMAH(info) = Meaning(r).full
  <2>1. FullAt(info) + 1 = 10 + 2 * K + 2 * M
    BY ONLY <1>1
  <2>2. r.fields # "main" => U16(info, FullAt(info) + 1) = r.full
    BY ONLY <1>2, <2>1
  <2>3. Meaning(r).full = IF r.fields = "main" THEN 0 ELSE 10 * r.full
    BY DEF Meaning
  <2> QED
    BY ONLY <1>1, <2>2, <2>3 DEF FullMAH
<1>9. /\ Counter(info, 1) = IF r.fields = "all" THEN r.cycles ELSE 0
      /\ Counter(info, 2) = IF r.fields = "all" THEN r.soc ELSE 0
      /\ Counter(info, 3) = IF r.fields = "all" THEN r.soh ELSE 0
  <2>1. /\ CountersAt(info) + 1 + 1 = 14 + 2 * K + 2 * M
        /\ CountersAt(info) + 1 + 2 = 15 + 2 * K + 2 * M
        /\ CountersAt(info) + 1 + 3 = 16 + 2 * K + 2 * M
    BY ONLY <1>1
  <2>2. r.fields = "all" => /\ info[CountersAt(info) + 1 + 1] = r.cycles
                            /\ info[CountersAt(info) + 1 + 2] = r.soc
                            /\ info[CountersAt(info) + 1 + 3] = r.soh
    BY ONLY <1>2, <2>1
  <2> QED
    BY ONLY <1>1, <2>2 DEF Counter
<1>10. /\ Nulled(PackMA(info), -CurrentMAMax, CurrentMAMax) = Meaning(r).ma
       /\ Nulled(Counter(info, 2), 0, 100) = Meaning(r).soc
       /\ Nulled(Counter(info, 3), 0, 100) = Meaning(r).soh
  <2>1. Nulled(PackMA(info), -CurrentMAMax, CurrentMAMax)
          = IF 10 * r.current \in -CurrentMAMax..CurrentMAMax THEN 10 * r.current ELSE 0
    <3>1. PICK v \in Int : v = 10 * r.current
      BY ONLY <1>4
    <3>2. PICK m \in Int : m = CurrentMAMax
      BY ONLY TRUE DEF CurrentMAMax
    <3>3. Nulled(v, -m, m) = IF v \in -m..m THEN v ELSE 0
      BY ONLY v \in Int, m \in Int DEF Nulled
    <3> QED
      BY ONLY <1>7, <3>1, <3>2, <3>3
  <2>2. Nulled(Counter(info, 2), 0, 100)
          = IF r.fields = "all" /\ r.soc \in 0..100 THEN r.soc ELSE 0
    BY ONLY <1>4, <1>9 DEF Nulled
  <2>3. Nulled(Counter(info, 3), 0, 100)
          = IF r.fields = "all" /\ r.soh \in 0..100 THEN r.soh ELSE 0
    BY ONLY <1>4, <1>9 DEF Nulled
  <2> QED
    BY ONLY <2>1, <2>2, <2>3 DEF Meaning
<1>11. Decoded(info) = Meaning(r)
  <2>1. /\ Meaning(r).cells = r.cells /\ Meaning(r).mv = 10 * r.volts
        /\ Meaning(r).remain = 10 * r.remain
        /\ Meaning(r).cycles = IF r.fields = "all" THEN r.cycles ELSE 0
    BY ONLY TRUE DEF Meaning
  <2>2. Meaning(r) =
          [cells |-> Meaning(r).cells, temps |-> Meaning(r).temps, ma |-> Meaning(r).ma,
           mv |-> Meaning(r).mv, remain |-> Meaning(r).remain, full |-> Meaning(r).full,
           cycles |-> Meaning(r).cycles, soc |-> Meaning(r).soc, soh |-> Meaning(r).soh]
    BY ONLY TRUE DEF Meaning
  <2>3. Decoded(info) =
          [cells |-> Meaning(r).cells, temps |-> Meaning(r).temps, ma |-> Meaning(r).ma,
           mv |-> Meaning(r).mv, remain |-> Meaning(r).remain, full |-> Meaning(r).full,
           cycles |-> Meaning(r).cycles, soc |-> Meaning(r).soc, soh |-> Meaning(r).soh]
    BY ONLY <1>5, <1>6, <1>7, <1>8, <1>9, <1>10, <2>1 DEF Decoded
  <2> QED
    BY ONLY <2>2, <2>3
<1>12. Implausible(info) <=> ~PlausibleReading(r)
  <2>1. DOMAIN r.cells = 1..K
    BY ONLY <1>3 DEF K
  <2> QED
    BY ONLY <1>1, <1>5, <1>7, <2>1, Zenon DEF Implausible, PlausibleReading
<1> QED
  BY ONLY <1>1, <1>11, <1>12

\* What stands between header and checksum of a reply.
InfoOf(r, rtn) == IF rtn = RTNOk THEN Payload(r) ELSE <<>>

\* It fits into a frame.
LEMMA RepliesFit ==
  ASSUME NEW r, ReadingOK(r), NEW rtn
  PROVE  /\ InfoOf(r, rtn) \in Seq(Digit) /\ Len(InfoOf(r, rtn)) <= 4095
         /\ Len(InfoOf(r, rtn)) % 2 = 0
         /\ rtn # RTNOk => Len(InfoOf(r, rtn)) = 0
<1>1. CASE rtn = RTNOk
  <2>1. InfoOf(r, rtn) = Payload(r)
    BY <1>1 DEF InfoOf
  <2>2. ReadsAs(r, Payload(r), Bytes(Payload(r)), Len(r.cells), Len(r.temps))
    BY PayloadIsRead
  <2>3. /\ Payload(r) \in Seq(Digit) /\ Len(Payload(r)) <= 4095
        /\ Len(Payload(r)) % 2 = 0
    BY ONLY <2>2 DEF ReadsAs
  <2> QED
    BY ONLY <1>1, <2>1, <2>3
<1>2. CASE rtn # RTNOk
  <2>1. InfoOf(r, rtn) = <<>>
    BY <1>2 DEF InfoOf
  <2>2. <<>> \in Seq(Digit) /\ Len(<<>>) = 0 /\ 0 <= 4095 /\ 0 % 2 = 0
    OBVIOUS
  <2> QED
    BY ONLY <2>1, <2>2
<1> QED
  BY <1>1, <1>2

\* What the parsers make of an undamaged reply, for every address, return code and
\* reading: an error of the BMS if it reports one, else the measured values, or
\* an error if a primary value among them is out of its limits.
THEOREM WhatIsMeasuredIsDecoded ==
  ASSUME NEW r, ReadingOK(r), NEW addr \in Int, NEW rtn \in Byte,
         NEW f, f = ParseFrame(ReplyTo(addr, rtn, r))
  PROVE  /\ rtn # RTNOk => f.err = "bms"
         /\ rtn = RTNOk =>
              /\ f.err = "none" /\ f.checksumOK
              /\ PlausibleReading(r) => /\ ParseAnalog(f.info).err = "none"
                                        /\ ParseAnalog(f.info).sample = Meaning(r)
              /\ ~PlausibleReading(r) => ParseAnalog(f.info).err = "implausible"
<1>1. PICK P : P = InfoOf(r, rtn)
  OBVIOUS
<1>2. P \in Seq(Digit) /\ Len(P) <= 4095 /\ Len(P) % 2 = 0
  BY ONLY <1>1, ReadingOK(r), RepliesFit
<1>3. PICK a \in Byte : a = addr % 256
  <2>1. addr % 256 \in 0..255
    BY ONLY addr \in Int
  <2> QED
    BY ONLY <2>1, ByteRange
<1>4. PICK d : d = Frame(a, rtn, P)
  OBVIOUS
<1>5. f = ParseFrame(d)
  BY <1>1, <1>3, <1>4 DEF ReplyTo, InfoOf
<1>6. /\ rtn # RTNOk => f.err = "bms"
      /\ rtn = RTNOk => f.err = "none" /\ f.checksumOK /\ f.info = Bytes(P)
  BY ONLY <1>2, <1>4, <1>5, a \in Byte, rtn \in Byte, FrameIsParsed
<1>7. ASSUME rtn = RTNOk
      PROVE  /\ PlausibleReading(r) => /\ ParseAnalog(f.info).err = "none"
                                       /\ ParseAnalog(f.info).sample = Meaning(r)
             /\ ~PlausibleReading(r) => ParseAnalog(f.info).err = "implausible"
  <2>1. f.info = Bytes(Payload(r))
    BY <1>1, <1>6, <1>7 DEF InfoOf
  <2>2. PICK info : info = f.info
    OBVIOUS
  <2>3. /\ ~Truncated(info) /\ (Implausible(info) <=> ~PlausibleReading(r))
        /\ Decoded(info) = Meaning(r)
    BY ONLY <2>1, <2>2, ReadingOK(r), PayloadIsDecoded
  <2> QED
    BY ONLY <2>2, <2>3 DEF ParseAnalog
<1> QED
  BY ONLY <1>6, <1>7

-----------------------------------------------------------------------------
(* What becomes of a reply on the line *)

\* What the parsers f and a make of the reply rec, when sent is the reply that the
\* BMS gave on the reading r with the return code rtn.
Understood(r, rtn, sent, rec, f, a) ==
  /\ f.err \in {"none", "framing", "bms"} /\ a.err \in {"none", "framing", "implausible"}
  /\ rec = sent /\ rtn # RTNOk => f.err = "bms"
  /\ rec = sent /\ rtn = RTNOk =>
       /\ f.err = "none"
       /\ PlausibleReading(r) => a.err = "none" /\ a.sample = Meaning(r)
       /\ ~PlausibleReading(r) => a.err = "implausible"
  /\ a.err = "none" => a.sample # NoSample

\* Whatever happens to one of its characters, a reply is understood like that.
LEMMA RepliesAreUnderstood ==
  ASSUME NEW r \in Readings, NEW rtn \in Rtns, NEW addr \in Int,
         NEW sent, sent = ReplyTo(addr, rtn, r), NEW rec,
         NEW f, f = ParseFrame(rec), NEW a, a = ParseAnalog(f.info)
  PROVE  Understood(r, rtn, sent, rec, f, a)
<1>1. f.err \in {"none", "framing", "bms"}
  BY DEF ParseFrame, BadFrame
<1>2. a.err \in {"none", "framing", "implausible"}
  BY DEF ParseAnalog
<1>3. ReadingOK(r) /\ rtn \in Byte
  BY ReadingsAssumption, RtnsAssumption
<1>4. ASSUME rec = sent
      PROVE  /\ rtn # RTNOk => f.err = "bms"
             /\ rtn = RTNOk =>
                  /\ f.err = "none"
                  /\ PlausibleReading(r) => a.err = "none" /\ a.sample = Meaning(r)
                  /\ ~PlausibleReading(r) => a.err = "implausible"
  <2>1. f = ParseFrame(ReplyTo(addr, rtn, r))
    BY <1>4
  <2>2. /\ rtn # RTNOk => f.err = "bms"
        /\ rtn = RTNOk =>
             /\ f.err = "none"
             /\ PlausibleReading(r) => /\ ParseAnalog(f.info).err = "none"
                                       /\ ParseAnalog(f.info).sample = Meaning(r)
             /\ ~PlausibleReading(r) => ParseAnalog(f.info).err = "implausible"
    BY ONLY <1>3, <2>1, addr \in Int, WhatIsMeasuredIsDecoded
  <2> QED
    BY ONLY <2>2, a = ParseAnalog(f.info)
<1>5. a.err = "none" => a.sample # NoSample
  <2> SUFFICES ASSUME a.err = "none" PROVE a.sample # NoSample
    OBVIOUS
  <2>1. PICK info : info = f.info
    OBVIOUS
  <2>2. a.sample = Decoded(info) /\ ~Implausible(info)
    BY <2>1 DEF ParseAnalog
  <2>3. PackMV(info) \in PackMVMin..PackMVMax
    BY ONLY <2>2, Zenon DEF Implausible
  <2>4. PackMV(info) # 0
    <3>1. PackMVMin \in Int /\ PackMVMax \in Int /\ 0 < PackMVMin
      BY ONLY TRUE DEF PackMVMin, PackMVMax
    <3> QED
      BY ONLY <2>3, <3>1
  <2>5. Decoded(info).mv = PackMV(info) /\ NoSample.mv = 0
    BY ONLY TRUE DEF Decoded, NoSample
  <2> QED
    BY ONLY <2>2, <2>4, <2>5
<1> QED
  BY <1>1, <1>2, <1>4, <1>5, Zenon DEF Understood

\* A reply that lost a character does not have the length that it states.
LEMMA LossIsNoticed ==
  ASSUME NEW sent \in Seq(Digit), Len(sent) = 16 + InfoHexLen(sent), InfoHexLen(sent) \in Nat,
         NEW i \in 1..Len(sent), NEW rec, rec = Received(sent, Loss(i)),
         InfoHexLen(rec) = InfoHexLen(sent)
  PROVE  ParseFrame(rec).err = "framing"
<1> DEFINE n == Len(sent)
<1>1. n \in Nat /\ i \in 1..n
  OBVIOUS
<1>2. rec = SubSeq(sent, 1, i - 1) \o SubSeq(sent, i + 1, n)
  BY DEF Received, Loss
<1> HIDE DEF n
<1>3. /\ SubSeq(sent, 1, i - 1) \in Seq(Digit) /\ Len(SubSeq(sent, 1, i - 1)) = i - 1
      /\ SubSeq(sent, i + 1, n) \in Seq(Digit) /\ Len(SubSeq(sent, i + 1, n)) = n - i
  <2>1. 1..n = DOMAIN sent /\ n = Len(sent)
    BY DEF n
  <2>2. \A j \in 1..n : sent[j] \in Digit
    BY ONLY <2>1, sent \in Seq(Digit)
  <2>3. i - 1 \in Nat /\ n - i \in Nat /\ i - 1 <= n /\ i + 1 \in 1..n + 1
    BY ONLY <1>1
  <2> QED
    BY ONLY <1>1, <2>1, <2>2, <2>3, sent \in Seq(Digit)
<1>4. Len(rec) = n - 1
  <2>1. Len(rec) = (i - 1) + (n - i)
    BY ONLY <1>2, <1>3, ConcatProperties
  <2> QED
    BY ONLY <1>1, <2>1
<1>5. PICK m \in Nat : m = InfoHexLen(sent)
  OBVIOUS
<1>6. n = 16 + m /\ InfoHexLen(rec) = m
  BY <1>5 DEF n
<1>7. Len(rec) < 12 + InfoHexLen(rec) + 4
  BY ONLY <1>4, <1>6, m \in Nat
<1>8. Malformed(rec)
  BY ONLY <1>7 DEF Malformed
<1> QED
  BY ONLY <1>8 DEF ParseFrame, BadFrame

\* Of a damaged reply the length of which stayed the same, either the parsers
\* complain or the checksum does.
LEMMA DamageIsLogged ==
  ASSUME NEW r \in Readings, NEW rtn \in Rtns, NEW addr \in Int,
         NEW sent, sent = ReplyTo(addr, rtn, r),
         NEW damage \in OneCharacter(Len(sent)), NEW rec, rec = Received(sent, damage),
         rec # sent, InfoHexLen(rec) = InfoHexLen(sent),
         NEW f, f = ParseFrame(rec), f.err = "none", ParseAnalog(f.info).err = "none"
  PROVE  ~f.checksumOK
<1>1. PICK P : P = InfoOf(r, rtn)
  OBVIOUS
<1>2. ReadingOK(r) /\ rtn \in Byte
  BY ReadingsAssumption, RtnsAssumption
<1>3. P \in Seq(Digit) /\ Len(P) <= 4095 /\ Len(P) % 2 = 0 /\ (rtn # RTNOk => Len(P) = 0)
  BY ONLY <1>1, <1>2, RepliesFit
<1>4. PICK b \in Byte : b = addr % 256
  <2>1. addr % 256 \in 0..255
    BY ONLY addr \in Int
  <2> QED
    BY ONLY <2>1, ByteRange
<1>5. sent = Frame(b, rtn, P)
  BY <1>1, <1>4 DEF ReplyTo, InfoOf
<1>6. /\ sent \in Seq(Digit) /\ Len(sent) = 16 + Len(P) /\ InfoHexLen(sent) = Len(P)
      /\ rtn = RTNOk => ParseFrame(sent).err = "none" /\ ParseFrame(sent).checksumOK
  BY ONLY <1>2, <1>3, <1>5, b \in Byte, FrameIsParsed
<1>7. PICK n \in Nat : n = Len(P)
  BY ONLY <1>3
<1>8. InfoHexLen(sent) = n /\ InfoHexLen(rec) = n /\ Len(sent) = 16 + n
  BY ONLY <1>6, <1>7, InfoHexLen(rec) = InfoHexLen(sent)
<1>9. n # 0
  <2> SUFFICES ASSUME n = 0 PROVE FALSE
    OBVIOUS
  <2>1. f.info = [i \in 1..InfoHexLen(rec) \div 2 |-> ByteAt(rec, 12 + 2 * i - 1)]
    BY DEF ParseFrame, BadFrame
  <2>2. InfoHexLen(rec) \div 2 = 0
    BY ONLY <1>8, n = 0
  <2>3. Len(f.info) = 0
    BY ONLY <2>1, <2>2
  <2>4. Truncated(f.info)
    BY ONLY <2>3 DEF Truncated
  <2> QED
    BY <2>4 DEF ParseAnalog
<1>10. rtn = RTNOk
  BY ONLY <1>3, <1>7, <1>9
<1>11. ASSUME NEW i \in 1..Len(sent), damage = Loss(i) PROVE FALSE
  <2>1. ParseFrame(rec).err = "framing"
    <3>1. rec = Received(sent, Loss(i))
      BY <1>11
    <3>2. Len(sent) = 16 + InfoHexLen(sent) /\ InfoHexLen(sent) \in Nat
      BY ONLY <1>8, n \in Nat
    <3> QED
      BY ONLY <1>6, <3>1, <3>2, i \in 1..Len(sent), InfoHexLen(rec) = InfoHexLen(sent), LossIsNoticed
  <2> QED
    BY <2>1
<1>12. ASSUME NEW i \in 1..Len(sent), NEW d \in Digit, damage = Change(i, d) PROVE ~f.checksumOK
  <2>1. rec = [sent EXCEPT ![i] = d]
    BY <1>12 DEF Received, Change
  <2>2. d # sent[i]
    <3> SUFFICES ASSUME d = sent[i] PROVE rec = sent
      OBVIOUS
    <3> QED
      BY ONLY <1>6, <2>1, d = sent[i], i \in 1..Len(sent)
  <2>3. i \in 1..16 + n
    BY ONLY <1>8, i \in 1..Len(sent)
  <2>4. i \notin 10..12
    <3> SUFFICES ASSUME i \in 10..12 PROVE FALSE
      OBVIOUS
    <3>1. \A j \in 1..16 + n : rec[j] = IF j = i THEN d ELSE sent[j]
      BY ONLY <1>6, <1>8, <2>1, <2>3
    <3>2. 10 \in 1..16 + n /\ 11 \in 1..16 + n /\ 12 \in 1..16 + n
      BY ONLY n \in Nat
    <3>3. sent[10] \in Int /\ sent[11] \in Int /\ sent[12] \in Int /\ d \in Int
      <4>1. \A j \in 1..Len(sent) : sent[j] \in Digit
        BY ONLY <1>6
      <4>2. sent[10] \in Digit /\ sent[11] \in Digit /\ sent[12] \in Digit
        BY ONLY <1>8, <3>2, <4>1
      <4> QED
        BY ONLY <4>2, d \in Digit, DigitIsInt
    <3>4. 256 * rec[10] + 16 * rec[11] + rec[12] = 256 * sent[10] + 16 * sent[11] + sent[12]
      BY ONLY InfoHexLen(rec) = InfoHexLen(sent) DEF InfoHexLen
    <3>5. PICK x \in Int : x = sent[10]
      BY ONLY <3>3
    <3>6. PICK y \in Int : y = sent[11]
      BY ONLY <3>3
    <3>7. PICK z \in Int : z = sent[12]
      BY ONLY <3>3
    <3>8. /\ rec[10] = (IF 10 = i THEN d ELSE x) /\ rec[11] = (IF 11 = i THEN d ELSE y)
          /\ rec[12] = (IF 12 = i THEN d ELSE z)
      BY ONLY <3>1, <3>2, <3>5, <3>6, <3>7
    <3>9. 256 * (IF 10 = i THEN d ELSE x) + 16 * (IF 11 = i THEN d ELSE y)
            + (IF 12 = i THEN d ELSE z) = 256 * x + 16 * y + z
      BY ONLY <3>4, <3>5, <3>6, <3>7, <3>8
    <3>10. CASE i = 10
      <4>1. 256 * d + 16 * y + z = 256 * x + 16 * y + z
        BY ONLY <3>9, <3>10
      <4>2. d = x
        BY ONLY <3>3, <4>1, x \in Int, y \in Int, z \in Int
      <4> QED
        BY ONLY <2>2, <3>5, <3>10, <4>2
    <3>11. CASE i = 11
      <4>1. 256 * x + 16 * d + z = 256 * x + 16 * y + z
        BY ONLY <3>9, <3>11
      <4>2. d = y
        BY ONLY <3>3, <4>1, x \in Int, y \in Int, z \in Int
      <4> QED
        BY ONLY <2>2, <3>6, <3>11, <4>2
    <3>12. CASE i = 12
      <4>1. 256 * x + 16 * y + d = 256 * x + 16 * y + z
        BY ONLY <3>9, <3>12
      <4>2. d = z
        BY ONLY <3>3, <4>1, x \in Int, y \in Int, z \in Int
      <4> QED
        BY ONLY <2>2, <3>7, <3>12, <4>2
    <3> QED
      BY ONLY <3>10, <3>11, <3>12, i \in 10..12
  <2>5. i \in 1..16 + InfoHexLen(sent)
    BY ONLY <1>8, <2>3
  <2>6. ParseFrame(rec).err # "none" \/ ~ParseFrame(rec).checksumOK
    BY ONLY <1>6, <1>10, <2>1, <2>2, <2>4, <2>5, d \in Digit, DamageIsNoticed
  <2> QED
    BY ONLY <2>6, f = ParseFrame(rec), f.err = "none", Zenon
<1>13. damage # Intact
  BY DEF Received, Intact
<1> QED
  BY <1>11, <1>12, <1>13 DEF OneCharacter

-----------------------------------------------------------------------------
(* The process *)

Steps == {"main", "poll", "serve", "format", "open", "read", "report", "print",
          "load", "validate", "store", "web", "prune", "serial", "loop", "serving", "exit"}
\* Where the database is open, and where a port may be.
StoreSteps == {"web", "prune", "serial", "loop", "serving"}
PortSteps == {"read", "report", "print", "loop", "serving"}
\* Where the startup prune is still to come, or never will.
Unpruned == Steps \ {"serial", "loop", "serving", "exit"}
Errors == {"none", "timeout", "serial", "framing", "bms", "implausible"}

WellTyped(c) == DOMAIN c = Keys /\ \A k \in Keys : c[k] \in ValueOf(k)

Types ==
  /\ pc \in Steps /\ inv \in Invocations
  /\ FileOK(file) /\ WellTyped(cfg)
  /\ attempt \in 0..Attempts
  /\ pc \in {"read", "print"} => attempt \in 1..Attempts
  /\ err \in Errors /\ code \in -1..6
  /\ cutoffs \subseteq Int

\* Boolean-valued variables, which the provers treat apart.
Flags ==
  /\ storeOpen \in BOOLEAN /\ portOpen \in BOOLEAN
  /\ warned \in BOOLEAN /\ printed \in BOOLEAN

Panicked == pc = "exit" /\ code = ExitPanic /\ FlushOverflows

Trusted == Valid(cfg) /\ \A k \in Keys : cfg[k] = SaidBy(k)

ConfigInv ==
  /\ storeOpen => pc \in StoreSteps \/ Panicked
  /\ portOpen => pc \in PortSteps \/ Panicked
  /\ pc = "validate" => cfg = Loaded(file, inv.flags)
  /\ pc \in StoreSteps \cup {"store"} \/ storeOpen => Trusted
  /\ pc \in Unpruned => cutoffs = {}
  /\ CutoffIsPastOrOverflowed

\* The exit code c fits what the last read met, l.
CodeOf(l) ==
  IF l.damaged THEN {ExitFraming, ExitBMS, ExitImplausible}
  ELSE IF l.rtn # RTNOk THEN {ExitBMS}
  ELSE IF ~PlausibleReading(l.reading) THEN {ExitImplausible}
  ELSE {}

FailureTells(l, c) ==
  \/ l.kind = "silence" /\ c = ExitTimeout
  \/ l.kind = "port" /\ c = ExitGeneric
  \/ l.kind = "answer" /\ c \in CodeOf(l)

\* The sample s fits it, if a mismatch was logged or not, w.
SampleTells(l, s, w) ==
  /\ l.kind = "answer" /\ s # NoSample
  /\ IF l.damaged THEN l.sameLength => w ELSE s = Meaning(l.reading)

ReadInv ==
  /\ attempt > 0 => pc \in {"read", "report", "print", "exit"}
  /\ printed => pc = "exit" /\ attempt > 0
  /\ pc = "report" => FailureTells(last, ExitCode(err))
  /\ pc = "print" => SampleTells(last, sample, warned)
  /\ pc = "exit" /\ attempt > 0 =>
       \/ FailureTells(last, code) /\ ~printed
       \/ SampleTells(last, sample, warned) /\ (printed => code = ExitOK)

IInv == Types /\ Flags /\ ConfigInv /\ ReadInv

-----------------------------------------------------------------------------
(* The configuration *)

\* The defaults are a configuration.
LEMMA DefaultsAreWellTyped == WellTyped(Defaults)
<1>1. DOMAIN Defaults = Keys
  BY DEF Defaults
<1>2. ASSUME NEW k \in TextKeys PROVE Defaults[k] \in ValueOf(k)
  <2>1. /\ Defaults["port"] = "/dev/ttyUSB0" /\ Defaults["listen"] = ":8080"
        /\ Defaults["path"] = "/var/lib/bms-monitor/samples.db" /\ Defaults["level"] = "info"
    BY DEF Defaults, Keys, TextKeys
  <2>2. {"/dev/ttyUSB0", ":8080", "/var/lib/bms-monitor/samples.db", "info"} \subseteq Text
    BY DEF Text, Levels, Addresses
  <2>3. k \in {"port", "path", "listen", "level"}
    BY DEF TextKeys
  <2> QED
    BY <2>1, <2>2, <2>3 DEF ValueOf
<1>3. ASSUME NEW k \in IntKeys PROVE Defaults[k] \in ValueOf(k)
  <2>1. k \notin TextKeys /\ k \in Keys
    BY DEF IntKeys, TextKeys, Keys
  <2>2. Defaults[k] \in Int
    BY <2>1 DEF Defaults, IntKeys
  <2> QED
    BY <2>1, <2>2 DEF ValueOf
<1> QED
  BY <1>1, <1>2, <1>3 DEF WellTyped, Keys

\* Merging a document and flags keeps every key at a value of its kind.
LEMMA LoadedIsWellTyped ==
  ASSUME NEW f, FileOK(f), NEW flags, Given(flags, FlagKeys)
  PROVE  WellTyped(Loaded(f, flags))
<1> DEFINE base == Decode(f.doc, Defaults)
<1>1. WellTyped(Defaults)
  BY DefaultsAreWellTyped
<1>2. WellTyped(base)
  BY <1>1, Zenon DEF Decode, WellTyped, FileOK, Given
<1> HIDE DEF base
<1>3. WellTyped(ApplyOverrides(base, flags))
  BY <1>2, Zenon DEF ApplyOverrides, WellTyped, Given, IsSet
<1> QED
  BY <1>3 DEF Loaded, base

\* --debug changes the level only, and keeps the configuration well typed.
LEMMA ForcedDebugIsWellTyped ==
  ASSUME NEW c, WellTyped(c)
  PROVE  /\ WellTyped(ForcedDebug(c))
         /\ \A k \in Keys : ForcedDebug(c)[k] = IF k = "level" THEN "debug" ELSE c[k]
<1>1. "level" \in Keys /\ "debug" \in ValueOf("level")
  BY DEF Keys, TextKeys, ValueOf, Text, Levels
<1>2. ForcedDebug(c) = [k \in Keys |-> IF k = "level" THEN "debug" ELSE c[k]]
  BY DEF ForcedDebug, WellTyped
<1> QED
  BY <1>1, <1>2 DEF WellTyped

\* The merged configuration has, for each key, the value of the flag if that says
\* something, of the document if it has the key, and else the default.
LEMMA LastWord ==
  ASSUME NEW f, NEW flags, NEW k \in Keys
  PROVE  Loaded(f, flags)[k] =
           IF k \in FlagKeys /\ IsSet(flags, k) THEN flags[k]
           ELSE IF k \in DOMAIN f.doc THEN f.doc[k] ELSE Defaults[k]
BY DEF Loaded, ApplyOverrides, Decode

\* The numbers of a well-typed configuration.
LEMMA NumbersAreInts ==
  ASSUME WellTyped(cfg)
  PROVE  cfg["flush_interval_seconds"] \in Int /\ cfg["retention_days"] \in Int
<1>1. \A k \in IntKeys : k \in Keys /\ k \notin TextKeys
  BY DEF Keys, IntKeys, TextKeys
<1>2. \A k \in IntKeys : cfg[k] \in Int
  BY <1>1 DEF WellTyped, ValueOf
<1> QED
  BY <1>2 DEF IntKeys

\* A number is wrapped around only when it does not fit.
LEMMA Int64Fits ==
  ASSUME NEW n \in Int
  PROVE  /\ Int64(n) \in Int
         /\ n \in -Int64Max - 1 .. Int64Max => Int64(n) = n
<1>1. Int64Max \in Nat
  BY WidthAssumption
<1>2. 2 * (Int64Max + 1) \in Nat \ {0}
  BY <1>1
<1>3. (n + Int64Max + 1) % (2 * (Int64Max + 1)) \in Int
  BY <1>1, <1>2
<1> QED
  BY <1>1, <1>3 DEF Int64

LEMMA ProductOfPositives ==
  ASSUME NEW m \in Nat, NEW n \in Nat
  PROVE  m * n \in Nat /\ (m > 0 /\ n > 0 => m * n > 0)
OBVIOUS

\* The ticker of a valid configuration has a positive period, unless its
\* nanoseconds do not fit.
LEMMA TickerIsSound ==
  ASSUME WellTyped(cfg), Valid(cfg), ~FlushOverflows
  PROVE  FlushInterval(cfg) > 0
<1> DEFINE n == cfg["flush_interval_seconds"]
<1>1. n \in Int /\ n > 0
  <2>1. n > 0
    BY Zenon DEF Valid
  <2> QED
    BY <2>1, NumbersAreInts
<1>2. Int64Max \in Nat /\ Second \in Nat \ {0}
  BY WidthAssumption
<1>3. n * Second \in Int /\ n * Second > 0 /\ ~(n * Second > Int64Max)
  <2>1. ~(n * Second > Int64Max)
    BY DEF FlushOverflows
  <2> HIDE DEF n
  <2> QED
    BY <1>1, <1>2, <2>1, ProductOfPositives
<1>4. n * Second \in -Int64Max - 1 .. Int64Max
  <2> HIDE DEF n
  <2> QED
    BY <1>2, <1>3
<1>5. FlushInterval(cfg) = n * Second
  <2>1. FlushInterval(cfg) = Int64(n * Second)
    BY DEF FlushInterval
  <2> HIDE DEF n
  <2> QED
    BY <1>3, <1>4, <2>1, Int64Fits
<1> QED
  BY <1>3, <1>5

\* A valid retention is one into the past, unless its milliseconds do not fit.
LEMMA RetentionLooksBack ==
  ASSUME WellTyped(cfg), Valid(cfg)
  PROVE  /\ CutoffAt(cfg, Now) \in Int
         /\ CutoffAt(cfg, Now) <= Now \/ RetentionOverflows
<1> DEFINE d == cfg["retention_days"]
           p == d * MsPerDay
<1>1. d \in Int /\ d >= 0
  <2>1. d >= 0
    BY Zenon DEF Valid
  <2> QED
    BY <2>1, NumbersAreInts
<1>2. Int64Max \in Nat /\ MsPerDay \in Nat \ {0} /\ Now \in 0..Int64Max
  BY WidthAssumption, NowAssumption
<1>3. p \in Nat
  <2> HIDE DEF d
  <2> QED
    BY <1>1, <1>2, ProductOfPositives
<1>4. CutoffAt(cfg, Now) = Int64(Now - Int64(p)) /\ (RetentionOverflows <=> p > Int64Max)
  BY DEF CutoffAt, RetentionOverflows
<1> HIDE DEF p
<1>5. Int64(p) \in Int /\ (p <= Int64Max => Int64(p) = p)
  BY <1>2, <1>3, Int64Fits
<1>6. Now - Int64(p) \in Int
  BY <1>2, <1>5
<1>7. Int64(Now - Int64(p)) \in Int
  BY <1>6, Int64Fits
<1>8. ASSUME p <= Int64Max PROVE Int64(Now - Int64(p)) <= Now
  <2>1. Now - p \in -Int64Max - 1 .. Int64Max /\ Now - p \in Int
    BY <1>2, <1>3, <1>8
  <2>2. Int64(Now - Int64(p)) = Now - p
    BY <1>5, <1>8, <2>1, Int64Fits
  <2> QED
    BY <1>2, <1>3, <2>2
<1> QED
  BY <1>2, <1>3, <1>4, <1>7, <1>8

-----------------------------------------------------------------------------
(* Steps *)

\* The invariant holds initially.
LEMMA InitIInv == Init => IInv
<1> SUFFICES ASSUME Init PROVE IInv
  OBVIOUS
<1>1. Flags
  BY Zenon DEF Init, Flags
<1>2. FileOK(file)
  BY DEF Init, FileOK, Absent, Given
<1>3. Types
  BY <1>2, DefaultsAreWellTyped, AttemptsAssumption DEF Init, Types, Steps, Errors
<1>4. ConfigInv
  BY Zenon DEF Init, ConfigInv, StoreSteps, CutoffIsPastOrOverflowed, CutoffIsPast
<1>5. ReadInv
  <2>1. attempt = 0 /\ pc = "main" /\ ~printed
    BY Zenon DEF Init
  <2> QED
    BY <2>1 DEF ReadInv
<1> QED
  BY <1>1, <1>3, <1>4, <1>5 DEF IInv

\* What touches neither configuration nor database.
Quiet ==
  /\ UNCHANGED <<inv, service>>
  /\ pc \in Unpruned \ (StoreSteps \cup {"store"})
  /\ pc' \in Steps \ (StoreSteps \cup {"validate", "store"})
  /\ portOpen' => pc' \in PortSteps

\* Before the database is opened it is not open.
LEMMA StillClosed ==
  ASSUME IInv, pc \in Unpruned \ StoreSteps
  PROVE  ~storeOpen /\ cutoffs = {}
<1>1. pc \notin StoreSteps /\ ~Panicked
  BY DEF Unpruned, Panicked
<1>2. ~storeOpen
  BY <1>1, Zenon DEF IInv, ConfigInv
<1> QED
  BY <1>2 DEF IInv, ConfigInv

\* A quiet step keeps what is known of the configuration.
LEMMA QuietStep ==
  ASSUME IInv, Quiet
  PROVE  ConfigInv'
<1>1. ~storeOpen /\ cutoffs = {}
  BY StillClosed DEF Quiet
<1>2. ~storeOpen' /\ cutoffs' = {}
  BY <1>1 DEF Quiet, service
<1>3. pc' # "validate" /\ pc' \notin StoreSteps \cup {"store"}
  BY DEF Quiet
<1>4. CutoffIsPastOrOverflowed'
  BY <1>2 DEF CutoffIsPastOrOverflowed, CutoffIsPast
<1>5. portOpen' => pc' \in PortSteps
  BY Zenon DEF Quiet
<1> QED
  BY <1>2, <1>3, <1>4, <1>5, Zenon DEF ConfigInv

\* Without a read there is nothing to tell.
LEMMA IdleStep ==
  ASSUME ReadInv, pc # "exit", pc' \notin {"report", "print"}, attempt = 0, attempt' = 0,
         UNCHANGED printed
  PROVE  ReadInv'
<1>1. ~printed'
  BY Zenon DEF ReadInv
<1> QED
  BY <1>1 DEF ReadInv

\* A read that fails for good leaves an error that fits.
LEMMA FailedReadTells ==
  ASSUME Types, ~printed', pc = "read", NEW e, NEW met, ReadFailsWith(e, met),
         FailureTells(met, ExitCode(e))
  PROVE  ReadInv'
<1>1. CASE attempt < Attempts
  <2>1. pc' = "read"
    BY <1>1 DEF ReadFailsWith
  <2> QED
    BY <2>1 DEF ReadInv
<1>2. CASE ~(attempt < Attempts)
  <2>1. pc' = "report" /\ err' = e /\ last' = met
    BY <1>2 DEF ReadFailsWith
  <2>2. FailureTells(last', ExitCode(err'))
    BY ONLY <2>1, FailureTells(met, ExitCode(e))
  <2> QED
    BY <2>1, <2>2 DEF ReadInv
<1> QED
  BY <1>1, <1>2

\* A failed read leaves the reading and its count in their types.
LEMMA FailedRead ==
  ASSUME Types, pc = "read", NEW e \in Errors, NEW met, ReadFailsWith(e, met)
  PROVE  /\ pc' \in {"read", "report"} /\ err' \in Errors
         /\ attempt' \in 1..Attempts
<1>1. attempt \in 1..Attempts /\ Attempts \in Nat
  BY AttemptsAssumption DEF Types
<1>2. CASE attempt < Attempts
  <2>1. attempt' = attempt + 1 /\ pc' = pc /\ err' = e
    BY <1>2 DEF ReadFailsWith
  <2> QED
    BY <1>1, <1>2, <2>1
<1>3. CASE ~(attempt < Attempts)
  <2>1. attempt' = attempt /\ pc' = "report" /\ err' = e
    BY <1>3 DEF ReadFailsWith
  <2> QED
    BY <1>1, <2>1
<1> QED
  BY <1>2, <1>3

\* A reply that is not understood makes an exit code that fits.
LEMMA AnswerTellsFailure ==
  ASSUME NEW r, NEW rtn, NEW sent, NEW rec, NEW f, NEW a,
         Understood(r, rtn, sent, rec, f, a),
         NEW e, \/ f.err # "none" /\ e = f.err
                \/ f.err = "none" /\ a.err # "none" /\ e = a.err
  PROVE  FailureTells(Answer(r, rtn, sent, rec), ExitCode(e))
<1> DEFINE met == Answer(r, rtn, sent, rec)
<1>1. met.kind = "answer" /\ met.reading = r /\ met.rtn = rtn /\ (met.damaged <=> rec # sent)
  BY Zenon DEF Answer
<1> HIDE DEF met
<1>2. CASE rec # sent
  <2>1. ExitCode(e) \in {ExitFraming, ExitBMS, ExitImplausible}
    BY DEF Understood, ExitCode, ExitFraming, ExitBMS, ExitImplausible
  <2>2. CodeOf(met) = {ExitFraming, ExitBMS, ExitImplausible}
    BY <1>1, <1>2, Zenon DEF CodeOf
  <2> QED
    BY <1>1, <2>1, <2>2 DEF FailureTells, met
<1>3. CASE rec = sent /\ rtn # RTNOk
  <2>1. ExitCode(e) = ExitBMS
    BY <1>3 DEF Understood, ExitCode
  <2>2. CodeOf(met) = {ExitBMS}
    BY <1>1, <1>3, Zenon DEF CodeOf
  <2> QED
    BY <1>1, <2>1, <2>2 DEF FailureTells, met
<1>4. CASE rec = sent /\ rtn = RTNOk
  <2>1. ~PlausibleReading(r)
    BY <1>4, Zenon DEF Understood
  <2>2. e = "implausible"
    BY <1>4, <2>1, Zenon DEF Understood
  <2>3. ExitCode(e) = ExitImplausible
    BY <2>2 DEF ExitCode
  <2>4. CodeOf(met) = {ExitImplausible}
    BY <1>1, <1>4, <2>1, Zenon DEF CodeOf
  <2> QED
    BY <1>1, <2>3, <2>4 DEF FailureTells, met
<1> QED
  BY <1>2, <1>3, <1>4

\* One read of the analog values, whatever comes of it.
LEMMA ReadStep ==
  ASSUME IInv, ReadFails \/ ReadAnswer
  PROVE  IInv'
<1>1. /\ pc = "read" /\ UNCHANGED <<inv, service, portOpen, printed, code>>
  BY DEF ReadFails, ReadAnswer
<1>2. ~printed'
  <2>1. printed' = printed /\ pc # "exit"
    BY <1>1
  <2> QED
    BY <2>1, Zenon DEF IInv, ReadInv
<1>3. /\ pc' \in {"read", "report", "print"} /\ err' \in Errors
      /\ attempt' \in 1..Attempts /\ warned' \in BOOLEAN /\ ReadInv'
  <2>1. CASE ReadFails
    <3>1. PICK e \in {"timeout", "serial"}, met \in {Silence, PortFailure} :
            /\ ReadFailsWith(e, met)
            /\ \/ e = "timeout" /\ met = Silence
               \/ e = "serial" /\ met = PortFailure
      BY <2>1 DEF ReadFails
    <3>2. e \in Errors /\ Types
      BY DEF Errors, IInv
    <3>3. warned' = warned
      BY <2>1 DEF ReadFails
    <3>4. warned' \in BOOLEAN
      BY <3>3, Zenon DEF IInv, Flags
    <3>5. FailureTells(met, ExitCode(e))
      BY <3>1 DEF FailureTells, ExitCode, Silence, PortFailure
    <3>6. ReadInv'
      BY ONLY <1>1, <1>2, <3>1, <3>2, <3>5, FailedReadTells
    <3> QED
      BY <1>1, <3>1, <3>2, <3>4, <3>6, FailedRead
  <2>2. CASE ReadAnswer
    <3> DEFINE Sent(r, rtn) == ReplyTo(inv.address, rtn, r)
               F(r, rtn, damage) == ParseFrame(Received(Sent(r, rtn), damage))
               A(r, rtn, damage) == ParseAnalog(F(r, rtn, damage).info)
               Met(r, rtn, damage) ==
                 Answer(r, rtn, Sent(r, rtn), Received(Sent(r, rtn), damage))
    <3>1. PICK r \in Readings, rtn \in Rtns :
            \E damage \in OneCharacter(Len(Sent(r, rtn))) :
              /\ warned' = (warned \/ (F(r, rtn, damage).err = "none"
                                        /\ ~F(r, rtn, damage).checksumOK))
              /\ IF F(r, rtn, damage).err # "none"
                 THEN ReadFailsWith(F(r, rtn, damage).err, Met(r, rtn, damage))
                 ELSE IF A(r, rtn, damage).err # "none"
                 THEN ReadFailsWith(A(r, rtn, damage).err, Met(r, rtn, damage))
                 ELSE /\ sample' = A(r, rtn, damage).sample
                      /\ err' = "none"
                      /\ pc' = "print"
                      /\ last' = Met(r, rtn, damage)
                      /\ UNCHANGED attempt
      BY <2>2, Zenon DEF ReadAnswer
    <3>2. PICK damage \in OneCharacter(Len(Sent(r, rtn))) :
              /\ warned' = (warned \/ (F(r, rtn, damage).err = "none"
                                        /\ ~F(r, rtn, damage).checksumOK))
              /\ IF F(r, rtn, damage).err # "none"
                 THEN ReadFailsWith(F(r, rtn, damage).err, Met(r, rtn, damage))
                 ELSE IF A(r, rtn, damage).err # "none"
                 THEN ReadFailsWith(A(r, rtn, damage).err, Met(r, rtn, damage))
                 ELSE /\ sample' = A(r, rtn, damage).sample
                      /\ err' = "none"
                      /\ pc' = "print"
                      /\ last' = Met(r, rtn, damage)
                      /\ UNCHANGED attempt
      BY <3>1, Zenon
    <3> DEFINE addr == inv.address
               sent == ReplyTo(addr, rtn, r)
               rec == Received(sent, damage)
               f == ParseFrame(rec)
               a == ParseAnalog(f.info)
               met == Answer(r, rtn, sent, rec)
    <3>3. /\ warned' = (warned \/ (f.err = "none" /\ ~f.checksumOK))
          /\ IF f.err # "none" THEN ReadFailsWith(f.err, met)
             ELSE IF a.err # "none" THEN ReadFailsWith(a.err, met)
             ELSE /\ sample' = a.sample /\ err' = "none" /\ pc' = "print" /\ last' = met
                  /\ UNCHANGED attempt
      BY <3>2, Zenon
    <3>4. warned' \in BOOLEAN
      BY <3>3, Zenon
    <3>5. inv.address \in Int
      BY InvocationsAssumption DEF IInv, Types, InvocationOK
    <3>6. PICK x \in Int : x = inv.address
      BY <3>5
    <3>7. sent = ReplyTo(x, rtn, r)
      BY <3>6
    <3>8. damage \in OneCharacter(Len(sent))
      BY <3>2
    <3> HIDE DEF addr, sent, rec, f, a, met, F, A, Met, Sent
    <3>9. rec = Received(sent, damage) /\ f = ParseFrame(rec) /\ a = ParseAnalog(f.info)
      BY DEF rec, f, a
    <3>10. Understood(r, rtn, sent, rec, f, a)
      BY ONLY <3>7, <3>9, r \in Readings, rtn \in Rtns, x \in Int, RepliesAreUnderstood
    <3>11. f.err \in Errors /\ a.err \in Errors
      BY <3>10 DEF Understood, Errors
    <3>12. Types /\ attempt \in 1..Attempts /\ "none" \in Errors
      BY <1>1 DEF IInv, Types, Errors
    <3>13. ASSUME NEW e \in Errors, ReadFailsWith(e, met),
                  \/ f.err # "none" /\ e = f.err
                  \/ f.err = "none" /\ a.err # "none" /\ e = a.err
           PROVE  /\ pc' \in {"read", "report"} /\ err' \in Errors
                  /\ attempt' \in 1..Attempts /\ ReadInv'
      <4>1. FailureTells(met, ExitCode(e))
        BY <3>10, <3>13, AnswerTellsFailure DEF met
      <4>2. ReadInv'
        BY ONLY <1>1, <1>2, <3>12, <3>13, <4>1, FailedReadTells
      <4> QED
        BY <1>1, <3>12, <3>13, <4>2, FailedRead
    <3>14. ASSUME f.err = "none", a.err = "none", sample' = a.sample, pc' = "print", last' = met
           PROVE  ReadInv'
      <4>1. /\ met.kind = "answer" /\ met.reading = r
            /\ met.damaged <=> rec # sent
            /\ met.sameLength <=> InfoHexLen(rec) = InfoHexLen(sent)
        BY Zenon DEF met, Answer
      <4>2. a.sample # NoSample
        BY <3>10, <3>14 DEF Understood
      <4>3. rec # sent /\ InfoHexLen(rec) = InfoHexLen(sent) => ~f.checksumOK
        BY ONLY <3>7, <3>8, <3>9, <3>14, r \in Readings, rtn \in Rtns, x \in Int, DamageIsLogged
      <4>4. rec # sent /\ InfoHexLen(rec) = InfoHexLen(sent) => warned'
        BY ONLY <3>3, <3>14, <4>3, Zenon
      <4>5. rec = sent => a.sample = Meaning(r)
        BY ONLY <3>10, <3>14, Zenon DEF Understood
      <4>6. SampleTells(met, a.sample, warned')
        BY ONLY <4>1, <4>2, <4>4, <4>5, Zenon DEF SampleTells
      <4>7. SampleTells(last', sample', warned')
        BY ONLY <3>14, <4>6, Zenon
      <4> QED
        BY <1>2, <3>14, <4>7 DEF ReadInv
    <3>15. CASE f.err # "none"
      <4>1. ReadFailsWith(f.err, met)
        BY <3>3, <3>15, Zenon
      <4> QED
        BY <3>4, <3>11, <3>13, <3>15, <4>1
    <3>16. CASE f.err = "none" /\ a.err # "none"
      <4>1. ReadFailsWith(a.err, met)
        BY <3>3, <3>16, Zenon
      <4> QED
        BY <3>4, <3>11, <3>13, <3>16, <4>1
    <3>17. CASE f.err = "none" /\ a.err = "none"
      <4>1. sample' = a.sample /\ err' = "none" /\ pc' = "print" /\ last' = met /\ attempt' = attempt
        BY <3>3, <3>17, Zenon
      <4> QED
        BY <3>4, <3>12, <3>14, <3>17, <4>1
    <3> QED
      BY <3>15, <3>16, <3>17
  <2> QED
    BY <2>1, <2>2
<1>4. Types'
  BY <1>1, <1>3, AttemptsAssumption DEF IInv, Types, service, Steps
<1>5. Flags'
  BY <1>1, <1>3, Zenon DEF IInv, Flags, service
<1>6. ConfigInv'
  <2>1. Quiet
    BY <1>1, <1>3 DEF Quiet, Unpruned, Steps, StoreSteps, PortSteps
  <2> QED
    BY <2>1, QuietStep
<1> QED
  BY <1>3, <1>4, <1>5, <1>6 DEF IInv

\* After the load, the configuration is the one put together from file and flags.
LEMMA LoadStep ==
  ASSUME IInv, LoadConfig
  PROVE  IInv'
<1>1. /\ pc = "load" /\ file' \in Files
      /\ UNCHANGED <<inv, storeOpen, cutoffs, portOpen, reading, printed>>
  BY DEF LoadConfig
<1>2. FileOK(file') /\ Given(inv.flags, FlagKeys)
  BY <1>1, FilesAssumption, InvocationsAssumption DEF IInv, Types, InvocationOK
<1>3. \/ pc' = "exit" /\ code' = ExitGeneric /\ cfg' = cfg
      \/ pc' = "validate" /\ code' = code /\ cfg' = Loaded(file', inv.flags)
  BY DEF LoadConfig, Exits
<1>4. WellTyped(cfg')
  BY <1>2, <1>3, LoadedIsWellTyped DEF IInv, Types
<1>5. Types'
  BY <1>1, <1>2, <1>3, <1>4 DEF IInv, Types, WellTyped, FileOK, reading, Steps, ExitGeneric
<1>6. Flags'
  BY <1>1, Zenon DEF IInv, Flags, reading
<1>7. ConfigInv'
  <2>1. ~storeOpen /\ cutoffs = {} /\ ~portOpen
    <3>1. pc \in Unpruned \ StoreSteps /\ pc \notin PortSteps /\ ~Panicked
      BY <1>1 DEF Unpruned, Steps, StoreSteps, PortSteps, Panicked
    <3>2. ~portOpen
      BY <3>1, Zenon DEF IInv, ConfigInv
    <3> QED
      BY <3>1, <3>2, StillClosed
  <2>2. ~storeOpen' /\ cutoffs' = {} /\ ~portOpen'
    BY <1>1, <2>1
  <2>3. CutoffIsPastOrOverflowed'
    BY <2>2 DEF CutoffIsPastOrOverflowed, CutoffIsPast
  <2>4. pc' \notin StoreSteps \cup {"store"}
    BY <1>3 DEF StoreSteps
  <2>5. pc' = "validate" => cfg' = Loaded(file', inv'.flags)
    BY <1>1, <1>3
  <2> QED
    BY <2>2, <2>3, <2>4, <2>5, Zenon DEF ConfigInv
<1>8. ReadInv'
  <2>1. attempt = 0 /\ attempt' = 0
    BY <1>1 DEF IInv, Types, ReadInv, reading
  <2> QED
    BY <1>1, <1>3, <2>1, IdleStep DEF IInv
<1> QED
  BY <1>5, <1>6, <1>7, <1>8 DEF IInv

\* Only a valid configuration passes, and it is what file and flags say.
LEMMA ValidateStep ==
  ASSUME IInv, ValidateConfig
  PROVE  IInv'
<1>1. /\ pc = "validate" /\ cfg = Loaded(file, inv.flags)
      /\ cfg' = IF inv.debug THEN ForcedDebug(cfg) ELSE cfg
      /\ UNCHANGED <<inv, file, storeOpen, cutoffs, portOpen, reading, printed>>
  BY DEF ValidateConfig, IInv, ConfigInv
<1>2. \/ Valid(cfg') /\ pc' = "store" /\ code' = code
      \/ pc' = "exit" /\ code' = ExitGeneric
  BY DEF ValidateConfig, Exits
<1>3. WellTyped(cfg)
  BY DEF IInv, Types
<1>4. WellTyped(cfg')
  BY <1>1, <1>3, ForcedDebugIsWellTyped
<1>5. ASSUME NEW k \in Keys PROVE cfg'[k] = SaidBy(k)'
  <2>1. SaidBy(k)' = SaidBy(k)
    BY <1>1 DEF SaidBy
  <2>2. cfg[k] = IF k \in FlagKeys /\ IsSet(inv.flags, k) THEN inv.flags[k]
                 ELSE IF k \in DOMAIN file.doc THEN file.doc[k] ELSE Defaults[k]
    BY <1>1, LastWord
  <2>3. CASE inv.debug
    BY <1>1, <1>3, <2>1, <2>2, <2>3, ForcedDebugIsWellTyped DEF SaidBy
  <2>4. CASE ~inv.debug
    BY <1>1, <2>1, <2>2, <2>4 DEF SaidBy
  <2> QED
    BY <2>3, <2>4
<1>6. Types'
  BY <1>1, <1>2, <1>4 DEF IInv, Types, WellTyped, reading, Steps, ExitGeneric
<1>7. Flags'
  BY <1>1, Zenon DEF IInv, Flags, reading
<1>8. ConfigInv'
  <2>1. ~storeOpen /\ cutoffs = {} /\ ~portOpen
    <3>1. pc \in Unpruned \ StoreSteps /\ pc \notin PortSteps /\ ~Panicked
      BY <1>1 DEF Unpruned, Steps, StoreSteps, PortSteps, Panicked
    <3>2. ~portOpen
      BY <3>1, Zenon DEF IInv, ConfigInv
    <3> QED
      BY <3>1, <3>2, StillClosed
  <2>2. ~storeOpen' /\ cutoffs' = {} /\ ~portOpen'
    BY <1>1, <2>1
  <2>3. CutoffIsPastOrOverflowed'
    BY <2>2 DEF CutoffIsPastOrOverflowed, CutoffIsPast
  <2>4. pc' \in StoreSteps \cup {"store"} => Trusted'
    BY <1>2, <1>5 DEF StoreSteps, Trusted
  <2>5. pc' # "validate"
    BY <1>2
  <2> QED
    BY <2>2, <2>3, <2>4, <2>5, Zenon DEF ConfigInv
<1>9. ReadInv'
  <2>1. attempt = 0 /\ attempt' = 0
    BY <1>1 DEF IInv, Types, ReadInv, reading
  <2> QED
    BY <1>1, <1>2, <2>1, IdleStep DEF IInv
<1> QED
  BY <1>6, <1>7, <1>8, <1>9 DEF IInv

\* The steps of main and of poll, but for the reads.
LEMMA CommandStep ==
  ASSUME IInv, Dispatch \/ ParseFlags \/ CheckFormat \/ OpenPort \/ OpenPortFails
                 \/ ReportError \/ PrintSample
  PROVE  IInv'
<1>1. /\ pc \in {"main", "poll", "serve", "format", "open", "report", "print"}
      /\ UNCHANGED <<inv, service, err, sample, warned, last>>
  BY DEF Dispatch, ParseFlags, CheckFormat, OpenPort, OpenPortFails, ReportError,
         PrintSample, reading
<1>2. /\ pc' \in {"poll", "serve", "format", "load", "open", "read", "exit"}
      /\ code' \in -1..6
  <2>1. code \in -1..6
    BY DEF IInv, Types
  <2>2. \A e : ExitCode(e) \in -1..6
    BY DEF ExitCode, ExitTimeout, ExitFraming, ExitBMS, ExitImplausible, ExitGeneric
  <2> QED
    BY <2>1, <2>2
       DEF Dispatch, ParseFlags, CheckFormat, OpenPort, OpenPortFails, ReportError,
           PrintSample, Exits, ExitOK, ExitGeneric, ExitUsage
<1>3. attempt' \in 0..Attempts /\ (pc' = "read" => attempt' \in 1..Attempts)
  BY AttemptsAssumption
     DEF IInv, Types, Dispatch, ParseFlags, CheckFormat, OpenPort, OpenPortFails,
         ReportError, PrintSample, Exits, reading
<1>4. Types'
  BY <1>1, <1>2, <1>3 DEF IInv, Types, WellTyped, service, Steps
<1>5. Flags'
  <2>1. portOpen' \in BOOLEAN /\ printed' \in BOOLEAN
    BY Zenon DEF IInv, Flags, Dispatch, ParseFlags, CheckFormat, OpenPort, OpenPortFails,
       ReportError, PrintSample
  <2> QED
    BY <1>1, <2>1, Zenon DEF IInv, Flags, service
<1>6. ConfigInv'
  <2>1. portOpen' => pc' \in PortSteps
    <3>1. CASE Dispatch \/ ParseFlags \/ CheckFormat \/ OpenPortFails
      <4>1. portOpen' = portOpen /\ pc \in {"main", "poll", "serve", "format", "open"}
        BY <3>1 DEF Dispatch, ParseFlags, CheckFormat, OpenPortFails
      <4>2. pc \notin PortSteps /\ ~Panicked
        BY <4>1 DEF PortSteps, Panicked
      <4> QED
        BY <4>1, <4>2, Zenon DEF IInv, ConfigInv
    <3>2. CASE OpenPort
      BY <3>2 DEF OpenPort, PortSteps
    <3>3. CASE ReportError \/ PrintSample
      BY <3>3, Zenon DEF ReportError, PrintSample
    <3> QED
      BY <3>1, <3>2, <3>3
  <2>2. Quiet
    BY <1>1, <1>2, <2>1 DEF Quiet, Unpruned, Steps, StoreSteps
  <2> QED
    BY <2>2, QuietStep
<1>7. ReadInv'
  <2>1. CASE Dispatch \/ ParseFlags \/ CheckFormat \/ OpenPortFails
    <3>1. /\ pc \notin {"read", "report", "print", "exit"}
          /\ UNCHANGED <<attempt, printed>>
      BY <2>1 DEF Dispatch, ParseFlags, CheckFormat, OpenPortFails, reading
    <3>2. attempt = 0
      BY <3>1 DEF IInv, Types, ReadInv
    <3> QED
      BY <1>2, <3>1, <3>2, IdleStep DEF IInv
  <2>2. CASE OpenPort
    <3>1. pc' = "read" /\ pc = "open" /\ printed' = printed
      BY <2>2 DEF OpenPort
    <3>2. ~printed'
      BY <3>1, Zenon DEF IInv, ReadInv
    <3> QED
      BY <3>1, <3>2 DEF ReadInv
  <2>3. CASE ReportError
    <3>1. pc = "report" /\ pc' = "exit" /\ code' = ExitCode(err) /\ printed' = printed
      BY <2>3 DEF ReportError, Exits
    <3>2. ~printed'
      BY <3>1, Zenon DEF IInv, ReadInv
    <3>3. FailureTells(last', code')
      <4>1. FailureTells(last, ExitCode(err))
        BY <3>1 DEF IInv, ReadInv
      <4> QED
        BY <1>1, <3>1, <4>1
    <3> QED
      BY <3>1, <3>2, <3>3 DEF ReadInv
  <2>4. CASE PrintSample
    <3>1. pc = "print" /\ pc' = "exit" /\ attempt' = attempt
      BY <2>4 DEF PrintSample, Exits, reading
    <3>2. printed' => code' = ExitOK
      BY <2>4, Zenon DEF PrintSample, Exits
    <3>3. SampleTells(last', sample', warned')
      <4>1. SampleTells(last, sample, warned)
        BY <3>1 DEF IInv, ReadInv
      <4> QED
        BY <1>1, <4>1
    <3>4. attempt' > 0
      BY <3>1 DEF IInv, Types
    <3> QED
      BY <3>1, <3>2, <3>3, <3>4 DEF ReadInv
  <2> QED
    BY <2>1, <2>2, <2>3, <2>4
<1> QED
  BY <1>4, <1>5, <1>6, <1>7 DEF IInv

Service == \/ OpenStore \/ OpenStoreFails \/ StartWeb \/ StartWebFails \/ StartupPrune
           \/ OpenSerial \/ StartLoop \/ PortChanges \/ Stop

\* What the database, the port and the cutoff are after each step of serve.
LEMMA ServiceSteps ==
  ASSUME IInv, Service
  PROVE  /\ storeOpen' => pc' \in StoreSteps \/ Panicked'
         /\ portOpen' => pc' \in PortSteps \/ Panicked'
         /\ cutoffs' \subseteq Int
         /\ pc' \in Unpruned => cutoffs' = {}
         /\ CutoffIsPastOrOverflowed'
<1> DEFINE Claim == /\ storeOpen' => pc' \in StoreSteps \/ Panicked'
                    /\ portOpen' => pc' \in PortSteps \/ Panicked'
                    /\ cutoffs' \subseteq Int
                    /\ pc' \in Unpruned => cutoffs' = {}
                    /\ CutoffIsPastOrOverflowed'
<1>1. /\ storeOpen => pc \in StoreSteps \/ Panicked
      /\ portOpen => pc \in PortSteps \/ Panicked
      /\ pc \in Unpruned => cutoffs = {}
      /\ CutoffIsPastOrOverflowed
  BY Zenon DEF IInv, ConfigInv
<1>2. /\ pc \in StoreSteps \cup {"store"} /\ cfg' = cfg /\ pc # "exit"
  BY DEF Service, OpenStore, OpenStoreFails, StartWeb, StartWebFails, StartupPrune,
         OpenSerial, StartLoop, PortChanges, Stop, service, StoreSteps
<1>3. ~Panicked
  BY <1>2 DEF Panicked
<1>4. cutoffs \subseteq Int
  BY DEF IInv, Types
<1>5. WellTyped(cfg) /\ Valid(cfg)
  BY <1>2 DEF IInv, Types, ConfigInv, Trusted
<1>6. ASSUME UNCHANGED cutoffs PROVE CutoffIsPastOrOverflowed'
  BY <1>1, <1>2, <1>6 DEF CutoffIsPastOrOverflowed, CutoffIsPast, RetentionOverflows
<1>7. pc \notin PortSteps => ~portOpen
  BY <1>1, <1>3, Zenon
<1>8. CASE OpenStore
  <2>1. pc = "store" /\ pc' = "web" /\ cutoffs' = cutoffs /\ portOpen' = portOpen
    BY <1>8 DEF OpenStore
  <2> QED
    BY <1>1, <1>4, <1>6, <1>7, <2>1 DEF Unpruned, Steps, StoreSteps, PortSteps
<1>9. CASE OpenStoreFails
  <2>1. /\ pc = "store" /\ pc' = "exit" /\ UNCHANGED <<storeOpen, cutoffs, portOpen>>
    BY <1>9 DEF OpenStoreFails, Exits, service
  <2>2. ~storeOpen
    BY <1>1, <1>3, <2>1 DEF StoreSteps
  <2> QED
    BY <1>4, <1>6, <1>7, <2>1, <2>2 DEF Unpruned, Steps, StoreSteps, PortSteps
<1>10. CASE StartWeb
  <2>1. pc = "web" /\ pc' = "prune" /\ cutoffs' = cutoffs /\ portOpen' = portOpen
    BY <1>10 DEF StartWeb, service
  <2> QED
    BY <1>1, <1>4, <1>6, <1>7, <2>1 DEF Unpruned, Steps, StoreSteps, PortSteps
<1>11. CASE StartWebFails
  <2>1. /\ pc = "web" /\ pc' = "exit" /\ ~storeOpen' /\ cutoffs' = cutoffs
        /\ portOpen' = portOpen
    BY <1>11 DEF StartWebFails, Exits
  <2> QED
    BY <1>4, <1>6, <1>7, <2>1 DEF Unpruned, Steps, StoreSteps, PortSteps
<1>12. CASE StartupPrune
  <2>1. /\ pc = "prune" /\ pc' = "serial" /\ portOpen' = portOpen
        /\ cutoffs' \subseteq {CutoffAt(cfg, Now)}
    BY <1>12 DEF StartupPrune
  <2>2. cutoffs' \subseteq Int
    BY <1>5, <2>1, RetentionLooksBack
  <2>3. CutoffIsPastOrOverflowed'
    <3>1. CutoffAt(cfg, Now) <= Now \/ RetentionOverflows
      BY <1>5, RetentionLooksBack
    <3> QED
      BY <1>2, <2>1, <3>1 DEF CutoffIsPastOrOverflowed, CutoffIsPast, RetentionOverflows
  <2> QED
    BY <1>7, <2>1, <2>2, <2>3 DEF Unpruned, Steps, StoreSteps, PortSteps
<1>13. CASE OpenSerial
  <2>1. pc' = "loop" /\ cutoffs' = cutoffs
    BY <1>13 DEF OpenSerial, service
  <2> QED
    BY <1>4, <1>6, <2>1 DEF Unpruned, Steps, StoreSteps, PortSteps
<1>14. CASE StartLoop
  <2>1. cutoffs' = cutoffs
    BY <1>14 DEF StartLoop, service
  <2>2. \/ pc' = "serving"
        \/ pc' = "exit" /\ code' = ExitPanic /\ ~(FlushInterval(cfg) > 0)
    BY <1>14 DEF StartLoop, Exits
  <2>3. CASE pc' = "serving"
    BY <1>4, <1>6, <2>1, <2>3 DEF Unpruned, Steps, StoreSteps, PortSteps
  <2>4. CASE pc' = "exit" /\ code' = ExitPanic /\ ~(FlushInterval(cfg) > 0)
    <3>1. FlushOverflows
      BY <1>5, <2>4, TickerIsSound
    <3>2. FlushOverflows'
      BY <1>2, <3>1 DEF FlushOverflows
    <3> QED
      BY <1>4, <1>6, <2>1, <2>4, <3>2 DEF Unpruned, Panicked
  <2> QED
    BY <2>2, <2>3, <2>4
<1>15. CASE PortChanges
  <2>1. pc = "serving" /\ pc' = pc /\ cutoffs' = cutoffs
    BY <1>15 DEF PortChanges, service
  <2> QED
    BY <1>4, <1>6, <2>1 DEF Unpruned, Steps, StoreSteps, PortSteps
<1>16. CASE Stop
  <2>1. pc' = "exit" /\ ~storeOpen' /\ ~portOpen' /\ cutoffs' = cutoffs
    BY <1>16, Zenon DEF Stop, Exits
  <2> QED
    BY <1>4, <1>6, <2>1 DEF Unpruned
<1> QED
  BY <1>8, <1>9, <1>10, <1>11, <1>12, <1>13, <1>14, <1>15, <1>16 DEF Service

\* The steps of serve from the opening of the database on.
LEMMA ServiceStep ==
  ASSUME IInv, Service
  PROVE  IInv'
<1>1. /\ pc \in StoreSteps \cup {"store"} /\ pc' \in StoreSteps \cup {"exit"}
      /\ UNCHANGED <<inv, file, cfg, reading, printed>>
      /\ code' \in {code, ExitOK, ExitGeneric, ExitPanic}
  BY DEF Service, OpenStore, OpenStoreFails, StartWeb, StartWebFails, StartupPrune,
         OpenSerial, StartLoop, PortChanges, Stop, Exits, service, StoreSteps
<1>2. ConfigInv'
  <2>1. Trusted
    BY <1>1, Zenon DEF IInv, ConfigInv
  <2>2. Trusted'
    <3>1. \A k \in Keys : SaidBy(k)' = SaidBy(k)
      BY <1>1 DEF SaidBy
    <3> QED
      BY <1>1, <2>1, <3>1 DEF Trusted
  <2>3. pc' # "validate"
    BY <1>1 DEF StoreSteps
  <2> QED
    BY <2>2, <2>3, ServiceSteps, Zenon DEF ConfigInv
<1>3. Types'
  BY <1>1, ServiceSteps
     DEF IInv, Types, WellTyped, reading, Steps, StoreSteps, ExitOK, ExitGeneric, ExitPanic
<1>4. Flags'
  <2>1. storeOpen' \in BOOLEAN /\ portOpen' \in BOOLEAN
    BY Zenon DEF IInv, Flags, Service, OpenStore, OpenStoreFails, StartWeb, StartWebFails,
       StartupPrune, OpenSerial, StartLoop, PortChanges, Stop, service
  <2> QED
    BY <1>1, <2>1, Zenon DEF IInv, Flags, reading
<1>5. ReadInv'
  <2>1. attempt = 0 /\ attempt' = 0
    BY <1>1 DEF IInv, Types, ReadInv, reading, StoreSteps
  <2>2. pc # "exit" /\ pc' \notin {"report", "print"}
    BY <1>1 DEF StoreSteps
  <2> QED
    BY <1>1, <2>1, <2>2, IdleStep DEF IInv, reading
<1> QED
  BY <1>2, <1>3, <1>4, <1>5 DEF IInv

\* Every step keeps IInv.
LEMMA InvStep ==
  ASSUME IInv, [Next]_vars
  PROVE  IInv'
<1>1. CASE UNCHANGED vars
  <2>1. Types' /\ Flags' /\ ConfigInv'
    BY <1>1 DEF vars, service, reading, IInv, Types, Flags, ConfigInv, WellTyped, SaidBy,
                Panicked, FlushOverflows, Trusted, CutoffIsPastOrOverflowed, CutoffIsPast,
                RetentionOverflows
  <2>2. ReadInv'
    BY <1>1 DEF vars, service, reading, IInv, ReadInv
  <2> QED
    BY <2>1, <2>2 DEF IInv
<1> QED
  BY <1>1, CommandStep, ReadStep, LoadStep, ValidateStep, ServiceStep DEF Next, Service

-----------------------------------------------------------------------------
(* Theorems *)

\* IInv is an invariant.
THEOREM Inductive == Spec => []IInv
BY InitIInv, InvStep, PTL DEF Spec

\* Type correctness: in particular Poll never reads more often than analogAttempts,
\* and every key of the configuration keeps a value of its kind.
THEOREM TypeCorrect == Spec => []TypeOK
<1>1. IInv => TypeOK
  BY DEF IInv, Types, Flags, TypeOK, WellTyped, Steps, Errors
<1> QED
  BY <1>1, Inductive, PTL

\* For every file and every set of flags: a process that ends has closed database
\* and port, for no interval that Validate passes makes the ticker panic but one
\* whose nanoseconds do not fit into an int64.
THEOREM ClosedAtTheEnd == Spec => []EndsClosedOrOverflowed
<1>1. IInv => EndsClosedOrOverflowed
  <2> SUFFICES ASSUME ConfigInv, pc = "exit", storeOpen \/ portOpen
               PROVE  code = ExitPanic /\ FlushOverflows
    BY Zenon DEF IInv, EndsClosedOrOverflowed
  <2>1. pc \notin StoreSteps /\ pc \notin PortSteps
    BY DEF StoreSteps, PortSteps
  <2> QED
    BY <2>1, Zenon DEF ConfigInv, Panicked
<1> QED
  BY <1>1, Inductive, PTL

\* For every file and every set of flags: the startup prune deletes the past only,
\* unless the milliseconds of the retention do not fit into an int64.
THEOREM PastIsPruned == Spec => []CutoffIsPastOrOverflowed
<1>1. IInv => CutoffIsPastOrOverflowed
  BY Zenon DEF IInv, ConfigInv
<1> QED
  BY <1>1, Inductive, PTL

\* For every file and every set of flags: each key has the value given last.
THEOREM LastWordCounts == Spec => []FlagBeatsFileBeatsDefault
<1>1. IInv => FlagBeatsFileBeatsDefault
  BY Zenon DEF IInv, ConfigInv, Trusted, FlagBeatsFileBeatsDefault
<1> QED
  BY <1>1, Inductive, PTL

\* For every reading of the BMS and every reply in which at most one character was
\* damaged: what is written is what was measured, or the checksum gave it away,
\* unless the damage made the length another.
THEOREM PrintedIsMeasured == Spec => []SampleIsMeasuredOrWarned
<1>1. IInv => SampleIsMeasuredOrWarned
  <2> SUFFICES ASSUME ReadInv, printed PROVE SampleIsMeasuredOrWarned
    BY DEF IInv, SampleIsMeasuredOrWarned
  <2>1. SampleTells(last, sample, warned)
    BY Zenon DEF ReadInv
  <2> QED
    BY <2>1, Zenon DEF SampleTells, SampleIsMeasuredOrWarned
<1> QED
  BY <1>1, Inductive, PTL

\* For every reading and every such reply: the exit code tells what the last
\* attempt met.
THEOREM FailuresAreToldApart == Spec => []ExitCodeTells
<1>1. IInv => ExitCodeTells
  <2> SUFFICES ASSUME ReadInv, pc = "exit", attempt > 0
               PROVE  CASE last.kind = "silence" -> code = ExitTimeout
                        [] last.kind = "port" -> code = ExitGeneric
                        [] last.kind = "answer" ->
                             \/ code \in CodeOfAnswer
                             \/ sample # NoSample /\ (printed => code = ExitOK)
    BY DEF IInv, ExitCodeTells
  <2>1. CodeOfAnswer = CodeOf(last)
    BY Zenon DEF CodeOfAnswer, CodeOf
  <2>2. \/ last.kind = "silence" /\ code = ExitTimeout
        \/ last.kind = "port" /\ code = ExitGeneric
        \/ last.kind = "answer" /\ code \in CodeOf(last)
        \/ last.kind = "answer" /\ sample # NoSample /\ (printed => code = ExitOK)
    BY Zenon DEF ReadInv, FailureTells, SampleTells
  <2> QED
    BY <2>1, <2>2
<1> QED
  BY <1>1, Inductive, PTL
=============================================================================
