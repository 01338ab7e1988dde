-------------------------------- MODULE Codec --------------------------------
(***************************************************************************)
(* The wire format of the BMS: request and response frames with their      *)
(* length and checksum fields, and the analog payload that becomes a       *)
(* sample.  Pure operators; SerialClient says when they are applied, and   *)
(* Command uses them on concrete replies.                                  *)
(*                                                                         *)
(* A frame is the sequence of its hexadecimal digits, as cleanHexPayload   *)
(* leaves them: numbers 0..15 without SOI and EOI.  A payload is a         *)
(* sequence of bytes.  Positions count from one, cursors from zero.        *)
(*                                                                         *)
(* An operator whose name says how it departs from the one that follows it *)
(* is a faulty variant, used by no action.                                 *)
(***************************************************************************)
EXTENDS Integers, Sequences

Digit == 0..15
Byte == 0..255

-----------------------------------------------------------------------------
(* Frames *)

Ver == 33           \* 0x21
CID1 == 70          \* 0x46
CID2Analog == 66    \* 0x42
CID2Proto == 79     \* 0x4F
RTNOk == 0

\* The code point of a digit in its text form, '0'..'9' and 'A'..'F'.
Ascii(d) == IF d <= 9 THEN 48 + d ELSE 55 + d

\* The weights of up to four digits, the last first.
Weight == <<1, 16, 256, 4096>>

Hex(n, width) == [i \in 1..width |-> (n \div Weight[width - i + 1]) % 16]

\* checksum adds the characters of the text, not the bytes they stand for, and
\* negates the sum in 16 bits.
ChecksumOf(digits) ==
  LET sum[i \in 0..Len(digits)] == IF i = 0 THEN 0 ELSE sum[i - 1] + Ascii(digits[i])
  IN  (-sum[Len(digits)]) % 65536

\* The low 12 bits hold the count, the high 4 bits its checksum nibble.
EncodeLength(count) == 4096 * ((-count) % 16) + (count % 4096)

Frame(addr, cid2, infoHex) ==
  LET inner == Hex(Ver, 2) \o Hex(addr, 2) \o Hex(CID1, 2) \o Hex(cid2, 2)
                 \o Hex(EncodeLength(Len(infoHex)), 4) \o infoHex
  IN  inner \o Hex(ChecksumOf(inner), 4)

BuildCommand(addr, cid2) == Frame(addr % 256, cid2, Hex(addr % 256, 2))

NoInfo == <<>>
BadFrame(error) == [err |-> error, info |-> NoInfo, checksumOK |-> FALSE]

ByteAt(digits, i) == 16 * digits[i] + digits[i + 1]

\* The low 12 bits of the length field are its last three digits; the nibble
\* that protects them is not looked at.
InfoHexLen(digits) == 256 * digits[10] + 16 * digits[11] + digits[12]

Malformed(digits) ==
  \/ Len(digits) < 16
  \/ InfoHexLen(digits) % 2 # 0
  \/ Len(digits) < 12 + InfoHexLen(digits) + 4

\* A checksum that does not match is logged; the frame is used all the same.
ParseFrame(digits) ==
  LET n == InfoHexLen(digits) IN
  IF Malformed(digits) THEN BadFrame("framing")
  ELSE IF ByteAt(digits, 7) # RTNOk THEN BadFrame("bms")
  ELSE [err |-> "none",
        info |-> [i \in 1..n \div 2 |-> ByteAt(digits, 12 + 2 * i - 1)],
        checksumOK |-> SubSeq(digits, 13 + n, 16 + n)
                         = Hex(ChecksumOf(SubSeq(digits, 1, 12 + n)), 4)]

-----------------------------------------------------------------------------
(* The analog payload *)

MaxCells == 32
MaxTemps == 8
CellMVMin == 1000
CellMVMax == 5000
PackMVMin == 10000
PackMVMax == 60000
CurrentMAMax == 500000
DeciCMin == -500
DeciCMax == 1500
TempOffset == 2731      \* 0 degrees C in tenths of a kelvin

U16(info, p) == 256 * info[p + 1] + info[p + 2]

SignedOffByOne(raw) == IF raw > 32768 THEN raw - 65536 ELSE raw

Signed(raw) == IF raw > 32767 THEN raw - 65536 ELSE raw

Has(info, p, n) == p + n <= Len(info)
AtMost(bound, n) == IF n > bound THEN bound ELSE n

\* A count above the bound is cut, and the cursor goes on from there.
CellCount(info) == AtMost(MaxCells, info[2])
TempsAt(info) == 2 + 2 * CellCount(info)
TempCount(info) ==
  IF Has(info, TempsAt(info), 1) THEN AtMost(MaxTemps, info[TempsAt(info) + 1]) ELSE 0
MainAt(info) ==
  IF Has(info, TempsAt(info), 1) THEN TempsAt(info) + 1 + 2 * TempCount(info)
                                 ELSE TempsAt(info)
FullAt(info) == MainAt(info) + 6
CountersAt(info) == FullAt(info) + 3

Truncated(info) ==
  \/ Len(info) < 10
  \/ ~Has(info, TempsAt(info), 0)
  \/ ~Has(info, MainAt(info), 0)

\* Fields that a short payload leaves out stay zero.
HasMain(info) == Has(info, MainAt(info), 6)
HasFull(info) == HasMain(info) /\ Has(info, FullAt(info), 3)
HasCounters(info) == HasFull(info) /\ Has(info, CountersAt(info), 4)

Cells(info) == [i \in 1..CellCount(info) |-> U16(info, 2 * i)]

DeciC(info, i) == U16(info, TempsAt(info) + 2 * i - 1) - TempOffset

\* By index, which stands for the label; a probe out of range is left out.
Temps(info) ==
  [i \in {j \in 1..TempCount(info) : DeciC(info, j) \in DeciCMin..DeciCMax}
     |-> DeciC(info, i)]

PackMA(info) == IF HasMain(info) THEN 10 * Signed(U16(info, MainAt(info))) ELSE 0
PackMV(info) == IF HasMain(info) THEN 10 * U16(info, MainAt(info) + 2) ELSE 0
RemainMAH(info) == IF HasMain(info) THEN 10 * U16(info, MainAt(info) + 4) ELSE 0
FullMAH(info) == IF HasFull(info) THEN 10 * U16(info, FullAt(info) + 1) ELSE 0
Counter(info, i) == IF HasCounters(info) THEN info[CountersAt(info) + 1 + i] ELSE 0

Implausible(info) ==
  \/ \E i \in 1..CellCount(info) : Cells(info)[i] \notin CellMVMin..CellMVMax
  \/ PackMV(info) \notin PackMVMin..PackMVMax

\* A secondary value out of its range is replaced by zero.
Nulled(value, lo, hi) == IF value < lo \/ value > hi THEN 0 ELSE value

Decoded(info) ==
  [cells |-> Cells(info), temps |-> Temps(info),
   ma |-> Nulled(PackMA(info), -CurrentMAMax, CurrentMAMax), mv |-> PackMV(info),
   remain |-> RemainMAH(info), full |-> FullMAH(info),
   cycles |-> Counter(info, 1),
   soc |-> Nulled(Counter(info, 2), 0, 100), soh |-> Nulled(Counter(info, 3), 0, 100)]

NoSample == [cells |-> <<>>, temps |-> <<>>, ma |-> 0, mv |-> 0, remain |-> 0, full |-> 0,
             cycles |-> 0, soc |-> 0, soh |-> 0]

ParseAnalog(info) ==
  IF Truncated(info) THEN [err |-> "framing", sample |-> NoSample]
  ELSE IF Implausible(info) THEN [err |-> "implausible", sample |-> NoSample]
  ELSE [err |-> "none", sample |-> Decoded(info)]
=============================================================================
