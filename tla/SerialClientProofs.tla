-------------------------- MODULE SerialClientProofs --------------------------
(***************************************************************************)
(* Proofs about SerialClient for all timeouts and every device: a poll     *)
(* takes no longer than its timeouts add up to, a sample answers the       *)
(* requests of its own poll if replies take less time than two polls are   *)
(* apart, and a poll whose replies come in time and undamaged is heard.    *)
(***************************************************************************)
EXTENDS SerialClient, SequenceTheorems, TLAPS

-----------------------------------------------------------------------------
(* Time *)

\* The time at which the n-th attempt may begin at the latest.
Ready(n) ==
  WakeTimeout + ReadTick + WakeSettle
    + IF n = 0 THEN 0 ELSE ReadTimeout + ReadTick + FlushDelay

\* What this poll has taken so far, and what it may take in its present phase.
Budget ==
  /\ phase = "wake" => attempt = 0 /\ spent + left <= WakeTimeout + ReadTick
  /\ phase = "sleep" => attempt < 2 /\ spent + left <= Ready(attempt)
  /\ phase = "read" =>
       attempt > 0 /\ spent + left <= Ready(attempt - 1) + ReadTimeout + ReadTick
  /\ spent <= MaxPoll

TimeInv ==
  /\ phase \in {"idle", "wake", "sleep", "read"}
  /\ left \in Nat /\ spent \in Nat
  /\ attempt \in 0..2
  /\ Budget

\* How an attempt that fails continues.
LEMMA FailsTimes ==
  ASSUME NEW err, NEW fl, NEW in, Fails(err, fl, in)
  PROVE  IF attempt' < 2 THEN phase' = "sleep" /\ left' = FlushDelay
                         ELSE phase' = "idle" /\ left' = MinIdle
BY DEF Fails, Returns, analogAttempts

\* After a read the client settles, sleeps before the next attempt, or returns.
ReadEnds ==
  /\ attempt' = attempt /\ spent' = spent
  /\ \/ phase = "wake" /\ phase' = "sleep" /\ left' = WakeSettle
     \/ phase = "read" /\ attempt' < 2 /\ phase' = "sleep" /\ left' = FlushDelay
     \/ phase = "read" /\ phase' = "idle" /\ left' = MinIdle

\* The three ways a read ends.
LEMMA ReadsEnd == ReadEOI \/ ReadTimesOut \/ ReadFails => ReadEnds
<1>1. ReadEOI => ReadEnds
  <2> SUFFICES ASSUME ReadEOI PROVE ReadEnds
    OBVIOUS
  <2>1. attempt' = attempt /\ spent' = spent
    BY DEF ReadEOI
  <2>2. CASE Settles
    BY <2>1, <2>2 DEF Settles, ReadEnds
  <2>3. CASE phase = "read" /\ \E v, rest : Returns(v, flight, rest)
    BY <2>1, <2>3 DEF Returns, ReadEnds
  <2>4. CASE phase = "read" /\ \E v, rest : Fails(v, flight, rest)
    BY <2>1, <2>4, FailsTimes DEF ReadEnds
  <2> QED
    BY <2>2, <2>3, <2>4 DEF ReadEOI, Ends, Answers
<1>2. ReadTimesOut => ReadEnds
  BY FailsTimes DEF ReadTimesOut, Settles, ReadEnds
<1>3. ReadFails => ReadEnds
  BY FailsTimes DEF ReadFails, Settles, ReadEnds
<1> QED
  BY <1>1, <1>2, <1>3

\* Every step preserves TimeInv.
LEMMA TimeStep == TimeInv /\ [Next]_vars => TimeInv'
<1> SUFFICES ASSUME TimeInv, [Next]_vars PROVE TimeInv'
  OBVIOUS
<1> USE TimesAssumption DEF TimeInv, Budget, Ready, MaxPoll, analogAttempts
<1>1. CASE UNCHANGED <<phase, left, attempt, spent>>
  BY <1>1
<1>2. CASE WakeIsSent \/ WakeFails
  <2>1. /\ spent' = 0 /\ attempt' = 0
        /\ \/ phase' = "wake" /\ left' = WakeTimeout + ReadTick
           \/ phase' = "sleep" /\ left' = 0
    BY <1>2 DEF WakeIsSent, WakeFails
  <2> QED
    BY <2>1
<1>3. CASE Exchange
  <2>1. /\ phase = "sleep" /\ left = 0 /\ attempt' = attempt + 1 /\ spent' = spent
        /\ phase' = "read" /\ left' = ReadTimeout + ReadTick
    BY <1>3 DEF Exchange
  <2> QED
    BY <2>1
<1>4. CASE ExchangeFails
  <2>1. /\ phase = "sleep" /\ left = 0 /\ attempt' = attempt + 1 /\ spent' = spent
        /\ IF attempt' < 2 THEN phase' = "sleep" /\ left' = FlushDelay
                           ELSE phase' = "idle" /\ left' = MinIdle
    BY <1>4, FailsTimes DEF ExchangeFails
  <2> QED
    BY <2>1
<1>5. CASE ReadEnds
  <2>1. CASE phase = "wake" /\ phase' = "sleep" /\ left' = WakeSettle
    BY <1>5, <2>1 DEF ReadEnds
  <2>2. CASE phase = "read" /\ attempt' < 2 /\ phase' = "sleep" /\ left' = FlushDelay
    BY <1>5, <2>2 DEF ReadEnds
  <2>3. CASE phase = "read" /\ phase' = "idle" /\ left' = MinIdle
    BY <1>5, <2>3 DEF ReadEnds
  <2> QED
    BY <1>5, <2>1, <2>2, <2>3 DEF ReadEnds
<1>6. CASE Pass
  <2>1. /\ phase' = phase /\ attempt' = attempt
        /\ left' = IF left > 0 THEN left - 1 ELSE 0
        /\ spent' = IF phase = "idle" THEN spent ELSE spent + 1
        /\ phase # "idle" => left > 0
    BY <1>6 DEF Pass, MayPass, Reading
  <2> QED
    BY <2>1
<1> QED
  BY <1>1, <1>2, <1>3, <1>4, <1>5, <1>6, ReadsEnd
     DEF Next, vars, Arrives, IsLost, ReadMore

-----------------------------------------------------------------------------
(* Whose replies they are *)

Prompt == MaxDelay < MinIdle

\* A reply that is owed while the client waits has been owed for the time that
\* it waited already.
OwedReply(t) == {r \in Reply : Prompt => r.left + MinIdle <= MaxDelay + t}
OwnReply == {r \in Reply : Prompt => r.own}
OwnPiece == {p \in Piece : Prompt => p.own}

Owed == IF phase = "idle" THEN OwedReply(left) ELSE OwnReply
Held == IF phase = "read" THEN OwnPiece ELSE Piece

\* Every reply of an earlier poll has come when the next one begins, and the
\* reset of the input buffer drops it before an analog reply is read.
DataInv ==
  /\ flight \in Seq(Owed)
  /\ input \in Seq(Held) /\ rx \in Seq(Held)
  /\ result \in {"none", "ok"} \cup Errors
  /\ fresh \in BOOLEAN /\ trouble \in BOOLEAN
  /\ Prompt => fresh

Inv == TimeInv /\ DataInv

\* The sequence s is taken apart within S.
LEMMA Parts ==
  ASSUME NEW S, NEW s \in Seq(S), NEW k \in 0..Len(s)
  PROVE  /\ SubSeq(s, 1, k) \in Seq(S) /\ Len(SubSeq(s, 1, k)) = k
         /\ SubSeq(s, k + 1, Len(s)) \in Seq(S)
<1>1. Len(s) \in Nat /\ \A i \in 1..Len(s) : s[i] \in S
  BY LenProperties, ElementOfSeq
<1>2. SubSeq(s, 1, k) \in Seq(S) /\ Len(SubSeq(s, 1, k)) = k
  <2>1. \A i \in 1..k : s[i] \in S
    BY <1>1
  <2>2. 1 \in Int /\ k \in Int
    BY <1>1
  <2> QED
    BY <2>1, <2>2, <1>1, SubSeqProperties
<1>3. SubSeq(s, k + 1, Len(s)) \in Seq(S)
  <2>1. \A i \in k + 1..Len(s) : s[i] \in S
    BY <1>1
  <2>2. k + 1 \in Int /\ Len(s) \in Int
    BY <1>1
  <2> QED
    BY <2>1, <2>2, SubSeqProperties
<1> QED
  BY <1>2, <1>3

\* What is decoded was read.
LEMMA CleanParts ==
  ASSUME NEW S, NEW s \in Seq(S), s # <<>>, NEW frame \in Clean(s)
  PROVE  frame \in Seq(S)
<1>1. PICK i \in 1..Len(s) : frame = SubSeq(s, i, Len(s))
  <2>1. DOMAIN s = 1..Len(s) /\ Len(s) \in Nat \ {0}
    BY LenProperties, EmptySeq
  <2> QED
    BY <2>1 DEF Clean, FirstSOI
<1>2. i - 1 \in 0..Len(s) /\ i - 1 + 1 = i
  BY <1>1, LenProperties
<1>3. SubSeq(s, i - 1 + 1, Len(s)) \in Seq(S)
  BY <1>2, Parts
<1> QED
  BY <1>1, <1>2, <1>3

\* Nothing is owed any more when a poll begins, if the device is prompt.
LEMMA NothingOwed ==
  ASSUME TimeInv, DataInv, phase = "idle", left = 0
  PROVE  flight \in Seq(OwnReply)
<1>1. CASE Prompt
  <2>1. flight \in Seq(OwedReply(0))
    BY DEF DataInv, Owed
  <2>2. OwedReply(0) \subseteq OwnReply
    <3> SUFFICES ASSUME NEW r \in OwedReply(0) PROVE FALSE
      OBVIOUS
    <3>1. r \in Reply /\ r.left + MinIdle <= MaxDelay + 0
      BY <1>1 DEF OwedReply
    <3>2. r.left \in 0..MaxDelay
      BY <3>1 DEF Reply
    <3> QED
      BY <3>1, <3>2, <1>1, TimesAssumption, DeviceAssumption DEF Prompt
  <2> QED
    BY <2>1, <2>2, SeqMonotonic
<1>2. CASE ~Prompt
  <2>1. OwedReply(left) \subseteq OwnReply
    BY <1>2 DEF OwedReply, OwnReply
  <2> QED
    BY <2>1, SeqMonotonic DEF DataInv, Owed
<1> QED
  BY <1>1, <1>2

\* What is done to a reply, and what remains of it.
LEMMA ReplyParts ==
  ASSUME NEW r \in Reply
  PROVE  /\ r.to \in Request /\ r.own \in BOOLEAN /\ r.left \in 0..MaxDelay
         /\ \A p \in {"front", "back"} : [to |-> r.to, own |-> r.own, part |-> p] \in Piece
         /\ [r EXCEPT !.part = "back"] \in Reply
         /\ [r EXCEPT !.part = "back"].own = r.own
         /\ [r EXCEPT !.part = "back"].left = r.left
         /\ [r EXCEPT !.own = FALSE] \in Reply
         /\ [r EXCEPT !.own = FALSE].left = r.left
         /\ r.left > 0 =>
              /\ [r EXCEPT !.left = r.left - 1] \in Reply
              /\ [r EXCEPT !.left = r.left - 1].own = r.own
              /\ [r EXCEPT !.left = r.left - 1].left = r.left - 1
<1> USE DeviceAssumption DEF Reply
<1>1. r.to \in Request /\ r.own \in BOOLEAN /\ r.left \in 0..MaxDelay
  OBVIOUS
<1>2. \A p \in {"front", "back"} : [to |-> r.to, own |-> r.own, part |-> p] \in Piece
  BY <1>1 DEF Piece
<1>3. /\ [r EXCEPT !.part = "back"] \in Reply
      /\ [r EXCEPT !.part = "back"].own = r.own
      /\ [r EXCEPT !.part = "back"].left = r.left
  OBVIOUS
<1>4. /\ [r EXCEPT !.own = FALSE] \in Reply
      /\ [r EXCEPT !.own = FALSE].left = r.left
  OBVIOUS
<1>5. ASSUME r.left > 0
      PROVE  /\ [r EXCEPT !.left = r.left - 1] \in Reply
             /\ [r EXCEPT !.left = r.left - 1].own = r.own
             /\ [r EXCEPT !.left = r.left - 1].left = r.left - 1
  <2>1. r.left - 1 \in 0..MaxDelay
    BY <1>1, <1>5
  <2> QED
    BY <2>1
<1> QED
  BY <1>1, <1>2, <1>3, <1>4, <1>5

\* The sets that replies are in are closed under what happens to a reply.
LEMMA FrontGoes ==
  ASSUME NEW S \in {OwnReply} \cup {OwedReply(t) : t \in Nat}, NEW r \in S
  PROVE  [r EXCEPT !.part = "back"] \in S
<1>1. r \in Reply
  BY DEF OwnReply, OwedReply
<1>2. /\ [r EXCEPT !.part = "back"] \in Reply
      /\ [r EXCEPT !.part = "back"].own = r.own /\ [r EXCEPT !.part = "back"].left = r.left
  BY <1>1, ReplyParts
<1> QED
  BY <1>2 DEF OwnReply, OwedReply

\* A request of this poll is owed an answer of its own.
LEMMA AskedIsOwn ==
  ASSUME flight \in Seq(OwnReply), NEW r \in Request
  PROVE  Asked(r) \in Seq(OwnReply)
<1>1. [to |-> r, own |-> TRUE, part |-> "whole", left |-> MaxDelay] \in OwnReply
  BY DeviceAssumption DEF OwnReply, Reply
<1> QED
  BY <1>1, AppendProperties DEF Asked

\* After a poll the client waits for MinIdle before it asks again.
LEMMA Waits ==
  ASSUME NEW fl \in Seq(OwnReply), NEW in \in Seq(Piece), NEW res, Returns(res, fl, in)
  PROVE  flight' \in Seq(OwedReply(MinIdle)) /\ input' \in Seq(Piece)
<1>1. \A i \in 1..Len(fl) : [fl[i] EXCEPT !.own = FALSE] \in OwedReply(MinIdle)
  <2> SUFFICES ASSUME NEW i \in 1..Len(fl)
               PROVE  [fl[i] EXCEPT !.own = FALSE] \in OwedReply(MinIdle)
    OBVIOUS
  <2>1. fl[i] \in Reply
    BY ElementOfSeq DEF OwnReply
  <2>2. /\ [fl[i] EXCEPT !.own = FALSE] \in Reply
        /\ [fl[i] EXCEPT !.own = FALSE].left \in 0..MaxDelay
    BY <2>1, ReplyParts
  <2>3. [fl[i] EXCEPT !.own = FALSE].left + MinIdle <= MaxDelay + MinIdle
    BY <2>2, TimesAssumption, DeviceAssumption
  <2> QED
    BY <2>2, <2>3 DEF OwedReply
<1>2. \A i \in 1..Len(in) : [in[i] EXCEPT !.own = FALSE] \in Piece
  <2> SUFFICES ASSUME NEW i \in 1..Len(in) PROVE [in[i] EXCEPT !.own = FALSE] \in Piece
    OBVIOUS
  <2>1. in[i] \in Piece
    BY ElementOfSeq
  <2> QED
    BY <2>1 DEF Piece
<1>3. DOMAIN fl = 1..Len(fl) /\ Len(fl) \in Nat /\ DOMAIN in = 1..Len(in) /\ Len(in) \in Nat
  BY LenProperties
<1>4. Foreign(fl) \in Seq(OwedReply(MinIdle))
  BY <1>1, <1>3, IsASeq DEF Foreign
<1>5. Foreign(in) \in Seq(Piece)
  BY <1>2, <1>3, IsASeq DEF Foreign
<1> QED
  BY <1>4, <1>5 DEF Returns

\* What is held is a piece in every phase.
LEMMA PiecesAreHeld == Seq(Held) \subseteq Seq(Piece) /\ <<>> \in Seq(Held)
<1>1. Held \subseteq Piece
  BY DEF Held, OwnPiece
<1> QED
  BY <1>1, SeqMonotonic, EmptySeq

\* The verdicts on a frame are results of Poll.
LEMMA Results == {"timeout", "framing", "bms", "implausible", "serial"} = Errors
BY DEF Errors

\* What a poll that returns leaves behind.
LEMMA ReturnsData ==
  ASSUME flight \in Seq(OwnReply), NEW in \in Seq(Piece), NEW res \in {"ok"} \cup Errors,
         NEW fl \in {flight} \cup {Asked(r) : r \in Request},
         rx' = <<>>, trouble' \in BOOLEAN, fresh' \in BOOLEAN, Prompt => fresh',
         Returns(res, fl, in)
  PROVE  DataInv'
<1>1. fl \in Seq(OwnReply)
  BY AskedIsOwn
<1>2. flight' \in Seq(OwedReply(MinIdle)) /\ input' \in Seq(Piece)
  BY <1>1, Waits
<1>3. phase' = "idle" /\ left' = MinIdle /\ result' = res
  BY DEF Returns
<1>4. Owed' = OwedReply(MinIdle) /\ Held' = Piece
  BY <1>3 DEF Owed, Held, OwedReply, Prompt, Piece, Reply
<1> QED
  BY <1>2, <1>3, <1>4, EmptySeq DEF DataInv

\* The same of an attempt that fails.
LEMMA FailsData ==
  ASSUME DataInv, phase # "idle", NEW in \in Seq(Piece), NEW err \in Errors,
         NEW fl \in {flight} \cup {Asked(r) : r \in Request},
         rx' = <<>>, trouble' \in BOOLEAN, Fails(err, fl, in)
  PROVE  DataInv'
<1>1. flight \in Seq(OwnReply) /\ fl \in Seq(OwnReply)
  BY AskedIsOwn DEF DataInv, Owed
<1>2. fresh' = fresh /\ fresh \in BOOLEAN /\ (Prompt => fresh)
  BY DEF Fails, DataInv
<1>3. CASE attempt' < analogAttempts
  <2>1. /\ phase' = "sleep" /\ flight' = fl /\ input' = in /\ result' = result
    BY <1>3 DEF Fails
  <2>2. Owed' = OwnReply /\ Held' = Piece
    BY <2>1 DEF Owed, Held, OwnReply, Prompt, Piece, Reply
  <2> QED
    BY <1>1, <1>2, <2>1, <2>2, EmptySeq DEF DataInv
<1>4. CASE ~(attempt' < analogAttempts)
  <2>1. Returns(err, fl, in)
    BY <1>4 DEF Fails
  <2> QED
    BY <1>1, <1>2, <2>1, ReturnsData
<1> QED
  BY <1>3, <1>4

\* What the device sends, and what the line loses, was owed.
LEMMA LineData == DataInv /\ TimeInv /\ (Arrives \/ IsLost) => DataInv'
<1> SUFFICES ASSUME DataInv, TimeInv, Arrives \/ IsLost PROVE DataInv'
  OBVIOUS
<1>1. flight \in Seq(Owed) /\ flight # <<>> /\ input \in Seq(Held)
  BY DEF DataInv, Arrives, IsLost
<1>2. Head(flight) \in Owed /\ Tail(flight) \in Seq(Owed) /\ 1 \in 1..Len(flight)
      /\ Head(flight) = flight[1]
  BY <1>1, HeadTailProperties, EmptySeq
<1>3. FrontGone \in Seq(Owed)
  <2>1. Owed \in {OwnReply} \cup {OwedReply(t) : t \in Nat}
    BY DEF Owed, TimeInv
  <2>2. [Head(flight) EXCEPT !.part = "back"] \in Owed
    BY <1>2, <2>1, FrontGoes
  <2> QED
    BY <1>1, <1>2, <2>2, ExceptSeq DEF FrontGone
<1>4. ASSUME NEW p \in {"front", "back"} PROVE Part(p) \in Held
  <2>1. Head(flight) \in Reply /\ (phase # "idle" /\ Prompt => Head(flight).own)
    BY <1>2 DEF Owed, OwnReply, OwedReply
  <2>2. Part(p) \in Piece
    BY <2>1, ReplyParts DEF Part
  <2>3. Part(p).own = Head(flight).own
    BY DEF Part
  <2> QED
    BY <2>1, <2>2, <2>3 DEF Held, OwnPiece
<1>5. /\ flight' \in Seq(Owed) /\ input' \in Seq(Held)
      /\ phase' = phase /\ left' = left /\ rx' = rx /\ result' = result /\ fresh' = fresh
      /\ trouble' \in BOOLEAN
  <2>1. CASE IsLost
    BY <2>1, <1>1, <1>2, <1>3 DEF IsLost, DataInv
  <2>2. CASE Arrives
    <3>1. input \o <<Part("front"), Part("back")>> \in Seq(Held)
      BY <1>1, <1>4, ConcatProperties
    <3>2. Append(input, Part("front")) \in Seq(Held) /\ Append(input, Part("back")) \in Seq(Held)
      BY <1>1, <1>4, AppendProperties
    <3> QED
      BY <2>2, <3>1, <3>2, <1>2, <1>3 DEF Arrives, DataInv
  <2> QED
    BY <2>1, <2>2
<1>6. Owed' = Owed /\ Held' = Held
  BY <1>5 DEF Owed, Held, OwedReply, OwnReply, OwnPiece, Prompt, Piece, Reply
<1> QED
  BY <1>5, <1>6 DEF DataInv

\* A poll begins with nothing owed to an earlier one.
LEMMA WakeData == DataInv /\ TimeInv /\ (WakeIsSent \/ WakeFails) => DataInv'
<1> SUFFICES ASSUME DataInv, TimeInv, WakeIsSent \/ WakeFails PROVE DataInv'
  OBVIOUS
<1>1. /\ phase = "idle" /\ left = 0 /\ rx' = <<>> /\ result' = result /\ fresh' = fresh
      /\ phase' \in {"wake", "sleep"}
  BY DEF WakeIsSent, WakeFails
<1>2. flight \in Seq(OwnReply)
  BY <1>1, NothingOwed
<1>3. flight' \in Seq(OwnReply)
  <2>1. Asked("wake") \in Seq(OwnReply)
    BY <1>2, AskedIsOwn DEF Request
  <2> QED
    BY <1>2, <2>1 DEF WakeIsSent, WakeFails
<1>4. input' \in Seq(Piece) /\ rx' \in Seq(Piece)
  <2>1. input \in Seq(Piece) /\ <<>> \in Seq(Piece)
    BY PiecesAreHeld DEF DataInv
  <2> QED
    BY <2>1, <1>1 DEF WakeIsSent, WakeFails
<1>5. trouble' \in BOOLEAN
  BY DEF WakeIsSent, WakeFails, DataInv, Torn
<1>6. Owed' = OwnReply /\ Held' = Piece
  BY <1>1 DEF Owed, Held, OwnReply, Prompt, Piece, Reply
<1> QED
  BY <1>1, <1>3, <1>4, <1>5, <1>6 DEF DataInv

\* The request is written after the reset of the input buffer.
LEMMA ExchangeData == DataInv /\ TimeInv /\ (Exchange \/ ExchangeFails) => DataInv'
<1> SUFFICES ASSUME DataInv, TimeInv, Exchange \/ ExchangeFails PROVE DataInv'
  OBVIOUS
<1>1. phase = "sleep" /\ flight \in Seq(OwnReply) /\ ThisRequest \in Request
  BY DEF Exchange, ExchangeFails, DataInv, Owed, ThisRequest, Request
<1>2. CASE Exchange
  <2>1. Asked(ThisRequest) \in Seq(OwnReply)
    BY <1>1, AskedIsOwn
  <2>2. /\ phase' = "read" /\ rx' = <<>> /\ input' = <<>> /\ flight' \in Seq(OwnReply)
        /\ result' = result /\ fresh' = fresh
    BY <1>1, <1>2, <2>1 DEF Exchange
  <2>3. trouble' \in BOOLEAN
    BY <1>2 DEF Exchange, DataInv, Torn
  <2>4. Owed' = OwnReply /\ Held' = OwnPiece
    BY <2>2 DEF Owed, Held, OwnReply, OwnPiece, Prompt, Piece, Reply
  <2> QED
    BY <2>2, <2>3, <2>4, EmptySeq DEF DataInv
<1>3. CASE ExchangeFails
  <2>1. PICK fl \in {flight, Asked(ThisRequest)}, in \in {input, <<>>} : Fails("serial", fl, in)
    BY <1>3 DEF ExchangeFails
  <2>2. fl \in {flight} \cup {Asked(r) : r \in Request} /\ in \in Seq(Piece)
    BY <1>1, <2>1, PiecesAreHeld DEF DataInv
  <2>3. rx' = <<>> /\ trouble' = TRUE
    BY <1>3 DEF ExchangeFails
  <2> QED
    BY <1>1, <2>1, <2>2, <2>3, FailsData, Results
<1> QED
  BY <1>2, <1>3

\* After the wake-up nothing of what was read is kept.
LEMMA SettlesData ==
  ASSUME DataInv, Settles, input' \in Seq(Piece), rx' = <<>>
  PROVE  DataInv'
<1>1. /\ phase = "wake" /\ phase' = "sleep" /\ flight' = flight /\ result' = result
      /\ fresh' = fresh /\ trouble' = trouble
  BY DEF Settles
<1>2. Owed = OwnReply /\ Owed' = OwnReply /\ Held' = Piece
  BY <1>1 DEF Owed, Held, OwnReply, Prompt, Piece, Reply
<1> QED
  BY <1>1, <1>2, EmptySeq DEF DataInv

\* Reads that bring no EOI.
LEMMA ReadData == DataInv /\ TimeInv /\ (ReadTimesOut \/ ReadFails \/ ReadMore) => DataInv'
<1> SUFFICES ASSUME DataInv, TimeInv, ReadTimesOut \/ ReadFails \/ ReadMore PROVE DataInv'
  OBVIOUS
<1>1. input \in Seq(Piece) /\ trouble \in BOOLEAN
  BY PiecesAreHeld DEF DataInv
<1>2. CASE ReadTimesOut
  BY <1>1, <1>2, SettlesData, FailsData, Results DEF ReadTimesOut
<1>3. CASE ReadFails
  BY <1>1, <1>3, SettlesData, FailsData, Results DEF ReadFails
<1>4. CASE ReadMore
  <2>1. PICK k \in 1..Len(input) :
          /\ rx' = rx \o SubSeq(input, 1, k)
          /\ input' = SubSeq(input, k + 1, Len(input))
    BY <1>4 DEF ReadMore
  <2>2. input \in Seq(Held) /\ rx \in Seq(Held) /\ k \in 0..Len(input)
    BY <2>1, <1>1, LenProperties DEF DataInv
  <2>3. rx' \in Seq(Held) /\ input' \in Seq(Held)
    BY <2>1, <2>2, Parts, ConcatProperties
  <2>4. /\ phase' = phase /\ left' = left /\ flight' = flight /\ result' = result
        /\ fresh' = fresh /\ trouble' = trouble
    BY <1>4 DEF ReadMore
  <2>5. Owed' = Owed /\ Held' = Held
    BY <2>4 DEF Owed, Held, OwedReply, OwnReply, OwnPiece, Prompt, Piece, Reply
  <2> QED
    BY <2>3, <2>4, <2>5 DEF DataInv
<1> QED
  BY <1>2, <1>3, <1>4

\* The Read that brings the EOI.
LEMMA FrameData == DataInv /\ TimeInv /\ ReadEOI => DataInv'
<1> SUFFICES ASSUME DataInv, TimeInv, ReadEOI PROVE DataInv'
  OBVIOUS
<1>0. PICK k \in 1..Len(input) : \E eoi \in FirstEOI(SubSeq(input, 1, k)) : Ends(k, eoi)
  BY DEF ReadEOI
<1>1. PICK eoi \in FirstEOI(SubSeq(input, 1, k)) : Ends(k, eoi)
  BY <1>0
<1> DEFINE chunk == SubSeq(input, 1, k)
           rest  == SubSeq(input, k + 1, Len(input))
           torn  == rest = <<>> /\ Torn(SubSeq(chunk, eoi + 1, k))
<1>2. rx' = <<>> /\ trouble \in BOOLEAN /\ torn \in BOOLEAN
  BY DEF ReadEOI, DataInv, Torn
<1>3. chunk \in Seq(Held) /\ rest \in Seq(Held) /\ Len(chunk) = k /\ rest \in Seq(Piece)
  <2>1. input \in Seq(Held) /\ k \in 0..Len(input)
    BY <1>1, LenProperties DEF DataInv
  <2> QED
    BY <2>1, Parts, PiecesAreHeld
<1>4. CASE Settles /\ input' = rest
  BY <1>2, <1>3, <1>4, SettlesData
<1>5. CASE phase = "read" /\ \E frame \in Clean(rx \o SubSeq(chunk, 1, eoi)) :
                                   Answers(frame, rest, torn)
  <2>0. PICK frame \in Clean(rx \o SubSeq(chunk, 1, eoi)) : Answers(frame, rest, torn)
    BY <1>5
  <2>1. PICK v \in Verdicts(frame) :
          /\ trouble' = (trouble \/ torn \/ Refuses(frame, v))
          /\ \/ /\ v = "ok"
                /\ Returns(v, flight, rest)
                /\ fresh' = \A i \in DOMAIN frame : frame[i].own
             \/ /\ v # "ok"
                /\ Fails(v, flight, rest)
    BY <2>0 DEF Answers
  <2>2. trouble' \in BOOLEAN
    BY <1>2, <2>1 DEF Refuses, Intact
  <2>3. frame \in Seq(OwnPiece)
    <3>1. Held = OwnPiece
      BY <1>5 DEF Held
    <3>2. rx \in Seq(OwnPiece) /\ chunk \in Seq(OwnPiece)
      BY <1>3, <3>1 DEF DataInv
    <3>3. eoi \in 1..k /\ eoi \in 0..Len(chunk)
      BY <1>1, <1>3, LenProperties DEF FirstEOI
    <3>4. SubSeq(chunk, 1, eoi) \in Seq(OwnPiece) /\ Len(SubSeq(chunk, 1, eoi)) = eoi
      BY <3>2, <3>3, Parts
    <3> DEFINE upto == SubSeq(chunk, 1, eoi)
    <3> HIDE DEF upto
    <3>5. rx \o upto \in Seq(OwnPiece) /\ Len(rx \o upto) = Len(rx) + Len(upto)
      BY <3>2, <3>4, ConcatProperties DEF upto
    <3>6. Len(rx) \in Nat /\ Len(upto) \in Nat \ {0}
      BY <3>2, <3>3, <3>4, LenProperties DEF upto
    <3>7. rx \o upto \in Seq(OwnPiece) /\ rx \o upto # <<>>
      BY <3>5, <3>6, EmptySeq
    <3> QED
      BY <2>0, <3>7, CleanParts DEF upto
  <2>4. v \in {"ok"} \cup Errors
    BY <2>1, Results DEF Verdicts
  <2>5. CASE v = "ok" /\ Returns(v, flight, rest) /\ fresh' = \A i \in DOMAIN frame : frame[i].own
    <3>1. fresh' \in BOOLEAN
      BY <2>5
    <3>2. Prompt => fresh'
      <4>1. DOMAIN frame = 1..Len(frame)
        BY <2>3, LenProperties
      <4>2. ASSUME Prompt, NEW i \in 1..Len(frame) PROVE frame[i].own
        BY <2>3, <4>2, ElementOfSeq DEF OwnPiece
      <4> QED
        BY <2>5, <4>1, <4>2
    <3>3. flight \in Seq(OwnReply)
      BY <1>5 DEF DataInv, Owed
    <3> QED
      BY <1>2, <1>3, <2>2, <2>4, <2>5, <3>1, <3>2, <3>3, ReturnsData
  <2>6. CASE v # "ok" /\ Fails(v, flight, rest)
    BY <1>2, <1>3, <1>5, <2>2, <2>4, <2>6, FailsData
  <2> QED
    BY <2>1, <2>5, <2>6
<1> QED
  BY <1>1, <1>4, <1>5 DEF Ends

\* A reply that an earlier poll is owed comes before the wait is over.
LEMMA PassData == DataInv /\ TimeInv /\ Pass => DataInv'
<1> SUFFICES ASSUME DataInv, TimeInv, Pass PROVE DataInv'
  OBVIOUS
<1>1. /\ phase' = phase /\ input' = input /\ rx' = rx /\ result' = result /\ fresh' = fresh
      /\ left' = IF left > 0 THEN left - 1 ELSE 0
      /\ flight' = [i \in DOMAIN flight |-> [flight[i] EXCEPT !.left = flight[i].left - 1]]
      /\ trouble' = (trouble \/ \E i \in DOMAIN flight : IsLate(flight'[i]))
      /\ \A i \in DOMAIN flight : flight[i].left > 0
      /\ left \in Nat
  BY DEF Pass, MayPass, TimeInv
<1>2. flight \in Seq(Owed) /\ DOMAIN flight = 1..Len(flight) /\ Len(flight) \in Nat
  BY LenProperties DEF DataInv
<1>3. Held' = Held
  BY <1>1 DEF Held, OwnPiece, Prompt, Piece
<1>4. trouble' \in BOOLEAN
  BY <1>1 DEF DataInv
<1>5. CASE phase = "idle" /\ left = 0 /\ Prompt
  <2>1. flight = <<>>
    <3> SUFFICES ASSUME flight # <<>> PROVE FALSE
      OBVIOUS
    <3>1. Head(flight) \in OwedReply(0)
      BY <1>2, <1>5, HeadTailProperties DEF Owed
    <3>2. Head(flight) \in Reply /\ Head(flight).left + MinIdle <= MaxDelay + 0
      BY <3>1, <1>5 DEF OwedReply
    <3>3. Head(flight).left \in 0..MaxDelay
      BY <3>2, ReplyParts
    <3> QED
      BY <3>2, <3>3, <1>5, TimesAssumption, DeviceAssumption DEF Prompt
  <2>2. flight' = <<>>
    BY <1>1, <2>1
  <2> QED
    BY <1>1, <1>3, <1>4, <2>2, EmptySeq DEF DataInv
<1>6. CASE ~(phase = "idle" /\ left = 0 /\ Prompt)
  <2>1. ASSUME NEW i \in 1..Len(flight)
        PROVE  [flight[i] EXCEPT !.left = flight[i].left - 1] \in Owed'
    <3>1. flight[i] \in Owed /\ flight[i].left > 0
      BY <1>1, <1>2, ElementOfSeq
    <3>2. flight[i] \in Reply
      BY <3>1 DEF Owed, OwedReply, OwnReply
    <3> DEFINE r == [flight[i] EXCEPT !.left = flight[i].left - 1]
    <3>3. /\ r \in Reply /\ r.own = flight[i].own /\ r.left = flight[i].left - 1
          /\ flight[i].left \in 0..MaxDelay
      BY <3>1, <3>2, ReplyParts
    <3>4. CASE phase = "idle"
      <4>1. Prompt => flight[i].left + MinIdle <= MaxDelay + left
        BY <3>1, <3>4 DEF Owed, OwedReply
      <4>2. Prompt => left' = left - 1
        BY <1>1, <1>6, <3>4
      <4>3. Prompt => r.left + MinIdle <= MaxDelay + left'
        <5> SUFFICES ASSUME Prompt PROVE r.left + MinIdle <= MaxDelay + left'
          OBVIOUS
        <5>1. flight[i].left + MinIdle <= MaxDelay + left /\ left' = left - 1
          BY <4>1, <4>2
        <5>2. left \in Nat /\ flight[i].left \in Int
          BY <1>1, <3>3, DeviceAssumption
        <5>3. r.left = flight[i].left - 1
          BY <3>3
        <5> HIDE DEF r
        <5> QED
          BY <5>1, <5>2, <5>3, TimesAssumption, DeviceAssumption
      <4>4. Owed' = {q \in Reply : Prompt => q.left + MinIdle <= MaxDelay + left'}
        BY <1>1, <3>4 DEF Owed, OwedReply, Prompt, Reply
      <4> QED
        BY <3>3, <4>3, <4>4
    <3>5. CASE phase # "idle"
      <4>1. Prompt => r.own
        BY <3>1, <3>3, <3>5 DEF Owed, OwnReply
      <4>2. Owed' = OwnReply
        BY <1>1, <3>5 DEF Owed, OwnReply, Prompt, Reply
      <4> QED
        BY <3>3, <4>1, <4>2 DEF OwnReply
    <3> QED
      BY <3>4, <3>5
  <2>2. flight' \in Seq(Owed')
    BY <1>1, <1>2, <2>1, IsASeq
  <2> QED
    BY <1>1, <1>3, <1>4, <2>2 DEF DataInv
<1> QED
  BY <1>5, <1>6

-----------------------------------------------------------------------------
(* What is still to come *)

Front(t) == [to |-> t, own |-> TRUE, part |-> "front"]
Back(t) == [to |-> t, own |-> TRUE, part |-> "back"]

\* The pieces of a reply that have not arrived.
ToCome(r) == IF r.part = "whole" THEN <<Front(r.to), Back(r.to)>> ELSE <<Back(r.to)>>

\* The pieces of the replies that are owed, of which there are two at most.
Coming(fl) ==
  CASE Len(fl) = 0 -> <<>>
    [] Len(fl) = 1 -> ToCome(fl[1])
    [] OTHER -> ToCome(fl[1]) \o ToCome(fl[2])

\* What was read, is in the input buffer, and is to come.
InARow(r, in, c) == r \o (in \o c)

\* All pieces that a read may still see, if it lasts long enough.
Stream == InARow(rx, input, Coming(flight))

\* The two pieces of a reply.
LEMMA PieceIs ==
  ASSUME NEW t \in Request
  PROVE  /\ Front(t) \in Piece /\ ~IsBack(Front(t)) /\ Front(t).to = t
         /\ Back(t) \in Piece /\ IsBack(Back(t)) /\ Back(t).to = t
         /\ Front(t).own /\ Back(t).own
         /\ t # "wake" => IsOurs(Front(t)) /\ IsOurs(Back(t))
BY DEF Front, Back, Piece, IsBack, IsOurs

\* Short sequences.
LEMMA Short ==
  ASSUME NEW S, NEW a \in S, NEW b \in S
  PROVE  /\ <<a>> \in Seq(S) /\ Len(<<a>>) = 1 /\ <<a>>[1] = a
         /\ <<a, b>> \in Seq(S) /\ Len(<<a, b>>) = 2 /\ <<a, b>>[1] = a /\ <<a, b>>[2] = b
         /\ <<a>> \o <<b>> = <<a, b>>
<1>1. <<a>> \in Seq(S) /\ Len(<<a>>) = 1 /\ <<a>>[1] = a
  OBVIOUS
<1>2. <<a, b>> \in Seq(S) /\ Len(<<a, b>>) = 2 /\ <<a, b>>[1] = a /\ <<a, b>>[2] = b
  OBVIOUS
<1>3. <<b>> \in Seq(S) /\ Len(<<b>>) = 1 /\ <<b>>[1] = b
  OBVIOUS
<1> DEFINE x == <<a>>
           y == <<b>>
           z == <<a, b>>
<1>4. x \in Seq(S) /\ y \in Seq(S) /\ z \in Seq(S) /\ Len(x) = 1 /\ Len(y) = 1 /\ Len(z) = 2
      /\ x[1] = a /\ y[1] = b /\ z[1] = a /\ z[2] = b
  BY <1>1, <1>2, <1>3
<1> HIDE DEF x, y, z
<1>5. x \o y \in Seq(S) /\ Len(x \o y) = Len(x) + Len(y)
      /\ \A i \in 1..Len(x) + Len(y) : (x \o y)[i] = IF i <= Len(x) THEN x[i] ELSE y[i - Len(x)]
  BY <1>4, ConcatProperties
<1>6. Len(x \o y) = 2 /\ (x \o y)[1] = a /\ (x \o y)[2] = b
  BY <1>4, <1>5
<1>7. x \o y = z
  BY <1>4, <1>5, <1>6, SeqEqual
<1> QED
  BY <1>1, <1>2, <1>7 DEF x, y, z

\* The pieces of a reply, one or two.
LEMMA ToComeIs ==
  ASSUME NEW r \in Reply
  PROVE  /\ ToCome(r) \in Seq(Piece)
         /\ r.part = "whole" =>
              /\ Len(ToCome(r)) = 2 /\ ToCome(r)[1] = Front(r.to) /\ ToCome(r)[2] = Back(r.to)
              /\ ToCome(r) = <<Front(r.to), Back(r.to)>>
         /\ r.part # "whole" =>
              Len(ToCome(r)) = 1 /\ ToCome(r)[1] = Back(r.to) /\ ToCome(r) = <<Back(r.to)>>
<1>1. r.to \in Request
  BY DEF Reply
<1>2. Front(r.to) \in Piece /\ Back(r.to) \in Piece
  BY <1>1, PieceIs
<1> QED
  BY <1>2, Short DEF ToCome

\* The pieces of two replies at most.
LEMMA ComingIs ==
  ASSUME NEW fl \in Seq(Reply), Len(fl) <= 2
  PROVE  /\ Coming(fl) \in Seq(Piece)
         /\ Len(fl) = 0 => Coming(fl) = <<>>
         /\ Len(fl) = 1 => Coming(fl) = ToCome(fl[1])
         /\ Len(fl) = 2 => Coming(fl) = ToCome(fl[1]) \o ToCome(fl[2])
<1>1. Len(fl) = 0 \/ Len(fl) = 1 \/ Len(fl) = 2
  <2>1. Len(fl) \in Nat
    BY LenProperties
  <2>2. \A n \in Nat : n <= 2 => n = 0 \/ n = 1 \/ n = 2
    OBVIOUS
  <2> QED
    BY ONLY <2>1, <2>2, Len(fl) <= 2
<1>2. CASE Len(fl) = 0
  BY <1>2, EmptySeq DEF Coming
<1>3. CASE Len(fl) = 1
  <2>1. fl[1] \in Reply
    BY <1>3, ElementOfSeq
  <2> QED
    BY <1>3, <2>1, ToComeIs DEF Coming
<1>4. CASE Len(fl) = 2
  <2>1. fl[1] \in Reply /\ fl[2] \in Reply
    BY <1>4, ElementOfSeq
  <2>2. ToCome(fl[1]) \in Seq(Piece) /\ ToCome(fl[2]) \in Seq(Piece)
    BY <2>1, ToComeIs
  <2>3. Coming(fl) = ToCome(fl[1]) \o ToCome(fl[2])
    BY <1>4 DEF Coming
  <2> QED
    BY <1>4, <2>2, <2>3, ConcatProperties
<1> QED
  BY <1>1, <1>2, <1>3, <1>4

\* The replies fl without the front of the first.
Cut(fl) == [fl EXCEPT ![1].part = "back"]

\* What follows the first reply, and what follows its front.
LEMMA HeadGoes ==
  ASSUME NEW fl \in Seq(Reply), fl # <<>>, Len(fl) <= 2
  PROVE  /\ Head(fl) = fl[1] /\ Head(fl) \in Reply
         /\ Tail(fl) \in Seq(Reply) /\ Len(Tail(fl)) = Len(fl) - 1
         /\ Len(fl) = 2 => Tail(fl)[1] = fl[2]
         /\ Cut(fl) \in Seq(Reply) /\ Len(Cut(fl)) = Len(fl) /\ Cut(fl)[1].part = "back"
         /\ Cut(fl)[1].to = fl[1].to /\ Cut(fl)[1].own = fl[1].own /\ Cut(fl)[1].left = fl[1].left
         /\ Len(fl) = 2 => Cut(fl)[2] = fl[2]
         /\ fl[1].part = "whole" =>
              /\ Coming(fl) = <<Front(fl[1].to), Back(fl[1].to)>> \o Coming(Tail(fl))
              /\ Coming(fl) = <<Front(fl[1].to)>> \o Coming(Cut(fl))
         /\ fl[1].part # "whole" => Coming(fl) = <<Back(fl[1].to)>> \o Coming(Tail(fl))
<1> DEFINE tl == Tail(fl)
           gone == Cut(fl)
           t == fl[1].to
<1>1. Len(fl) = 1 \/ Len(fl) = 2
  <2>1. Len(fl) \in Nat \ {0}
    BY EmptySeq
  <2>2. \A n \in Nat \ {0} : n <= 2 => n = 1 \/ n = 2
    OBVIOUS
  <2> QED
    BY ONLY <2>1, <2>2, Len(fl) <= 2
<1>2. /\ Head(fl) = fl[1] /\ Head(fl) \in Reply
      /\ tl \in Seq(Reply) /\ Len(tl) = Len(fl) - 1
      /\ Len(fl) = 2 => tl[1] = fl[2]
  BY <1>1, HeadTailProperties
<1> HIDE DEF tl, gone, t
<1> DEFINE r == [fl[1] EXCEPT !.part = "back"]
<1>3. r \in Reply /\ r.part = "back" /\ r.to = t /\ r.own = fl[1].own /\ r.left = fl[1].left
  <2>1. fl[1] \in Reply
    BY <1>2
  <2>2. fl[1].to = t
    BY DEF t
  <2>3. r.part = "back" /\ r.to = fl[1].to
    BY <2>1 DEF Reply
  <2> QED
    BY <2>1, <2>2, <2>3, ReplyParts
<1>4. gone = [fl EXCEPT ![1] = r]
  BY <1>1 DEF gone, Cut
<1> HIDE DEF r
<1>5. /\ gone \in Seq(Reply) /\ Len(gone) = Len(fl) /\ gone[1] = r
      /\ Len(fl) = 2 => gone[2] = fl[2]
  BY <1>1, <1>3, <1>4, ExceptSeq
<1>6. fl[1].to = t /\ t \in Request /\ Front(t) \in Piece /\ Back(t) \in Piece
  BY <1>2, PieceIs DEF Reply, t
<1>7. /\ <<Front(t)>> \in Seq(Piece) /\ <<Back(t)>> \in Seq(Piece)
      /\ <<Front(t), Back(t)>> \in Seq(Piece) /\ <<Front(t)>> \o <<Back(t)>> = <<Front(t), Back(t)>>
  BY <1>6, Short
<1>12. /\ Coming(tl) \in Seq(Piece)
       /\ Len(fl) = 1 => Coming(tl) = <<>>
       /\ Len(fl) = 2 => Coming(tl) = ToCome(fl[2])
  <2>1. tl \in Seq(Reply) /\ Len(tl) <= 2
    BY <1>1, <1>2
  <2>2. /\ Coming(tl) \in Seq(Piece)
        /\ Len(tl) = 0 => Coming(tl) = <<>>
        /\ Len(tl) = 1 => Coming(tl) = ToCome(tl[1])
    BY ONLY <2>1, ComingIs
  <2> QED
    BY <1>2, <2>2
<1>8. Coming(tl) \in Seq(Piece) /\ Coming(fl) = ToCome(fl[1]) \o Coming(tl)
  <2>1. CASE Len(fl) = 1
    <3>1. Coming(tl) = <<>> /\ <<>> \in Seq(Piece)
      BY <1>12, <2>1, EmptySeq
    <3>2. Coming(fl) = ToCome(fl[1]) /\ ToCome(fl[1]) \in Seq(Piece)
      BY <1>2, <2>1, ComingIs, ToComeIs
    <3> QED
      BY <3>1, <3>2, ConcatEmptySeq
  <2>2. CASE Len(fl) = 2
    <3>1. Coming(tl) = ToCome(fl[2]) /\ Coming(tl) \in Seq(Piece)
      BY <1>12, <2>2
    <3>2. Coming(fl) = ToCome(fl[1]) \o ToCome(fl[2])
      BY <2>2, ComingIs
    <3> QED
      BY <3>1, <3>2
  <2> QED
    BY <1>1, <2>1, <2>2
<1>9. Coming(gone) = <<Back(t)>> \o Coming(tl)
  <2>0. ToCome(r) = <<Back(t)>>
    BY <1>3, ToComeIs
  <2>1. CASE Len(fl) = 1
    <3>1. Coming(tl) = <<>>
      BY <1>12, <2>1
    <3>2. Coming(gone) = <<Back(t)>>
      BY <1>5, <2>0, <2>1, ComingIs
    <3> QED
      BY <1>7, <3>1, <3>2, ConcatEmptySeq
  <2>2. CASE Len(fl) = 2
    <3>1. Coming(tl) = ToCome(fl[2])
      BY <1>12, <2>2
    <3>2. Coming(gone) = ToCome(gone[1]) \o ToCome(gone[2])
      BY <1>5, <2>2, ComingIs
    <3> QED
      BY <1>5, <2>0, <2>2, <3>1, <3>2
  <2> QED
    BY <1>1, <2>1, <2>2
<1>10. ASSUME fl[1].part = "whole"
       PROVE  /\ Coming(fl) = <<Front(t), Back(t)>> \o Coming(tl)
              /\ Coming(fl) = <<Front(t)>> \o Coming(gone)
  <2>1. ToCome(fl[1]) = <<Front(t), Back(t)>>
    BY <1>2, <1>6, <1>10, ToComeIs
  <2>2. (<<Front(t)>> \o <<Back(t)>>) \o Coming(tl) = <<Front(t)>> \o (<<Back(t)>> \o Coming(tl))
    BY <1>7, <1>8, ConcatAssociative
  <2> QED
    BY <1>7, <1>8, <1>9, <2>1, <2>2
<1>11. ASSUME fl[1].part # "whole" PROVE Coming(fl) = <<Back(t)>> \o Coming(tl)
  BY <1>2, <1>6, <1>8, <1>11, ToComeIs
<1> QED
  BY <1>2, <1>3, <1>5, <1>6, <1>10, <1>11 DEF tl, gone, t

\* The pieces of the stream, by who has them.
LEMMA StreamIs ==
  ASSUME NEW r \in Seq(Piece), NEW i \in Seq(Piece), NEW c \in Seq(Piece),
         NEW s, s = r \o (i \o c)
  PROVE  /\ s \in Seq(Piece) /\ Len(s) = Len(r) + Len(i) + Len(c)
         /\ Len(r) \in Nat /\ Len(i) \in Nat /\ Len(c) \in Nat
         /\ \A j \in 1..Len(r) : s[j] = r[j]
         /\ \A j \in 1..Len(i) : s[Len(r) + j] = i[j]
         /\ \A j \in 1..Len(c) : s[Len(r) + Len(i) + j] = c[j]
<1> DEFINE ic == i \o c
<1>1. ic \in Seq(Piece) /\ Len(ic) = Len(i) + Len(c)
      /\ \A j \in 1..Len(i) + Len(c) : ic[j] = IF j <= Len(i) THEN i[j] ELSE c[j - Len(i)]
  BY ConcatProperties
<1>2. s = r \o ic
  OBVIOUS
<1>3. Len(r) \in Nat /\ Len(i) \in Nat /\ Len(c) \in Nat
  BY LenProperties
<1> HIDE DEF ic
<1>4. s \in Seq(Piece) /\ Len(s) = Len(r) + Len(ic)
      /\ \A j \in 1..Len(r) + Len(ic) : s[j] = IF j <= Len(r) THEN r[j] ELSE ic[j - Len(r)]
  <2>1. ic \in Seq(Piece)
    BY <1>1
  <2> QED
    BY ONLY <1>2, <2>1, r \in Seq(Piece), ConcatProperties
<1>5. \A j \in 1..Len(r) : s[j] = r[j]
  BY <1>1, <1>3, <1>4
<1>6. \A j \in 1..Len(i) + Len(c) : s[Len(r) + j] = ic[j]
  BY <1>1, <1>3, <1>4
<1>7. \A j \in 1..Len(i) : s[Len(r) + j] = i[j]
  BY <1>1, <1>3, <1>6
<1>8. \A j \in 1..Len(c) : s[Len(r) + Len(i) + j] = c[j]
  <2> SUFFICES ASSUME NEW j \in 1..Len(c) PROVE s[Len(r) + Len(i) + j] = c[j]
    OBVIOUS
  <2>1. Len(i) + j \in 1..Len(i) + Len(c) /\ ~(Len(i) + j <= Len(i)) /\ Len(i) + j - Len(i) = j
    BY <1>3
  <2>2. s[Len(r) + (Len(i) + j)] = c[j]
    BY <1>1, <1>6, <2>1
  <2>3. Len(r) + (Len(i) + j) = Len(r) + Len(i) + j
    BY <1>3
  <2> QED
    BY <2>2, <2>3
<1> QED
  BY <1>1, <1>3, <1>4, <1>5, <1>7, <1>8

\* Pieces that are read, and pieces that arrive, stay where they are in the row.
LEMMA Moves ==
  ASSUME NEW r \in Seq(Piece), NEW x \in Seq(Piece), NEW in \in Seq(Piece), NEW c \in Seq(Piece)
  PROVE  /\ InARow(r \o x, in, c) = InARow(r, x \o in, c)
         /\ InARow(r, in \o x, c) = InARow(r, in, x \o c)
<1>1. PICK w \in Seq(Piece) : w = in \o c
  BY ConcatProperties
<1>2. (r \o x) \o w = r \o (x \o w)
  BY ConcatAssociative, SMTT(60)
<1>3. (x \o in) \o c = x \o (in \o c)
  BY ConcatAssociative, SMTT(60)
<1>4. (in \o x) \o c = in \o (x \o c)
  BY ConcatAssociative, SMTT(60)
<1> QED
  BY ONLY <1>1, <1>2, <1>3, <1>4 DEF InARow

\* How much is to come.
LEMMA ComingLength ==
  ASSUME NEW fl \in Seq(Reply), Len(fl) <= 2
  PROVE  /\ Len(Coming(fl)) \in Nat
         /\ fl = <<>> => Coming(fl) = <<>> /\ Len(Coming(fl)) = 0
         /\ Len(fl) = 1 =>
              /\ fl[1].part = "whole" =>
                   /\ Len(Coming(fl)) = 2
                   /\ Coming(fl)[1] = Front(fl[1].to) /\ Coming(fl)[2] = Back(fl[1].to)
              /\ fl[1].part # "whole" => Len(Coming(fl)) = 1 /\ Coming(fl)[1] = Back(fl[1].to)
         /\ Len(fl) = 2 /\ fl[2].part = "whole" =>
              LET n == Len(Coming(fl)) IN
              /\ n = 3 \/ (n = 4 /\ Coming(fl)[1] = Front(fl[1].to))
              /\ fl[1].part = "whole" => n = 4 /\ Coming(fl)[2] = Back(fl[1].to)
              /\ fl[1].part # "whole" => n = 3
              /\ Coming(fl)[n - 1] = Front(fl[2].to) /\ Coming(fl)[n] = Back(fl[2].to)
<1>1. Coming(fl) \in Seq(Piece) /\ Len(Coming(fl)) \in Nat
  BY ComingIs, LenProperties
<1>2. fl = <<>> => Coming(fl) = <<>> /\ Len(Coming(fl)) = 0
  BY ComingIs, EmptySeq
<1>3. ASSUME Len(fl) = 1
      PROVE  /\ fl[1].part = "whole" =>
                  /\ Len(Coming(fl)) = 2
                  /\ Coming(fl)[1] = Front(fl[1].to) /\ Coming(fl)[2] = Back(fl[1].to)
             /\ fl[1].part # "whole" => Len(Coming(fl)) = 1 /\ Coming(fl)[1] = Back(fl[1].to)
  <2>1. fl[1] \in Reply
    BY <1>3, ElementOfSeq
  <2>2. Coming(fl) = ToCome(fl[1])
    BY <1>3, ComingIs
  <2> QED
    BY <2>1, <2>2, ToComeIs
<1>4. ASSUME Len(fl) = 2, fl[2].part = "whole", NEW n, n = Len(Coming(fl))
      PROVE  /\ n = 3 \/ (n = 4 /\ Coming(fl)[1] = Front(fl[1].to))
             /\ fl[1].part = "whole" => n = 4 /\ Coming(fl)[2] = Back(fl[1].to)
             /\ fl[1].part # "whole" => n = 3
             /\ Coming(fl)[n - 1] = Front(fl[2].to) /\ Coming(fl)[n] = Back(fl[2].to)
  <2>0. Len(fl) = 2 /\ fl[2].part = "whole" /\ n = Len(Coming(fl))
    BY <1>4
  <2>1. fl[1] \in Reply /\ fl[2] \in Reply
    <3>1. 1 \in 1..2 /\ 2 \in 1..2
      OBVIOUS
    <3>2. \A i \in 1..Len(fl) : fl[i] \in Reply
      BY ElementOfSeq
    <3> QED
      BY ONLY <2>0, <3>1, <3>2
  <2> DEFINE a == ToCome(fl[1])
             b == ToCome(fl[2])
  <2>2. Coming(fl) = a \o b
    BY <2>0, ComingIs
  <2>3. /\ a \in Seq(Piece) /\ b \in Seq(Piece)
        /\ Len(b) = 2 /\ b[1] = Front(fl[2].to) /\ b[2] = Back(fl[2].to)
        /\ fl[1].part = "whole" => Len(a) = 2 /\ a[1] = Front(fl[1].to) /\ a[2] = Back(fl[1].to)
        /\ fl[1].part # "whole" => Len(a) = 1
    BY <2>0, <2>1, ToComeIs
  <2> HIDE DEF a, b
  <2>4. /\ Len(a \o b) = Len(a) + Len(b)
        /\ \A i \in 1..Len(a) + Len(b) : (a \o b)[i] = IF i <= Len(a) THEN a[i] ELSE b[i - Len(a)]
    BY ONLY <2>3, ConcatProperties
  <2>5. CASE fl[1].part = "whole"
    <3>1. Len(a) = 2 /\ n = 4
      BY <2>0, <2>2, <2>3, <2>4, <2>5
    <3>2. /\ (a \o b)[1] = a[1] /\ (a \o b)[2] = a[2]
          /\ (a \o b)[3] = b[1] /\ (a \o b)[4] = b[2]
      BY <2>3, <2>4, <3>1
    <3> QED
      BY <2>2, <2>3, <2>5, <3>1, <3>2
  <2>6. CASE fl[1].part # "whole"
    <3>0. Len(a) = 1 /\ Len(b) = 2
      BY <2>3, <2>6
    <3>1. Len(a) = 1 /\ n = 3
      BY ONLY <2>0, <2>2, <2>4, <3>0
    <3>2. (a \o b)[2] = b[1] /\ (a \o b)[3] = b[2]
      BY <2>3, <2>4, <3>1
    <3> QED
      BY <2>2, <2>3, <2>6, <3>1, <3>2
  <2> QED
    BY <2>5, <2>6
<1> QED
  BY <1>1, <1>2, <1>3, <1>4

-----------------------------------------------------------------------------
(* The invariant *)

\* Nothing that the retry cannot make up for has happened in this poll.
Calm == ~trouble /\ Prompt /\ ReadTimeout > 0

\* The reply that the read waits for.
Asking == IF attempt = 1 THEN "first" ELSE "second"

\* The replies that are owed during a read: the one that it waits for is the last,
\* has not been cut, and comes before the deadline.
Due ==
  /\ Len(flight) <= 2
  /\ Len(flight) = 2 => flight[2].part = "whole" /\ (attempt = 2 => flight[1].to = "first")
  /\ flight # <<>> =>
       /\ flight[Len(flight)].to = Asking
       /\ flight[Len(flight)].left + ReadTimeout + ReadTick = MaxDelay + left
  /\ left > ReadTick

\* What the read gets to see ends with the reply that it waits for.  Before that
\* there is in the first attempt what the wake-up has left, in the second perhaps
\* the whole reply to the first.
Expected(s) ==
  /\ Len(s) >= 2 /\ s[Len(s) - 1] = Front(Asking) /\ s[Len(s)] = Back(Asking)
  /\ attempt = 1 => \A i \in 1..Len(s) - 3 : ~IsBack(s[i])
  /\ attempt = 2 =>
       Len(s) = 2 \/ (Len(s) = 4 /\ s[1] = Front("first") /\ s[2] = Back("first"))

\* Between the attempts a reply to the first may be owed still.  If it has come in
\* part, the reset is going to cut it.
HalfWay ==
  flight # <<>> =>
    /\ flight[1].to = "first"
    /\ flight[1].part # "whole" => input # <<>> /\ input[Len(input)] = Front("first")

CalmInv ==
  /\ phase = "idle" => result \in {"none", "ok"}
  /\ phase \in {"wake", "sleep"} => Len(flight) <= 1
  /\ phase = "sleep" /\ attempt = 1 => HalfWay
  /\ phase = "read" => Due /\ Expected(Stream)

\* What has been read so far has no end.
NoEnd ==
  /\ \A i \in DOMAIN rx : ~IsBack(rx[i])
  /\ phase \in {"idle", "sleep"} => rx = <<>>

HeardInv == NoEnd /\ (Calm => CalmInv)

-----------------------------------------------------------------------------
(* Steps *)

\* During a poll everything that is owed or held is of this poll.
LEMMA Owns ==
  ASSUME Inv, Prompt, phase # "idle"
  PROVE  /\ flight \in Seq(Reply) /\ Len(flight) \in Nat
         /\ \A i \in 1..Len(flight) : flight[i] \in Reply /\ flight[i].own
         /\ input \in Seq(Piece) /\ rx \in Seq(Piece)
<1>1. flight \in Seq(OwnReply)
  BY DEF Inv, DataInv, Owed
<1>2. OwnReply \subseteq Reply /\ \A r \in OwnReply : r.own
  BY DEF OwnReply
<1>3. flight \in Seq(Reply) /\ Len(flight) \in Nat
  BY <1>1, <1>2, SeqMonotonic, LenProperties
<1>4. \A i \in 1..Len(flight) : flight[i] \in Reply /\ flight[i].own
  BY <1>1, <1>2, ElementOfSeq
<1>5. input \in Seq(Piece) /\ rx \in Seq(Piece)
  BY PiecesAreHeld DEF Inv, DataInv
<1> QED
  BY <1>3, <1>4, <1>5

\* A device that is prompt owes nothing when a poll begins.
LEMMA NothingOwedAtAll ==
  ASSUME Inv, Prompt, phase = "idle", left = 0
  PROVE  flight = <<>>
<1> SUFFICES ASSUME flight # <<>> PROVE FALSE
  OBVIOUS
<1>1. Head(flight) \in OwedReply(0)
  BY HeadTailProperties DEF Inv, DataInv, Owed
<1>2. Head(flight) \in Reply /\ Head(flight).left + MinIdle <= MaxDelay + 0
  BY <1>1 DEF OwedReply
<1>3. Head(flight).left \in 0..MaxDelay
  BY <1>2, ReplyParts
<1> QED
  BY <1>2, <1>3, TimesAssumption, DeviceAssumption DEF Prompt

\* The wake-up begins with nothing owed.
LEMMA WakeHeard == Inv /\ HeardInv /\ (WakeIsSent \/ WakeFails) => HeardInv'
<1> SUFFICES ASSUME Inv, HeardInv, WakeIsSent \/ WakeFails PROVE HeardInv'
  OBVIOUS
<1>1. /\ phase = "idle" /\ left = 0 /\ rx' = <<>> /\ attempt' = 0
      /\ phase' \in {"wake", "sleep"} /\ flight' \in {flight, Asked("wake")}
  BY DEF WakeIsSent, WakeFails
<1>2. NoEnd'
  BY <1>1, EmptySeq DEF NoEnd
<1>3. ASSUME Prompt PROVE Len(flight') <= 1
  <2>1. flight = <<>>
    BY <1>1, <1>3, NothingOwedAtAll
  <2>2. Len(flight) = 0 /\ Len(Asked("wake")) = 1
    <3> DEFINE e == [to |-> "wake", own |-> TRUE, part |-> "whole", left |-> MaxDelay]
    <3>1. e \in Reply
      BY DeviceAssumption DEF Reply, Request
    <3> HIDE DEF e
    <3>2. Len(Append(<<>>, e)) = Len(<<>>) + 1 /\ Len(<<>>) = 0
      BY <3>1, EmptySeq, AppendProperties
    <3>3. Asked("wake") = Append(<<>>, e)
      BY <2>1 DEF Asked, e
    <3> QED
      BY <2>1, <3>2, <3>3
  <2>3. Len(flight') = 0 \/ Len(flight') = 1
    BY ONLY <1>1, <2>2
  <2>4. \A n : n = 0 \/ n = 1 => n <= 1
    OBVIOUS
  <2> QED
    BY ONLY <2>3, <2>4
<1>4. Calm' => CalmInv'
  BY <1>1, <1>3 DEF Calm, CalmInv, Prompt
<1> QED
  BY <1>2, <1>4 DEF HeardInv

\* A wake-up that is over leaves one reply at most behind.
LEMMA SettlesHeard ==
  ASSUME Inv, HeardInv, Settles, rx' = <<>>, attempt' = attempt
  PROVE  HeardInv'
<1>1. /\ phase = "wake" /\ phase' = "sleep" /\ flight' = flight /\ trouble' = trouble
      /\ attempt' = 0
  BY DEF Settles, Inv, TimeInv, Budget
<1>2. NoEnd'
  BY EmptySeq DEF NoEnd
<1>3. Calm' => CalmInv'
  BY <1>1 DEF Calm, CalmInv, Prompt, HeardInv
<1> QED
  BY <1>2, <1>3 DEF HeardInv

\* The deadline does not come before the reply.
LEMMA TimeoutHeard == Inv /\ HeardInv /\ (ReadTimesOut \/ ReadFails \/ ExchangeFails) => HeardInv'
<1> SUFFICES ASSUME Inv, HeardInv, ReadTimesOut \/ ReadFails \/ ExchangeFails PROVE HeardInv'
  OBVIOUS
<1>1. rx' = <<>>
  BY DEF ReadTimesOut, ReadFails, ExchangeFails
<1>2. NoEnd'
  BY <1>1, EmptySeq DEF NoEnd
<1>3. CASE Settles /\ attempt' = attempt
  BY <1>1, <1>3, SettlesHeard
<1>4. CASE trouble' = TRUE
  BY <1>2, <1>4 DEF HeardInv, Calm
<1>5. CASE phase = "read" /\ left <= ReadTick /\ trouble' = trouble
  <2>1. ~Calm
    <3> SUFFICES ASSUME Calm PROVE FALSE
      OBVIOUS
    <3>1. left > ReadTick /\ left \in Nat /\ ReadTick \in Nat
      BY <1>5, TimesAssumption DEF HeardInv, CalmInv, Due, Inv, TimeInv
    <3> QED
      BY <1>5, <3>1
  <2> QED
    BY <1>2, <1>5, <2>1 DEF HeardInv, Calm, Prompt
<1> QED
  BY <1>3, <1>4, <1>5 DEF ReadTimesOut, ReadFails, ExchangeFails

\* What the first reply of a calm poll is, and what remains when some of it goes.
LEMMA CalmFlight ==
  ASSUME Inv, HeardInv, Calm, phase # "idle", flight # <<>>
  PROVE  /\ Len(flight) = 1 \/ (Len(flight) = 2 /\ phase = "read" /\ flight[2].part = "whole")
         /\ Head(flight) = flight[1] /\ flight[1] \in Reply /\ flight[1].own = TRUE
         /\ Tail(flight) \in Seq(Reply) /\ Len(Tail(flight)) = Len(flight) - 1
         /\ Len(flight) = 2 => Tail(flight)[1] = flight[2]
         /\ FrontGone \in Seq(Reply) /\ Len(FrontGone) = Len(flight)
         /\ FrontGone[1].part = "back" /\ FrontGone[1].to = flight[1].to
         /\ FrontGone[1].left = flight[1].left
         /\ Len(flight) = 2 => FrontGone[2] = flight[2]
         /\ flight[1].part = "whole" =>
              /\ Coming(flight) = <<Front(flight[1].to), Back(flight[1].to)>> \o Coming(Tail(flight))
              /\ Coming(flight) = <<Front(flight[1].to)>> \o Coming(FrontGone)
         /\ flight[1].part # "whole" =>
              Coming(flight) = <<Back(flight[1].to)>> \o Coming(Tail(flight))
<1>1. /\ flight \in Seq(Reply)
      /\ \A i \in 1..Len(flight) : flight[i] \in Reply /\ flight[i].own
  BY Owns DEF Calm
<1>2. Len(flight) \in Nat \ {0}
  BY <1>1, EmptySeq
<1>3. \/ phase \in {"wake", "sleep"} /\ Len(flight) <= 1
      \/ phase = "read" /\ Len(flight) <= 2 /\ (Len(flight) = 2 => flight[2].part = "whole")
  BY DEF HeardInv, CalmInv, Due, Inv, TimeInv
<1>4. \A n \in Nat \ {0} : (n <= 1 => n = 1) /\ (n <= 2 => n = 1 \/ n = 2)
  OBVIOUS
<1>5. Len(flight) = 1 \/ (Len(flight) = 2 /\ phase = "read" /\ flight[2].part = "whole")
  BY ONLY <1>2, <1>3, <1>4
<1>6. \A n : n = 1 \/ n = 2 => n <= 2 /\ 1 \in 1..n
  OBVIOUS
<1>7. Len(flight) <= 2 /\ 1 \in 1..Len(flight)
  BY ONLY <1>5, <1>6
<1>8. flight[1] \in Reply /\ flight[1].own = TRUE
  <2>1. flight[1] \in Reply /\ flight[1].own
    BY ONLY <1>1, <1>7
  <2> QED
    BY <2>1 DEF Reply
<1>9. FrontGone = Cut(flight)
  BY DEF FrontGone, Cut
<1>10. flight \in Seq(Reply) /\ flight # <<>> /\ Len(flight) <= 2
  BY <1>1, <1>7
<1> QED
  BY ONLY <1>5, <1>8, <1>9, <1>10, HeadGoes

\* A piece that arrives is one that was to come.
LEMMA ArrivesHeard == Inv /\ HeardInv /\ Arrives => HeardInv'
<1> SUFFICES ASSUME Inv, HeardInv, Arrives PROVE HeardInv'
  OBVIOUS
<1>1. /\ flight # <<>> /\ phase' = phase /\ left' = left /\ attempt' = attempt /\ rx' = rx
      /\ result' = result /\ trouble' = trouble
  BY DEF Arrives
<1>2. NoEnd'
  BY <1>1 DEF NoEnd, HeardInv, IsBack
<1>3. ASSUME Calm PROVE CalmInv'
  <2>1. CalmInv
    BY <1>3 DEF HeardInv
  <2>2. CASE phase = "idle"
    BY <1>1, <2>1, <2>2 DEF CalmInv
  <2>3. CASE phase # "idle"
    <3> DEFINE t == flight[1].to
    <3>1. /\ Len(flight) = 1 \/ (Len(flight) = 2 /\ phase = "read" /\ flight[2].part = "whole")
          /\ Head(flight) = flight[1] /\ flight[1] \in Reply /\ flight[1].own = TRUE
          /\ Tail(flight) \in Seq(Reply) /\ Len(Tail(flight)) = Len(flight) - 1
          /\ Len(flight) = 2 => Tail(flight)[1] = flight[2]
          /\ FrontGone \in Seq(Reply) /\ Len(FrontGone) = Len(flight)
          /\ FrontGone[1].part = "back" /\ FrontGone[1].to = t /\ FrontGone[1].left = flight[1].left
          /\ Len(flight) = 2 => FrontGone[2] = flight[2]
      BY <1>1, <1>3, <2>3, CalmFlight
    <3>2. /\ flight[1].part = "whole" =>
               /\ Coming(flight) = <<Front(t), Back(t)>> \o Coming(Tail(flight))
               /\ Coming(flight) = <<Front(t)>> \o Coming(FrontGone)
          /\ flight[1].part # "whole" => Coming(flight) = <<Back(t)>> \o Coming(Tail(flight))
      BY <1>1, <1>3, <2>3, CalmFlight
    <3>3. Part("front") = Front(t) /\ Part("back") = Back(t)
      BY <3>1 DEF Part, Front, Back
    <3>4. input \in Seq(Piece) /\ rx \in Seq(Piece) /\ flight \in Seq(Reply)
      BY <1>3, <2>3, Owns DEF Calm
    <3>5. t \in Request /\ Front(t) \in Piece /\ Back(t) \in Piece
      BY <3>1, PieceIs DEF Reply
    <3>6. \E X \in Seq(Piece) :
            /\ input' = input \o X /\ Coming(flight) = X \o Coming(flight')
            /\ \/ flight' = Tail(flight)
               \/ flight' = FrontGone /\ input' = Append(input, Front(t))
      <4>1. /\ <<Front(t)>> \in Seq(Piece) /\ <<Back(t)>> \in Seq(Piece)
            /\ <<Front(t), Back(t)>> \in Seq(Piece)
        BY <3>5, Short
      <4>2. /\ Append(input, Front(t)) = input \o <<Front(t)>>
            /\ Append(input, Back(t)) = input \o <<Back(t)>>
        BY <3>4, <3>5, AppendIsConcat
      <4>3. CASE Head(flight).part = "whole" /\ flight' = Tail(flight)
                 /\ input' = input \o <<Part("front"), Part("back")>>
        BY <3>1, <3>2, <3>3, <4>1, <4>3
      <4>4. CASE Head(flight).part = "whole" /\ flight' = FrontGone
                 /\ input' = Append(input, Part("front"))
        BY <3>1, <3>2, <3>3, <4>1, <4>2, <4>4
      <4>5. CASE Head(flight).part = "back" /\ flight' = Tail(flight)
                 /\ input' = Append(input, Part("back"))
        BY <3>1, <3>2, <3>3, <4>1, <4>2, <4>5
      <4> QED
        BY <4>3, <4>4, <4>5 DEF Arrives
    <3>7. PICK X \in Seq(Piece) :
            /\ input' = input \o X /\ Coming(flight) = X \o Coming(flight')
            /\ \/ flight' = Tail(flight)
               \/ flight' = FrontGone /\ input' = Append(input, Front(t))
      BY <3>6
    <3>8. /\ flight' \in Seq(Reply)
          /\ Len(flight) = 1 => Len(flight') \in {0, 1}
          /\ Len(flight) = 2 => Len(flight') \in {1, 2}
          /\ Len(flight') = 2 => flight'[2] = flight[2] /\ flight'[1].to = flight[1].to
          /\ flight' # <<>> => /\ flight'[Len(flight')].to = flight[Len(flight)].to
                               /\ flight'[Len(flight')].left = flight[Len(flight)].left
      <4>1. CASE flight' = Tail(flight)
        <5>1. CASE Len(flight) = 1
          <6>1. Len(Tail(flight)) = 0 /\ Tail(flight) \in Seq(Reply)
            BY <3>1, <5>1
          <6>2. Tail(flight) = <<>>
            BY <6>1, EmptySeq
          <6> QED
            BY <4>1, <5>1, <6>1, <6>2
        <5>2. CASE Len(flight) = 2
          <6>1. Len(Tail(flight)) = 1 /\ Tail(flight)[1] = flight[2] /\ Tail(flight) \in Seq(Reply)
            <7>1. 2 - 1 = 1
              OBVIOUS
            <7> QED
              BY ONLY <3>1, <5>2, <7>1
          <6> QED
            BY <4>1, <5>2, <6>1
        <5> QED
          BY <3>1, <5>1, <5>2
      <4>2. CASE flight' = FrontGone
        BY <3>1, <4>2
      <4> QED
        BY <3>7, <4>1, <4>2
    <3>9. Stream' = Stream
      <4>1. \A n : n \in {0, 1} \/ n \in {1, 2} => n <= 2
        OBVIOUS
      <4>2. Len(flight') <= 2
        BY ONLY <3>1, <3>8, <4>1
      <4>3. Coming(flight') \in Seq(Piece)
        BY ONLY <3>8, <4>2, ComingIs
      <4>4. InARow(rx, input \o X, Coming(flight')) = InARow(rx, input, X \o Coming(flight'))
        BY <3>4, <4>3, Moves
      <4> QED
        BY <1>1, <3>7, <4>4 DEF Stream
    <3>10. CASE phase \in {"wake", "sleep"}
      <4>1. Len(flight) = 1
        BY <3>1, <3>10
      <4>2. \A n : n \in {0, 1} => n <= 1
        OBVIOUS
      <4>3. Len(flight') <= 1
        BY ONLY <3>8, <4>1, <4>2
      <4>4. ASSUME phase = "sleep", attempt = 1 PROVE HalfWay'
        <5>1. t = "first"
          BY <1>1, <2>1, <4>4 DEF CalmInv, HalfWay
        <5>2. CASE flight' = Tail(flight)
          <6>1. Len(Tail(flight)) = 0 /\ Tail(flight) \in Seq(Reply)
            BY <3>1, <4>1
          <6>2. flight' = <<>>
            BY <5>2, <6>1, EmptySeq
          <6> QED
            BY <6>2 DEF HalfWay
        <5>3. CASE flight' = FrontGone /\ input' = Append(input, Front(t))
          <6>1. /\ input' \in Seq(Piece) /\ Len(input') = Len(input) + 1 /\ Len(input) \in Nat
                /\ input'[Len(input) + 1] = Front("first")
            BY <3>4, <3>5, <5>1, <5>3, AppendProperties, LenProperties
          <6>2. input' # <<>>
            BY <6>1, EmptySeq
          <6>3. flight'[1].to = "first"
            BY <3>1, <5>1, <5>3
          <6> QED
            BY <6>1, <6>2, <6>3 DEF HalfWay
        <5> QED
          BY <3>7, <5>2, <5>3
      <4> QED
        BY <1>1, <3>10, <4>3, <4>4 DEF CalmInv
    <3>11. CASE phase = "read"
      <4>1. Due /\ Expected(Stream)
        BY <2>1, <3>11 DEF CalmInv
      <4>2. \A n : n \in {0, 1} \/ n \in {1, 2} => n <= 2
        OBVIOUS
      <4>3. Len(flight') <= 2
        BY ONLY <3>1, <3>8, <4>2
      <4>4. Len(flight') = 2 => Len(flight) = 2
        BY <3>1, <3>8
      <4>5. Due'
        BY <1>1, <3>8, <4>1, <4>3, <4>4 DEF Due, Asking
      <4>6. Expected(Stream)'
        BY <1>1, <3>9, <4>1 DEF Expected, Asking, IsBack
      <4> QED
        BY <1>1, <3>11, <4>5, <4>6 DEF CalmInv
    <3> QED
      BY <2>3, <3>10, <3>11 DEF Inv, TimeInv
  <2> QED
    BY <2>2, <2>3
<1> QED
  BY <1>1, <1>2, <1>3 DEF HeardInv, Calm, Prompt

\* A part of the wake-up's reply that the line loses is not missed.
LEMMA LostHeard == Inv /\ HeardInv /\ IsLost => HeardInv'
<1> SUFFICES ASSUME Inv, HeardInv, IsLost PROVE HeardInv'
  OBVIOUS
<1>1. /\ flight # <<>> /\ phase' = phase /\ left' = left /\ attempt' = attempt /\ rx' = rx
      /\ input' = input /\ result' = result /\ trouble' = (trouble \/ IsOurs(Head(flight)))
      /\ flight' = Tail(flight) \/ (flight' = FrontGone /\ Head(flight).part = "whole")
  BY DEF IsLost
<1>2. NoEnd'
  BY <1>1 DEF NoEnd, HeardInv, IsBack
<1>3. ASSUME Calm, ~IsOurs(Head(flight)) PROVE CalmInv'
  <2>1. CalmInv
    BY <1>3 DEF HeardInv
  <2>2. CASE phase = "idle"
    BY <1>1, <2>1, <2>2 DEF CalmInv
  <2>3. CASE phase # "idle"
    <3>1. /\ Len(flight) = 1 \/ (Len(flight) = 2 /\ phase = "read" /\ flight[2].part = "whole")
          /\ Head(flight) = flight[1] /\ flight[1] \in Reply /\ flight[1].own = TRUE
          /\ Tail(flight) \in Seq(Reply) /\ Len(Tail(flight)) = Len(flight) - 1
          /\ Len(flight) = 2 => Tail(flight)[1] = flight[2]
          /\ FrontGone \in Seq(Reply) /\ Len(FrontGone) = Len(flight)
          /\ FrontGone[1].part = "back" /\ FrontGone[1].to = flight[1].to
          /\ Len(flight) = 2 => FrontGone[2] = flight[2]
      BY <1>1, <1>3, <2>3, CalmFlight
    <3>2. flight[1].to = "wake"
      BY <1>3, <3>1 DEF IsOurs
    <3>3. CASE phase \in {"wake", "sleep"}
      <4>1. Len(flight) = 1
        BY <3>1, <3>3
      <4>2. 1 - 1 <= 1 /\ 1 <= 1
        OBVIOUS
      <4>3. Len(flight') <= 1
        BY ONLY <1>1, <3>1, <4>1, <4>2
      <4>4. ~(phase = "sleep" /\ attempt = 1)
        BY <1>1, <2>1, <3>2 DEF CalmInv, HalfWay
      <4> QED
        BY <1>1, <3>3, <4>3, <4>4 DEF CalmInv
    <3>4. CASE phase = "read"
      <4>1. Due /\ Expected(Stream) /\ attempt \in {1, 2}
        BY <2>1, <3>4 DEF CalmInv, Inv, TimeInv, Budget
      <4>2. Len(flight) = 2 /\ flight[2].part = "whole" /\ attempt = 1 /\ flight[2].to = "first"
            /\ flight[2].left + ReadTimeout + ReadTick = MaxDelay + left
        <5>1. Len(flight) # 1
          BY <1>1, <3>2, <4>1 DEF Due, Asking
        <5>2. Len(flight) = 2 /\ flight[2].part = "whole"
          BY <3>1, <5>1
        <5>3. attempt = 1
          BY <3>2, <4>1, <5>2 DEF Due
        <5> QED
          BY <1>1, <4>1, <5>2, <5>3 DEF Due, Asking
      <4> DEFINE c == Coming(flight)
                 d == Coming(flight')
      <4>3. /\ flight' \in Seq(Reply)
            /\ \/ Len(flight') = 1 /\ flight'[1] = flight[2]
               \/ Len(flight') = 2 /\ flight'[2] = flight[2] /\ flight'[1].part = "back"
        <5>1. CASE flight' = Tail(flight)
          <6>1. 2 - 1 = 1
            OBVIOUS
          <6> QED
            BY ONLY <3>1, <4>2, <5>1, <6>1
        <5>2. CASE flight' = FrontGone
          BY <3>1, <4>2, <5>2
        <5> QED
          BY <1>1, <5>1, <5>2
      <4>4. \A n : n = 1 \/ n = 2 => n <= 2
        OBVIOUS
      <4>5. Len(flight') <= 2 /\ Len(flight) <= 2 /\ flight \in Seq(Reply)
        BY <1>3, <2>3, <4>2, <4>3, <4>4, Owns DEF Calm
      <4>6. /\ d \in Seq(Piece) /\ Len(d) \in {2, 3}
            /\ d[Len(d) - 1] = Front("first") /\ d[Len(d)] = Back("first")
        <5>1. d \in Seq(Piece)
          BY ONLY <4>3, <4>5, ComingIs
        <5>2. CASE Len(flight') = 1 /\ flight'[1] = flight[2]
          <6>1. Len(d) = 2 /\ d[1] = Front("first") /\ d[2] = Back("first")
            BY ONLY <4>2, <4>3, <4>5, <5>2, ComingLength
          <6> QED
            BY <5>1, <6>1
        <5>3. CASE Len(flight') = 2 /\ flight'[2] = flight[2] /\ flight'[1].part = "back"
          <6>1. /\ Len(d) = 3
                /\ d[Len(d) - 1] = Front("first") /\ d[Len(d)] = Back("first")
            <7>1. flight'[2].part = "whole" /\ flight'[1].part # "whole" /\ flight'[2].to = "first"
              BY <4>2, <5>3
            <7> QED
              BY ONLY <4>3, <4>5, <5>3, <7>1, ComingLength
          <6> QED
            BY <5>1, <6>1
        <5> QED
          BY <4>3, <5>2, <5>3
      <4>7. c \in Seq(Piece) /\ Len(c) \in {3, 4} /\ Len(d) <= Len(c)
        <5>1. c \in Seq(Piece)
          BY ONLY <4>5, ComingIs
        <5>2. Len(c) \in {3, 4}
          BY ONLY <4>2, <4>5, ComingLength
        <5> QED
          BY <4>6, <5>1, <5>2
      <4> DEFINE s == Stream
                 u == rx \o (input \o d)
      <4>8. Stream' = u /\ s = rx \o (input \o c)
        BY <1>1 DEF Stream, InARow
      <4>9. rx \in Seq(Piece) /\ input \in Seq(Piece)
        BY <1>3, <2>3, Owns DEF Calm
      <4> HIDE DEF c, d, s, u
      <4>10. /\ Len(s) = Len(rx) + Len(input) + Len(c)
             /\ \A j \in 1..Len(rx) : s[j] = rx[j]
             /\ \A j \in 1..Len(input) : s[Len(rx) + j] = input[j]
        BY ONLY <4>7, <4>8, <4>9, StreamIs
      <4>11. /\ Len(u) = Len(rx) + Len(input) + Len(d)
             /\ Len(rx) \in Nat /\ Len(input) \in Nat
             /\ \A j \in 1..Len(rx) : u[j] = rx[j]
             /\ \A j \in 1..Len(input) : u[Len(rx) + j] = input[j]
             /\ \A j \in 1..Len(d) : u[Len(rx) + Len(input) + j] = d[j]
        BY <4>6, <4>9, StreamIs DEF u
      <4> DEFINE h == Len(rx) + Len(input)
      <4>12. /\ Len(u) >= 2 /\ u[Len(u) - 1] = Front("first") /\ u[Len(u)] = Back("first")
        <5>1. Len(d) - 1 \in 1..Len(d) /\ Len(d) \in 1..Len(d) /\ h \in Nat
          <6>1. \A n \in {2, 3} : n - 1 \in 1..n /\ n \in 1..n
            OBVIOUS
          <6>2. \A m, n \in Nat : m + n \in Nat
            OBVIOUS
          <6> QED
            BY ONLY <4>6, <4>11, <6>1, <6>2
        <5>2. u[h + (Len(d) - 1)] = d[Len(d) - 1] /\ u[h + Len(d)] = d[Len(d)]
          BY <4>11, <5>1
        <5>3. Len(u) - 1 = h + (Len(d) - 1) /\ Len(u) = h + Len(d) /\ Len(u) >= 2
          BY <4>6, <4>11, <5>1
        <5> QED
          BY <4>6, <5>2, <5>3
      <4>13. \A i \in 1..Len(u) - 3 : ~IsBack(u[i])
        <5> SUFFICES ASSUME NEW i \in 1..Len(u) - 3 PROVE ~IsBack(u[i])
          OBVIOUS
        <5>1. i \in 1..h /\ i \in 1..Len(s) - 3 /\ i \in Int
          <6>1. \A r, p \in Nat, m \in {2, 3}, n \in {3, 4} : \A x \in 1..r + p + m - 3 :
                  m <= n => x \in 1..r + p /\ x \in 1..r + p + n - 3 /\ x \in Int
            OBVIOUS
          <6>2. i \in 1..Len(rx) + Len(input) + Len(d) - 3
            BY ONLY <4>11, i \in 1..Len(u) - 3
          <6>3. /\ Len(rx) \in Nat /\ Len(input) \in Nat /\ Len(d) \in {2, 3} /\ Len(c) \in {3, 4}
                /\ Len(d) <= Len(c) /\ Len(s) = Len(rx) + Len(input) + Len(c)
            BY ONLY <4>6, <4>7, <4>10, <4>11
          <6>4. i \in 1..Len(rx) + Len(input) /\ i \in Int
                /\ i \in 1..Len(rx) + Len(input) + Len(c) - 3
            BY ONLY <6>1, <6>2, <6>3
          <6> QED
            BY ONLY <6>3, <6>4
        <5>2. u[i] = s[i]
          <6>1. CASE i <= Len(rx)
            <7>1. i \in 1..Len(rx)
              BY <4>11, <5>1, <6>1
            <7> QED
              BY ONLY <4>10, <4>11, <7>1
          <6>2. CASE ~(i <= Len(rx))
            <7>1. PICK j \in 1..Len(input) : Len(rx) + j = i
              <8>1. i - Len(rx) \in 1..Len(input) /\ Len(rx) + (i - Len(rx)) = i
                BY <4>11, <5>1, <6>2
              <8> QED
                BY ONLY <8>1
            <7>2. u[Len(rx) + j] = input[j]
              BY <4>11
            <7>3. s[Len(rx) + j] = input[j]
              BY <4>10
            <7> QED
              BY ONLY <7>1, <7>2, <7>3
          <6> QED
            BY <6>1, <6>2
        <5>3. ~IsBack(s[i])
          BY <4>1, <4>2, <5>1 DEF Expected, s
        <5> QED
          BY <5>2, <5>3
      <4>14. Expected(Stream)'
        BY <1>1, <4>2, <4>8, <4>12, <4>13 DEF Expected, Asking, IsBack
      <4>15. Due'
        <5>1. flight'[Len(flight')] = flight[2] /\ flight[Len(flight)] = flight[2]
              /\ (Len(flight') = 2 => flight'[2] = flight[2])
          BY <4>2, <4>3
        <5> QED
          BY <1>1, <4>1, <4>2, <4>5, <5>1 DEF Due, Asking
      <4> QED
        BY <1>1, <3>4, <4>14, <4>15 DEF CalmInv
    <3> QED
      BY <2>3, <3>3, <3>4 DEF Inv, TimeInv
  <2> QED
    BY <2>2, <2>3
<1> QED
  BY <1>1, <1>2, <1>3 DEF HeardInv, Calm, Prompt

\* A Read moves pieces that were to be seen.
LEMMA ReadMoreHeard == Inv /\ HeardInv /\ ReadMore => HeardInv'
<1> SUFFICES ASSUME Inv, HeardInv, ReadMore PROVE HeardInv'
  OBVIOUS
<1>1. PICK k \in 1..Len(input) :
        /\ ~HasEOI(SubSeq(input, 1, k))
        /\ rx' = rx \o SubSeq(input, 1, k)
        /\ input' = SubSeq(input, k + 1, Len(input))
  BY DEF ReadMore
<1>2. /\ phase \in {"wake", "read"} /\ phase' = phase /\ left' = left /\ attempt' = attempt
      /\ flight' = flight /\ result' = result /\ trouble' = trouble
  BY DEF ReadMore, Reading
<1> DEFINE a == SubSeq(input, 1, k)
           b == SubSeq(input, k + 1, Len(input))
<1>3. input \in Seq(Piece) /\ rx \in Seq(Piece)
  BY PiecesAreHeld DEF Inv, DataInv
<1>4. a \in Seq(Piece) /\ b \in Seq(Piece) /\ a \o b = input
  <2>1. Len(input) \in Nat
    BY <1>3, LenProperties
  <2>2. \A n \in Nat : \A m \in 1..n : m \in 0..n /\ 1 \in 1..n + 1 /\ m \in 1 - 1..n /\ n \in m..n
    OBVIOUS
  <2>3. k \in 0..Len(input) /\ 1 \in 1..Len(input) + 1 /\ k \in 1 - 1..Len(input)
        /\ Len(input) \in k..Len(input)
    BY ONLY <2>1, <2>2, k \in 1..Len(input)
  <2>4. a \in Seq(Piece) /\ b \in Seq(Piece)
    BY ONLY <1>3, <2>3, Parts
  <2>5. a \o b = SubSeq(input, 1, Len(input))
    BY ONLY <1>3, <2>3, ConcatAdjacentSubSeq
  <2> QED
    BY <1>3, <2>4, <2>5, SubSeqFull
<1>5. ~HasEOI(a) /\ rx' = rx \o a /\ input' = b
  BY <1>1
<1> HIDE DEF a, b
<1>6. NoEnd'
  <2>1. /\ Len(rx \o a) = Len(rx) + Len(a) /\ rx \o a \in Seq(Piece)
        /\ \A i \in 1..Len(rx) + Len(a) : (rx \o a)[i] = IF i <= Len(rx) THEN rx[i] ELSE a[i - Len(rx)]
    BY ONLY <1>3, <1>4, ConcatProperties
  <2>2. /\ DOMAIN (rx \o a) = 1..Len(rx \o a) /\ DOMAIN rx = 1..Len(rx) /\ DOMAIN a = 1..Len(a)
        /\ Len(rx) \in Nat /\ Len(a) \in Nat
    BY ONLY <1>3, <1>4, <2>1, LenProperties
  <2>3. ASSUME NEW i \in 1..Len(rx) + Len(a) PROVE ~IsBack((rx \o a)[i])
    <3>1. CASE i <= Len(rx)
      <4>1. i \in 1..Len(rx)
        BY <2>2, <3>1
      <4>2. (rx \o a)[i] = rx[i]
        BY <2>1, <3>1
      <4> QED
        BY <2>2, <4>1, <4>2 DEF HeardInv, NoEnd
    <3>2. CASE ~(i <= Len(rx))
      <4>1. i - Len(rx) \in 1..Len(a)
        BY <2>2, <3>2
      <4>2. (rx \o a)[i] = a[i - Len(rx)]
        BY <2>1, <3>2
      <4> QED
        BY <1>5, <2>2, <4>1, <4>2 DEF HasEOI
    <3> QED
      BY <3>1, <3>2
  <2>4. \A i \in DOMAIN (rx \o a) : ~IsBack((rx \o a)[i])
    BY <2>1, <2>2, <2>3
  <2> QED
    BY <1>2, <1>5, <2>4 DEF NoEnd, IsBack
<1>7. ASSUME Calm PROVE CalmInv'
  <2>1. CalmInv
    BY <1>7 DEF HeardInv
  <2>2. CASE phase = "wake"
    BY <1>2, <2>1, <2>2 DEF CalmInv
  <2>3. CASE phase = "read"
    <3>1. Due /\ Expected(Stream)
      BY <2>1, <2>3 DEF CalmInv
    <3>2. Coming(flight) \in Seq(Piece)
      <4>1. flight \in Seq(Reply) /\ Len(flight) <= 2
        BY <1>7, <2>3, <3>1, Owns DEF Calm, Due
      <4> QED
        BY ONLY <4>1, ComingIs
    <3>3. Stream' = Stream
      <4> DEFINE c == Coming(flight)
      <4>0. c \in Seq(Piece)
        BY <3>2
      <4>1. Stream' = InARow(rx \o a, b, c) /\ Stream = InARow(rx, input, c)
        BY <1>2, <1>5 DEF Stream
      <4> HIDE DEF c
      <4>2. InARow(rx \o a, b, c) = InARow(rx, a \o b, c)
        <5>1. rx \in Seq(Piece) /\ a \in Seq(Piece) /\ b \in Seq(Piece) /\ c \in Seq(Piece)
          BY <1>3, <1>4, <4>0
        <5> QED
          BY ONLY <5>1, Moves
      <4> QED
        BY ONLY <1>4, <4>1, <4>2
    <3>4. Expected(Stream)'
      BY <1>2, <3>1, <3>3 DEF Expected, Asking, IsBack
    <3>5. Due'
      BY <1>2, <3>1 DEF Due, Asking
    <3> QED
      BY <1>2, <2>3, <3>4, <3>5 DEF CalmInv
  <2> QED
    BY <1>2, <2>2, <2>3
<1> QED
  BY <1>2, <1>6, <1>7 DEF HeardInv, Calm, Prompt

\* The replies fl when a unit of time has passed.
Older(fl) == [i \in DOMAIN fl |-> [fl[i] EXCEPT !.left = fl[i].left - 1]]

\* They are the same replies.
LEMMA Later ==
  ASSUME NEW fl \in Seq(Reply), Len(fl) <= 2, \A i \in DOMAIN fl : fl[i].left > 0
  PROVE  /\ Older(fl) \in Seq(Reply) /\ Len(Older(fl)) = Len(fl)
         /\ Coming(Older(fl)) = Coming(fl)
         /\ \A i \in 1..Len(fl) :
              /\ Older(fl)[i].to = fl[i].to /\ Older(fl)[i].part = fl[i].part
              /\ Older(fl)[i].own = fl[i].own /\ Older(fl)[i].left = fl[i].left - 1
<1> DEFINE g == Older(fl)
<1>0. g = [i \in DOMAIN fl |-> [fl[i] EXCEPT !.left = fl[i].left - 1]]
  BY DEF Older
<1> HIDE DEF g
<1>1. DOMAIN fl = 1..Len(fl) /\ Len(fl) \in Nat
  BY LenProperties
<1>2. \A i \in 1..Len(fl) : fl[i] \in Reply
  BY ElementOfSeq
<1>3. \A i \in 1..Len(fl) :
        /\ [fl[i] EXCEPT !.left = fl[i].left - 1] \in Reply
        /\ [fl[i] EXCEPT !.left = fl[i].left - 1].to = fl[i].to
        /\ [fl[i] EXCEPT !.left = fl[i].left - 1].part = fl[i].part
        /\ [fl[i] EXCEPT !.left = fl[i].left - 1].own = fl[i].own
        /\ [fl[i] EXCEPT !.left = fl[i].left - 1].left = fl[i].left - 1
  <2> SUFFICES ASSUME NEW i \in 1..Len(fl)
               PROVE  /\ [fl[i] EXCEPT !.left = fl[i].left - 1] \in Reply
                      /\ [fl[i] EXCEPT !.left = fl[i].left - 1].to = fl[i].to
                      /\ [fl[i] EXCEPT !.left = fl[i].left - 1].part = fl[i].part
                      /\ [fl[i] EXCEPT !.left = fl[i].left - 1].own = fl[i].own
                      /\ [fl[i] EXCEPT !.left = fl[i].left - 1].left = fl[i].left - 1
    OBVIOUS
  <2>1. fl[i] \in Reply /\ fl[i].left > 0
    BY <1>1, <1>2
  <2>2. [fl[i] EXCEPT !.left = fl[i].left - 1] \in Reply
    BY <2>1, ReplyParts
  <2> QED
    BY <2>1, <2>2 DEF Reply
<1>4. g \in Seq(Reply)
  <2>1. g = [i \in 1..Len(fl) |-> [fl[i] EXCEPT !.left = fl[i].left - 1]]
    BY <1>0, <1>1
  <2> QED
    BY <1>1, <1>3, <2>1, IsASeq
<1>5. Len(g) = Len(fl)
  <2>1. DOMAIN g = 1..Len(fl) /\ DOMAIN g = 1..Len(g) /\ Len(g) \in Nat
    BY <1>0, <1>1, <1>4, LenProperties
  <2>2. \A m, n \in Nat : 1..m = 1..n => m = n
    <3> SUFFICES ASSUME NEW m \in Nat, NEW n \in Nat, 1..m = 1..n PROVE m = n
      OBVIOUS
    <3>1. \A i \in Int : i \in 1..m <=> i \in 1..n
      OBVIOUS
    <3>2. (m \in 1..m <=> m \in 1..n) /\ (n \in 1..m <=> n \in 1..n)
      BY <3>1
    <3>3. ((1 <= m /\ m <= m) <=> (1 <= m /\ m <= n)) /\ ((1 <= n /\ n <= m) <=> (1 <= n /\ n <= n))
      BY <3>2
    <3> QED
      BY <3>3
  <2> QED
    BY ONLY <1>1, <2>1, <2>2
<1>6. \A i \in 1..Len(fl) :
        /\ g[i].to = fl[i].to /\ g[i].part = fl[i].part /\ g[i].own = fl[i].own
        /\ g[i].left = fl[i].left - 1
  BY <1>0, <1>1, <1>3
<1>7. \A i \in 1..Len(fl) : ToCome(g[i]) = ToCome(fl[i])
  <2> SUFFICES ASSUME NEW i \in 1..Len(fl) PROVE ToCome(g[i]) = ToCome(fl[i])
    OBVIOUS
  <2>1. g[i].to = fl[i].to /\ g[i].part = fl[i].part
    BY <1>6
  <2> QED
    BY <2>1 DEF ToCome
<1>8. Coming(g) = Coming(fl)
  <2>1. \A n \in Nat : n <= 2 => n = 0 \/ (n = 1 /\ 1 \in 1..n) \/ (n = 2 /\ 1 \in 1..n /\ 2 \in 1..n)
    OBVIOUS
  <2>2. \/ Len(fl) = 0
        \/ Len(fl) = 1 /\ 1 \in 1..Len(fl)
        \/ Len(fl) = 2 /\ 1 \in 1..Len(fl) /\ 2 \in 1..Len(fl)
    BY ONLY <1>1, <2>1, Len(fl) <= 2
  <2>3. CASE Len(fl) = 0
    BY <1>5, <2>3 DEF Coming
  <2>4. CASE Len(fl) = 1 /\ 1 \in 1..Len(fl)
    BY <1>5, <1>7, <2>4 DEF Coming
  <2>5. CASE Len(fl) = 2 /\ 1 \in 1..Len(fl) /\ 2 \in 1..Len(fl)
    BY <1>5, <1>7, <2>5 DEF Coming
  <2> QED
    BY <2>2, <2>3, <2>4, <2>5
<1> QED
  BY <1>4, <1>5, <1>6, <1>8 DEF g

\* A reply that is not late leaves time to read it.
LEMMA PassHeard == Inv /\ HeardInv /\ Pass => HeardInv'
<1> SUFFICES ASSUME Inv, HeardInv, Pass PROVE HeardInv'
  OBVIOUS
<1>1. /\ phase' = phase /\ attempt' = attempt /\ input' = input /\ rx' = rx /\ result' = result
      /\ left' = IF left > 0 THEN left - 1 ELSE 0
      /\ flight' = [i \in DOMAIN flight |-> [flight[i] EXCEPT !.left = flight[i].left - 1]]
      /\ trouble' = (trouble \/ \E i \in DOMAIN flight : IsLate(flight'[i]))
      /\ \A i \in DOMAIN flight : flight[i].left > 0
      /\ phase = "read" => left > 0 /\ input = <<>>
      /\ left \in Nat
  BY DEF Pass, MayPass, Reading, Inv, TimeInv
<1>2. NoEnd'
  BY <1>1 DEF NoEnd, HeardInv, IsBack
<1>3. ASSUME Calm, ~trouble' PROVE CalmInv'
  <2>1. CalmInv
    BY <1>3 DEF HeardInv
  <2>2. CASE phase = "idle"
    BY <1>1, <2>1, <2>2 DEF CalmInv
  <2>3. CASE phase # "idle"
    <3>1. flight \in Seq(Reply) /\ Len(flight) \in Nat /\ DOMAIN flight = 1..Len(flight)
          /\ \A i \in 1..Len(flight) : flight[i] \in Reply /\ flight[i].own
      BY <1>3, <2>3, Owns, LenProperties DEF Calm
    <3>2. phase \in {"wake", "sleep", "read"}
      BY <2>3 DEF Inv, TimeInv
    <3>3. Len(flight) <= 2
      <4>1. Len(flight) <= 1 \/ Len(flight) <= 2
        BY <2>1, <3>2 DEF CalmInv, Due
      <4>2. \A n \in Nat : n <= 1 \/ n <= 2 => n <= 2
        OBVIOUS
      <4> QED
        BY ONLY <3>1, <4>1, <4>2
    <3>4. /\ flight' \in Seq(Reply) /\ Len(flight') = Len(flight) /\ Coming(flight') = Coming(flight)
          /\ \A i \in 1..Len(flight) :
               /\ flight'[i].to = flight[i].to /\ flight'[i].part = flight[i].part
               /\ flight'[i].own = flight[i].own /\ flight'[i].left = flight[i].left - 1
      <4>1. flight' = Older(flight)
        BY <1>1 DEF Older
      <4>2. \A i \in DOMAIN flight : flight[i].left > 0
        BY <1>1
      <4> QED
        BY ONLY <3>1, <3>3, <4>1, <4>2, Later
    <3>5. flight = <<>> <=> flight' = <<>>
      <4>1. flight = <<>> => flight' = <<>>
        BY <1>1
      <4>2. flight # <<>> => Len(flight) # 0
        BY <3>1, EmptySeq
      <4>3. flight' = <<>> => Len(flight') = 0
        BY EmptySeq
      <4> QED
        BY ONLY <3>4, <4>1, <4>2, <4>3
    <3>6. flight # <<>> => 1 \in 1..Len(flight) /\ Len(flight) \in 1..Len(flight)
      <4>1. flight # <<>> => Len(flight) \in Nat \ {0}
        BY <3>1, EmptySeq
      <4>2. \A n \in Nat \ {0} : 1 \in 1..n /\ n \in 1..n
        OBVIOUS
      <4> QED
        BY ONLY <4>1, <4>2
    <3>7. CASE phase \in {"wake", "sleep"}
      <4>1. Len(flight') <= 1
        BY <2>1, <3>4, <3>7 DEF CalmInv
      <4>2. phase = "sleep" /\ attempt = 1 => HalfWay'
        BY <1>1, <2>1, <3>4, <3>5, <3>6 DEF CalmInv, HalfWay, Front
      <4> QED
        BY <1>1, <3>7, <4>1, <4>2 DEF CalmInv
    <3>8. CASE phase = "read"
      <4>1. Due /\ Expected(Stream) /\ attempt \in {1, 2}
        BY <2>1, <3>8 DEF CalmInv, Inv, TimeInv, Budget
      <4>2. Expected(Stream)'
        BY <1>1, <3>4, <4>1 DEF Stream, InARow, Expected, Asking, IsBack
      <4>3. flight # <<>>
        <5> SUFFICES ASSUME flight = <<>> PROVE FALSE
          OBVIOUS
        <5>1. Coming(flight) = <<>>
          BY <3>1, <3>3, ComingLength
        <5>2. rx \in Seq(Piece) /\ <<>> \in Seq(Piece)
          BY PiecesAreHeld, EmptySeq DEF Inv, DataInv
        <5>3. Stream = rx
          BY <1>1, <3>8, <5>1, <5>2, ConcatEmptySeq DEF Stream, InARow
        <5>4. Len(rx) \in Nat /\ DOMAIN rx = 1..Len(rx)
          BY <5>2, LenProperties
        <5>5. Len(rx) >= 2 /\ IsBack(rx[Len(rx)])
          BY <4>1, <5>3 DEF Expected, IsBack, Back
        <5>6. \A n \in Nat : n >= 2 => n \in 1..n
          OBVIOUS
        <5>7. Len(rx) \in DOMAIN rx
          BY ONLY <5>4, <5>5, <5>6
        <5> QED
          BY <5>5, <5>7 DEF HeardInv, NoEnd
      <4> DEFINE n == Len(flight)
      <4>4. n \in 1..Len(flight) /\ n \in DOMAIN flight
        BY <3>1, <3>6, <4>3
      <4>5. /\ flight[n].to = Asking /\ flight[n].left + ReadTimeout + ReadTick = MaxDelay + left
            /\ left > ReadTick
        BY <4>1, <4>3 DEF Due
      <4>6. flight'[n].to = Asking /\ flight'[n].own /\ flight'[n].left = flight[n].left - 1
        BY <3>1, <3>4, <4>4, <4>5
      <4>7. ~(MaxDelay - flight'[n].left >= ReadTimeout)
        <5>1. ~IsLate(flight'[n])
          BY <1>1, <1>3, <4>4
        <5>2. IsOurs(flight'[n])
          BY <4>1, <4>6 DEF IsOurs, Asking
        <5> QED
          BY <5>1, <5>2 DEF IsLate
      <4>8. flight[n].left \in Int /\ MaxDelay \in Nat /\ ReadTimeout \in Nat /\ ReadTick \in Nat
            /\ left \in Nat /\ left > 0
        <5>1. flight[n] \in Reply
          BY <3>1, <4>4
        <5>2. flight[n].left \in 0..MaxDelay
          BY <5>1, ReplyParts
        <5> QED
          BY <1>1, <3>8, <5>2, TimesAssumption, DeviceAssumption
      <4> HIDE DEF n
      <4>9. left' > ReadTick /\ flight'[n].left + ReadTimeout + ReadTick = MaxDelay + left'
        <5>1. \A x \in Int, y, r, t, l \in Nat :
                l > 0 /\ x + r + t = y + l /\ ~(y - (x - 1) >= r) =>
                  l - 1 > t /\ (x - 1) + r + t = y + (l - 1)
          OBVIOUS
        <5>2. left' = left - 1
          BY <1>1, <4>8
        <5> QED
          BY ONLY <4>5, <4>6, <4>7, <4>8, <5>1, <5>2
      <4>10. Due'
        <5>1. Len(flight') = n /\ flight'[Len(flight')].to = Asking
              /\ flight'[Len(flight')].left + ReadTimeout + ReadTick = MaxDelay + left'
          BY <3>4, <4>6, <4>9 DEF n
        <5>2. Asking' = Asking
          BY <1>1 DEF Asking
        <5>3. Len(flight') <= 2
          BY ONLY <3>3, <3>4
        <5>4. Len(flight') = 2 => flight'[2].part = "whole" /\ (attempt = 2 => flight'[1].to = "first")
          <6> SUFFICES ASSUME Len(flight') = 2
                       PROVE  flight'[2].part = "whole" /\ (attempt = 2 => flight'[1].to = "first")
            OBVIOUS
          <6>1. Len(flight) = 2
            BY <3>4
          <6>2. 1 \in 1..2 /\ 2 \in 1..2
            OBVIOUS
          <6>3. flight'[2].part = flight[2].part /\ flight'[1].to = flight[1].to
            BY ONLY <3>4, <6>1, <6>2
          <6> QED
            BY <4>1, <6>1, <6>3 DEF Due
        <5> QED
          BY <1>1, <4>9, <5>1, <5>2, <5>3, <5>4 DEF Due
      <4> QED
        BY <1>1, <3>8, <4>2, <4>10 DEF CalmInv
    <3> QED
      BY <3>2, <3>7, <3>8
  <2> QED
    BY <2>2, <2>3
<1> QED
  BY <1>1, <1>2, <1>3 DEF HeardInv, Calm, Prompt

\* What a read that has just begun is to see.
LEMMA Begins ==
  ASSUME NEW fl \in Seq(Reply), Len(fl) <= 1, NEW e \in Reply, e.part = "whole",
         NEW s, s = Coming(Append(fl, e))
  PROVE  /\ Append(fl, e) \in Seq(Reply) /\ Len(Append(fl, e)) \in {1, 2}
         /\ Append(fl, e)[Len(Append(fl, e))] = e
         /\ Len(Append(fl, e)) = 2 => fl # <<>> /\ Append(fl, e)[1] = fl[1]
         /\ Len(s) \in {2, 3, 4} /\ s[Len(s) - 1] = Front(e.to) /\ s[Len(s)] = Back(e.to)
         /\ Len(s) = 4 => s[1] = Front(fl[1].to)
         /\ Len(s) # 2 => fl # <<>>
         /\ fl # <<>> /\ fl[1].part = "whole" => Len(s) = 4 /\ s[2] = Back(fl[1].to)
<1> DEFINE g == Append(fl, e)
<1> DEFINE n == Len(s)
           Claim ==
             /\ g \in Seq(Reply) /\ Len(g) \in {1, 2} /\ g[Len(g)] = e
             /\ Len(g) = 2 => fl # <<>> /\ g[1] = fl[1]
             /\ n \in {2, 3, 4} /\ s[n - 1] = Front(e.to) /\ s[n] = Back(e.to)
             /\ n = 4 => s[1] = Front(fl[1].to)
             /\ n # 2 => fl # <<>>
             /\ fl # <<>> /\ fl[1].part = "whole" => n = 4 /\ s[2] = Back(fl[1].to)
<1>1. /\ g \in Seq(Reply) /\ Len(g) = Len(fl) + 1 /\ g[Len(fl) + 1] = e
      /\ \A i \in 1..Len(fl) : g[i] = fl[i]
  BY AppendProperties
<1>2. Len(fl) = 0 \/ Len(fl) = 1
  <2>1. Len(fl) \in Nat
    BY LenProperties
  <2>2. \A m \in Nat : m <= 1 => m = 0 \/ m = 1
    OBVIOUS
  <2> QED
    BY ONLY <2>1, <2>2, Len(fl) <= 1
<1>3. s = Coming(g)
  OBVIOUS
<1> HIDE DEF g, n
<1>4. ASSUME Len(fl) = 0 PROVE Claim
  <2>1. fl = <<>>
    BY <1>4, EmptySeq
  <2>2. Len(g) = 1 /\ g[1] = e
    <3>1. 0 + 1 = 1
      OBVIOUS
    <3> QED
      BY ONLY <1>1, <1>4, <3>1
  <2>3. Len(g) <= 2
    BY <2>2
  <2>4. n = 2 /\ s[1] = Front(e.to) /\ s[2] = Back(e.to)
    BY ONLY <1>1, <1>3, <2>2, <2>3, e.part = "whole", ComingLength DEF n
  <2>5. s[n - 1] = Front(e.to)
    BY <2>4
  <2> QED
    BY ONLY <1>1, <2>1, <2>2, <2>4, <2>5
<1>5. ASSUME Len(fl) = 1 PROVE Claim
  <2>1. fl # <<>>
    <3>1. Len(<<>>) = 0 /\ 0 # 1
      BY EmptySeq
    <3> QED
      BY ONLY <1>5, <3>1
  <2>2. Len(g) = 2 /\ g[2] = e /\ g[1] = fl[1]
    <3>1. 1 + 1 = 2 /\ 1 \in 1..1
      OBVIOUS
    <3> QED
      BY ONLY <1>1, <1>5, <3>1
  <2>3. Len(g) <= 2
    BY <2>2
  <2>4. /\ n = 3 \/ (n = 4 /\ s[1] = Front(fl[1].to))
        /\ fl[1].part = "whole" => n = 4 /\ s[2] = Back(fl[1].to)
        /\ s[n - 1] = Front(e.to) /\ s[n] = Back(e.to)
    BY ONLY <1>1, <1>3, <2>2, <2>3, e.part = "whole", ComingLength DEF n
  <2> QED
    BY ONLY <1>1, <2>1, <2>2, <2>4
<1>6. Claim
  BY <1>2, <1>4, <1>5
<1> QED
  BY ONLY <1>6 DEF g, n

\* A request that is written while one reply at most is owed, which is not cut by the
\* reset if it is to the first request.
LEMMA ExchangeHeard == Inv /\ HeardInv /\ Exchange => HeardInv'
<1> SUFFICES ASSUME Inv, HeardInv, Exchange PROVE HeardInv'
  OBVIOUS
<1>1. /\ phase = "sleep" /\ attempt' = attempt + 1 /\ phase' = "read"
      /\ left' = ReadTimeout + ReadTick /\ rx' = <<>> /\ input' = <<>>
      /\ flight' \in {flight, Asked(ThisRequest)}
      /\ trouble' = (trouble \/ flight' = flight \/ Torn(input))
      /\ attempt \in {0, 1}
  BY DEF Exchange, Inv, TimeInv, Budget
<1>2. NoEnd'
  BY <1>1, EmptySeq DEF NoEnd
<1>3. ASSUME Calm, ~trouble' PROVE CalmInv'
  <2>1. Len(flight) <= 1 /\ (attempt = 1 => HalfWay)
    BY <1>1, <1>3 DEF HeardInv, CalmInv
  <2>2. flight \in Seq(Reply)
    BY <1>1, <1>3, Owns DEF Calm
  <2>3. ReadTimeout > 0 /\ ReadTimeout \in Nat /\ ReadTick \in Nat /\ MaxDelay \in Nat
    BY <1>3, TimesAssumption, DeviceAssumption DEF Calm
  <2> DEFINE e == [to |-> ThisRequest, own |-> TRUE, part |-> "whole", left |-> MaxDelay]
  <2>4. flight' = Append(flight, e)
    BY <1>1, <1>3 DEF Asked
  <2>5. e \in Reply /\ e.part = "whole" /\ e.to = ThisRequest /\ e.left = MaxDelay
    BY <2>3 DEF Reply, Request, ThisRequest
  <2> HIDE DEF e
  <2>6. Asking' = ThisRequest /\ (attempt = 0 => Asking' = "first")
    BY <1>1 DEF Asking, ThisRequest
  <2> DEFINE s == Coming(flight')
  <2>7. s = Coming(Append(flight, e))
    BY <2>4
  <2> HIDE DEF s
  <2>8. /\ Append(flight, e) \in Seq(Reply) /\ Len(Append(flight, e)) \in {1, 2}
        /\ Append(flight, e)[Len(Append(flight, e))] = e
        /\ Len(Append(flight, e)) = 2 => flight # <<>> /\ Append(flight, e)[1] = flight[1]
        /\ Len(s) \in {2, 3, 4} /\ s[Len(s) - 1] = Front(e.to) /\ s[Len(s)] = Back(e.to)
        /\ Len(s) = 4 => s[1] = Front(flight[1].to)
        /\ Len(s) # 2 => flight # <<>>
        /\ flight # <<>> /\ flight[1].part = "whole" =>
             Len(s) = 4 /\ s[2] = Back(flight[1].to)
    BY ONLY <2>1, <2>2, <2>5, <2>7, Begins
  <2>9. ASSUME attempt = 1, flight # <<>>
        PROVE  flight[1].to = "first" /\ flight[1].part = "whole"
    <3>1. /\ flight[1].to = "first"
          /\ flight[1].part # "whole" => input # <<>> /\ input[Len(input)] = Front("first")
      BY <2>1, <2>9 DEF HalfWay
    <3>2. ~Torn(input)
      BY <1>1, <1>3
    <3>3. Front("first").part = "front" /\ IsOurs(Front("first"))
      BY DEF Front, IsOurs
    <3> QED
      BY <2>9, <3>1, <3>2, <3>3 DEF Torn
  <2>10. Stream' = s
    <3>1. s \in Seq(Piece)
      <4>1. \A n \in {1, 2} : n <= 2
        OBVIOUS
      <4>2. Append(flight, e) \in Seq(Reply) /\ Len(Append(flight, e)) <= 2
        BY ONLY <2>8, <4>1
      <4> QED
        BY ONLY <2>7, <4>2, ComingIs
    <3> QED
      BY <1>1, <3>1, ConcatEmptySeq DEF Stream, InARow, s
  <2>11. Expected(Stream)'
    <3>1. Len(s) >= 2 /\ s[Len(s) - 1] = Front(Asking') /\ s[Len(s)] = Back(Asking')
      <4>1. \A n \in {2, 3, 4} : n >= 2
        OBVIOUS
      <4> QED
        BY ONLY <2>5, <2>6, <2>8, <4>1
    <3>2. attempt = 0 => \A i \in 1..Len(s) - 3 : ~IsBack(s[i])
      <4> SUFFICES ASSUME NEW i \in 1..Len(s) - 3 PROVE ~IsBack(s[i])
        OBVIOUS
      <4>1. Len(s) = 4 /\ i = 1
        <5>1. \A n \in {2, 3, 4} : \A m \in 1..n - 3 : n = 4 /\ m = 1
          OBVIOUS
        <5>2. Len(s) \in {2, 3, 4}
          BY <2>8
        <5> QED
          BY ONLY <5>1, <5>2, i \in 1..Len(s) - 3
      <4> QED
        BY <2>8, <4>1 DEF Front, IsBack
    <3>3. attempt = 1 =>
            Len(s) = 2 \/ (Len(s) = 4 /\ s[1] = Front("first") /\ s[2] = Back("first"))
      BY <2>8, <2>9
    <3>4. (attempt' = 1 => attempt = 0) /\ (attempt' = 2 => attempt = 1)
      BY <1>1
    <3> QED
      BY <2>10, <3>1, <3>2, <3>3, <3>4 DEF Expected, IsBack
  <2>12. Due'
    <3> DEFINE g == Append(flight, e)
    <3>1. flight' = g /\ Len(g) \in {1, 2} /\ g[Len(g)] = e
          /\ (Len(g) = 2 => flight # <<>> /\ g[1] = flight[1])
      BY <2>4, <2>8
    <3> HIDE DEF g
    <3>2. Len(g) <= 2
      BY <3>1
    <3>3. Len(g) = 2 => g[2].part = "whole" /\ (attempt' = 2 => g[1].to = "first")
      <4>1. attempt' = 2 => attempt = 1
        BY <1>1
      <4> QED
        BY <2>5, <2>9, <3>1, <4>1
    <3>4. g[Len(g)].to = Asking' /\ g[Len(g)].left = MaxDelay
      BY <2>5, <2>6, <3>1
    <3>5. left' > ReadTick /\ MaxDelay + ReadTimeout + ReadTick = MaxDelay + left'
      BY <1>1, <2>3
    <3> QED
      BY <3>1, <3>2, <3>3, <3>4, <3>5 DEF Due
  <2> QED
    BY <1>1, <2>11, <2>12 DEF CalmInv
<1>4. Calm' => Calm /\ ~trouble'
  BY <1>1 DEF Calm, Prompt
<1> QED
  BY <1>2, <1>3, <1>4 DEF HeardInv

\* What was read when a Read of k pieces has brought the EOI.
WasRead(r, in, k, eoi) == r \o SubSeq(SubSeq(in, 1, k), 1, eoi)

\* A read ends with the first back of what it was to see.
LEMMA UpTo ==
  ASSUME NEW r \in Seq(Piece), NEW in \in Seq(Piece), NEW c \in Seq(Piece),
         \A j \in DOMAIN r : ~IsBack(r[j]),
         NEW k \in 1..Len(in), NEW eoi \in FirstEOI(SubSeq(in, 1, k))
  PROVE  LET f == WasRead(r, in, k, eoi)
             s == InARow(r, in, c)
         IN  /\ eoi \in 1..k /\ Len(f) = Len(r) + eoi /\ f \in Seq(Piece)
             /\ \A j \in 1..Len(f) : f[j] = s[j]
             /\ IsBack(s[Len(f)]) /\ \A j \in 1..Len(f) - 1 : ~IsBack(s[j])
<1> DEFINE f == WasRead(r, in, k, eoi)
           s == InARow(r, in, c)
<1>Stream. s = r \o (in \o c)
  BY DEF InARow
<1>Frame. f = r \o SubSeq(SubSeq(in, 1, k), 1, eoi)
  BY DEF WasRead
<1> HIDE DEF f, s
<1> DEFINE chunk == SubSeq(in, 1, k)
           upto == SubSeq(chunk, 1, eoi)
<1>1. Len(in) \in Nat /\ Len(r) \in Nat /\ DOMAIN r = 1..Len(r) /\ k \in 0..Len(in)
  BY LenProperties
<1>2. /\ chunk \in Seq(Piece) /\ Len(chunk) = k /\ DOMAIN chunk = 1..k
      /\ \A j \in 1..k : chunk[j] = in[j]
  <2>1. chunk \in Seq(Piece) /\ Len(chunk) = k
    BY <1>1, Parts
  <2>2. 1 \in Int /\ k \in Int /\ \A j \in 1..k : in[j] \in Piece
    BY <1>1, ElementOfSeq
  <2>3. \A j \in 1..k - 1 + 1 : chunk[j] = in[1 + j - 1]
    BY ONLY <2>2, SubSeqProperties
  <2>4. \A j \in 1..k : chunk[j] = in[j]
    <3>1. k - 1 + 1 = k /\ \A j \in 1..k : 1 + j - 1 = j
      BY <2>2
    <3> QED
      BY <2>3, <3>1
  <2> QED
    BY <2>1, <2>4, LenProperties
<1> HIDE DEF chunk
<1>3. /\ eoi \in 1..k /\ IsBack(chunk[eoi]) /\ \A j \in 1..eoi - 1 : ~IsBack(chunk[j])
  BY <1>2 DEF FirstEOI, chunk
<1>4. /\ upto \in Seq(Piece) /\ Len(upto) = eoi
      /\ \A j \in 1..eoi : upto[j] = in[j]
  <2>1. eoi \in 0..Len(chunk)
    BY <1>1, <1>2, <1>3
  <2>2. upto \in Seq(Piece) /\ Len(upto) = eoi
    BY <1>2, <2>1, Parts
  <2>3. 1 \in Int /\ eoi \in Int /\ \A j \in 1..eoi : chunk[j] \in Piece
    <3>1. \A j \in 1..eoi : j \in 1..Len(chunk)
      BY <1>1, <1>2, <1>3
    <3> QED
      BY <1>2, <1>3, <3>1, ElementOfSeq
  <2>4. \A j \in 1..eoi - 1 + 1 : upto[j] = chunk[1 + j - 1]
    BY ONLY <2>3, SubSeqProperties
  <2>5. \A j \in 1..eoi : upto[j] = in[j]
    <3>1. eoi - 1 + 1 = eoi /\ \A j \in 1..eoi : 1 + j - 1 = j /\ j \in 1..k
      BY <1>1, <1>3, <2>3
    <3> QED
      BY <1>2, <2>4, <3>1
  <2> QED
    BY <2>2, <2>5
<1>5. f = r \o upto
  BY <1>Frame DEF chunk
<1> HIDE DEF upto
<1>6. /\ f \in Seq(Piece) /\ Len(f) = Len(r) + eoi
      /\ \A j \in 1..Len(r) + eoi : f[j] = IF j <= Len(r) THEN r[j] ELSE upto[j - Len(r)]
  <2>1. \A t \in Seq(Piece) :
          /\ r \o t \in Seq(Piece) /\ Len(r \o t) = Len(r) + Len(t)
          /\ \A j \in 1..Len(r) + Len(t) : (r \o t)[j] = IF j <= Len(r) THEN r[j] ELSE t[j - Len(r)]
    BY ConcatProperties
  <2> QED
    BY ONLY <1>4, <1>5, <2>1
<1>7. /\ \A j \in 1..Len(r) : s[j] = r[j]
      /\ \A j \in 1..Len(in) : s[Len(r) + j] = in[j]
  BY ONLY <1>Stream, r \in Seq(Piece), in \in Seq(Piece), c \in Seq(Piece), StreamIs
<1>8. ASSUME NEW j \in 1..Len(r) + eoi
      PROVE  /\ f[j] = s[j]
             /\ j <= Len(r) => ~IsBack(s[j])
             /\ ~(j <= Len(r)) => j - Len(r) \in 1..eoi /\ s[j] = chunk[j - Len(r)]
  <2>1. CASE j <= Len(r)
    <3>1. j \in 1..Len(r)
      BY <1>1, <1>3, <2>1
    <3> QED
      BY <1>1, <1>6, <1>7, <2>1, <3>1
  <2>2. CASE ~(j <= Len(r))
    <3>1. j - Len(r) \in 1..eoi /\ j - Len(r) \in 1..k /\ j - Len(r) \in 1..Len(in)
          /\ Len(r) + (j - Len(r)) = j
      BY <1>1, <1>3, <2>2
    <3>2. f[j] = upto[j - Len(r)]
      BY <1>6, <2>2
    <3>3. s[j] = in[j - Len(r)]
      BY <1>7, <3>1
    <3> QED
      BY <1>2, <1>4, <2>2, <3>1, <3>2, <3>3
  <2> QED
    BY <2>1, <2>2
<1>9. IsBack(s[Len(r) + eoi])
  <2>1. PICK n \in 1..Len(r) + eoi : n = Len(r) + eoi /\ ~(n <= Len(r)) /\ n - Len(r) = eoi
    <3>1. Len(r) \in Nat /\ eoi \in Nat \ {0}
      BY <1>1, <1>3
    <3>2. \A m \in Nat, q \in Nat \ {0} :
            m + q \in 1..m + q /\ ~(m + q <= m) /\ m + q - m = q
      OBVIOUS
    <3> QED
      BY ONLY <3>1, <3>2
  <2>2. s[n] = chunk[n - Len(r)]
    BY ONLY <1>8, <2>1
  <2> QED
    BY ONLY <1>3, <2>1, <2>2
<1>10. ASSUME NEW j \in 1..Len(r) + eoi - 1 PROVE ~IsBack(s[j])
  <2>1. j \in 1..Len(r) + eoi
    BY <1>1, <1>3
  <2>2. ~(j <= Len(r)) => j - Len(r) \in 1..eoi - 1
    BY <1>1, <1>3
  <2> QED
    BY <1>3, <1>8, <2>1, <2>2
<1>11. \A j \in 1..Len(r) + eoi : f[j] = s[j]
  BY <1>8
<1>12. \A j \in 1..Len(r) + eoi - 1 : ~IsBack(s[j])
  BY <1>10
<1> QED
  BY ONLY <1>3, <1>6, <1>9, <1>11, <1>12 DEF f, s

\* A whole reply that was read is decoded as it is.
LEMMA WholeIsClean ==
  ASSUME NEW f \in Seq(Piece), Len(f) = 2, ~IsBack(f[1]), IsBack(f[2]), NEW frame \in Clean(f)
  PROVE  frame = f
<1>1. DOMAIN f = 1..2
  BY LenProperties
<1>2. 1 \in DOMAIN f /\ ~(\A j \in DOMAIN f : IsBack(f[j]))
  BY <1>1
<1>3. FirstSOI(f) \subseteq {1}
  <2> SUFFICES ASSUME NEW i \in FirstSOI(f) PROVE i = 1
    OBVIOUS
  <2>1. i \in 1..2 /\ ~IsBack(f[i])
    BY <1>1 DEF FirstSOI
  <2> QED
    BY <2>1
<1>4. frame = SubSeq(f, 1, Len(f))
  BY <1>2, <1>3 DEF Clean
<1> QED
  BY <1>4, SubSeqFull

\* What a Read of k pieces leaves, and what of it is dropped behind the EOI.
Rest(in, k) == SubSeq(in, k + 1, Len(in))
Dropped(in, k, eoi) == SubSeq(SubSeq(in, 1, k), eoi + 1, k)

\* The last piece, if one is behind the EOI, is left or dropped.
LEMMA Leaves ==
  ASSUME NEW in \in Seq(Piece), NEW k \in 1..Len(in), NEW eoi \in 1..k, eoi = Len(in) - 1
  PROVE  LET rest == Rest(in, k)
             tail == Dropped(in, k, eoi)
         IN  \/ rest = <<>> /\ tail # <<>> /\ tail[Len(tail)] = in[Len(in)]
             \/ rest # <<>> /\ rest[Len(rest)] = in[Len(in)]
<1> DEFINE rest == Rest(in, k)
           tail == Dropped(in, k, eoi)
           Claim == \/ rest = <<>> /\ tail # <<>> /\ tail[Len(tail)] = in[Len(in)]
                    \/ rest # <<>> /\ rest[Len(rest)] = in[Len(in)]
<1>Two. rest = SubSeq(in, k + 1, Len(in)) /\ tail = SubSeq(SubSeq(in, 1, k), eoi + 1, k)
  BY DEF Rest, Dropped
<1> HIDE DEF rest, tail
<1> DEFINE chunk == SubSeq(in, 1, k)
<1>1. Len(in) \in Nat /\ k \in 0..Len(in)
  BY LenProperties
<1>2. k = Len(in) \/ k = Len(in) - 1
  BY <1>1
<1>3. chunk \in Seq(Piece) /\ Len(chunk) = k
  BY <1>1, Parts
<1>4. ASSUME k = Len(in) PROVE Claim
  <2>1. rest = <<>>
    BY <1>1, <1>4, <1>Two, SubSeqEmpty
  <2>2. chunk = in
    BY <1>4, SubSeqFull
  <2>3. tail = SubSeq(in, Len(in), Len(in))
    <3>1. eoi + 1 = Len(in)
      BY <1>1
    <3> QED
      BY <1>4, <1>Two, <2>2, <3>1
  <2>4. Len(in) \in Int /\ \A i \in Len(in)..Len(in) : in[i] \in Piece
    <3>1. \A i \in Len(in)..Len(in) : i \in 1..Len(in)
      BY <1>1
    <3> QED
      BY <1>1, <3>1, ElementOfSeq
  <2>5. /\ tail \in Seq(Piece)
        /\ Len(tail) = IF Len(in) <= Len(in) THEN Len(in) - Len(in) + 1 ELSE 0
        /\ \A i \in 1..Len(in) - Len(in) + 1 : tail[i] = in[Len(in) + i - 1]
    BY ONLY <2>3, <2>4, SubSeqProperties
  <2>6. Len(tail) = 1 /\ tail[1] = in[Len(in)]
    <3>1. Len(in) - Len(in) + 1 = 1 /\ Len(in) + 1 - 1 = Len(in) /\ Len(in) <= Len(in)
      BY <1>1
    <3>2. 1 \in 1..1
      OBVIOUS
    <3> QED
      BY ONLY <2>5, <3>1, <3>2
  <2>7. tail # <<>>
    <3>1. Len(<<>>) = 0 /\ 0 # 1
      BY EmptySeq
    <3> QED
      BY ONLY <2>6, <3>1
  <2> QED
    BY <2>1, <2>6, <2>7
<1>5. ASSUME k = Len(in) - 1 PROVE Claim
  <2>1. rest = SubSeq(in, Len(in), Len(in))
    <3>1. k + 1 = Len(in)
      BY <1>1, <1>5
    <3> QED
      BY <1>Two, <3>1
  <2>2. Len(in) \in Int /\ \A i \in Len(in)..Len(in) : in[i] \in Piece
    <3>1. \A i \in Len(in)..Len(in) : i \in 1..Len(in)
      BY <1>1
    <3> QED
      BY <1>1, <3>1, ElementOfSeq
  <2>3. /\ rest \in Seq(Piece)
        /\ Len(rest) = IF Len(in) <= Len(in) THEN Len(in) - Len(in) + 1 ELSE 0
        /\ \A i \in 1..Len(in) - Len(in) + 1 : rest[i] = in[Len(in) + i - 1]
    BY ONLY <2>1, <2>2, SubSeqProperties
  <2>4. Len(rest) = 1 /\ rest[1] = in[Len(in)]
    <3>1. Len(in) - Len(in) + 1 = 1 /\ Len(in) + 1 - 1 = Len(in) /\ Len(in) <= Len(in)
      BY <1>1
    <3>2. 1 \in 1..1
      OBVIOUS
    <3> QED
      BY ONLY <2>3, <3>1, <3>2
  <2>5. rest # <<>>
    <3>1. Len(<<>>) = 0 /\ 0 # 1
      BY EmptySeq
    <3> QED
      BY ONLY <2>4, <3>1
  <2> QED
    BY <2>4, <2>5
<1>6. Claim
  BY <1>2, <1>4, <1>5
<1> QED
  BY ONLY <1>6 DEF rest, tail

\* Lengths: w was read, x are in the input buffer, y are to come, and the frame ends
\* with the z-th in the buffer, neither before the last three of all nor next to last.
LEMMA Sums ==
  \A w, x, y, z \in Nat :
    z <= x /\ ~(w + z <= w + x + y - 3) /\ w + z # w + x + y - 1 =>
      /\ ~(y >= 3)
      /\ y = 1 /\ z > 0 => z = x - 1 /\ x \in 1..x /\ w + x = w + x + y - 1
OBVIOUS

\* A frame that is read in time is the reply, or it is followed by it.
LEMMA FrameHeard ==
  ASSUME Inv, HeardInv, Calm, phase = "read", NEW k \in 1..Len(input),
         NEW eoi \in FirstEOI(SubSeq(input, 1, k)),
         NEW rest, rest = Rest(input, k), ~(rest = <<>> /\ Torn(Dropped(input, k, eoi))),
         NEW frame \in Clean(WasRead(rx, input, k, eoi))
  PROVE  \/ Intact(frame) /\ IsOurs(frame[1])
         \/ /\ attempt = 1 /\ Len(flight) <= 1
            /\ flight # <<>> =>
                 /\ flight[1].to = "first"
                 /\ flight[1].part # "whole" => rest # <<>> /\ rest[Len(rest)] = Front("first")
<1> DEFINE f == WasRead(rx, input, k, eoi)
           tail == Dropped(input, k, eoi)
           c == Coming(flight)
           s == Stream
<1>1. Due /\ Expected(s) /\ attempt \in {1, 2} /\ \A j \in DOMAIN rx : ~IsBack(rx[j])
  BY DEF HeardInv, NoEnd, CalmInv, Inv, TimeInv, Budget
<1>2. rx \in Seq(Piece) /\ input \in Seq(Piece) /\ flight \in Seq(Reply)
  BY Owns DEF Calm
<1>3. Len(flight) <= 2
  BY <1>1 DEF Due
<1>4. c \in Seq(Piece) /\ Len(c) \in Nat
  BY <1>2, <1>3, ComingIs, LenProperties
<1>5. s = rx \o (input \o c) /\ frame \in Clean(f)
  BY DEF Stream, InARow
<1>6. f = WasRead(rx, input, k, eoi) /\ s = InARow(rx, input, c)
      /\ ~(rest = <<>> /\ Torn(tail))
  BY DEF Stream
<1> HIDE DEF f, c, s, tail
<1>7. /\ eoi \in 1..k /\ Len(f) = Len(rx) + eoi /\ f \in Seq(Piece)
      /\ \A j \in 1..Len(f) : f[j] = s[j]
      /\ IsBack(s[Len(f)]) /\ \A j \in 1..Len(f) - 1 : ~IsBack(s[j])
  <2>1. \A j \in DOMAIN rx : ~IsBack(rx[j])
    BY <1>1
  <2>2. k \in 1..Len(input) /\ eoi \in FirstEOI(SubSeq(input, 1, k))
    OBVIOUS
  <2> QED
    BY <1>2, <1>4, <1>5, <1>6, <2>1, <2>2, UpTo, SMTT(30)
<1>8. /\ Len(s) = Len(rx) + Len(input) + Len(c)
      /\ Len(rx) \in Nat /\ Len(input) \in Nat
      /\ \A j \in 1..Len(input) : s[Len(rx) + j] = input[j]
      /\ \A j \in 1..Len(c) : s[Len(rx) + Len(input) + j] = c[j]
  BY ONLY <1>2, <1>4, <1>5, StreamIs
<1>9. eoi \in Nat \ {0} /\ eoi <= Len(input) /\ Len(f) \in Nat \ {0} /\ Len(f) <= Len(s)
  BY <1>4, <1>7, <1>8
<1>10. \A t \in {"first", "second"} :
         ~IsBack(Front(t)) /\ IsOurs(Front(t)) /\ IsBack(Back(t)) /\ Front(t).to = Back(t).to
  BY DEF IsBack, IsOurs, Front, Back
<1>11. Asking \in {"first", "second"} /\ (attempt = 1 => Asking = "first")
  BY DEF Asking
<1>12. ASSUME NEW t \in {"first", "second"}, s[1] = Front(t), s[2] = Back(t), Len(s) >= 2
       PROVE  Intact(frame) /\ IsOurs(frame[1])
  <2>1. Len(f) = 2
    <3>1. ~IsBack(s[1]) /\ IsBack(s[2])
      BY <1>10, <1>12
    <3>2. \A n \in Nat \ {0} : n = 1 \/ n = 2 \/ 2 \in 1..n - 1
      OBVIOUS
    <3>3. Len(f) = 1 \/ Len(f) = 2 \/ 2 \in 1..Len(f) - 1
      BY ONLY <1>9, <3>2
    <3> QED
      BY <1>7, <3>1, <3>3
  <2>2. f[1] = Front(t) /\ f[2] = Back(t)
    <3>1. 1 \in 1..2 /\ 2 \in 1..2
      OBVIOUS
    <3> QED
      BY ONLY <1>7, <1>12, <2>1, <3>1
  <2>3. frame = f
    BY <1>5, <1>7, <1>10, <2>1, <2>2, WholeIsClean
  <2> QED
    BY <1>10, <2>1, <2>2, <2>3 DEF Intact
<1>13. CASE Len(s) = 2
  <2>1. s[1] = Front(Asking) /\ s[2] = Back(Asking)
    <3>1. 2 - 1 = 1
      OBVIOUS
    <3> QED
      BY <1>1, <1>13, <3>1 DEF Expected
  <2>2. Len(s) >= 2
    BY <1>13
  <2> QED
    BY ONLY <1>11, <1>12, <2>1, <2>2
<1>14. CASE attempt = 2 /\ Len(s) = 4 /\ s[1] = Front("first") /\ s[2] = Back("first")
  <2>1. Len(s) >= 2 /\ "first" \in {"first", "second"}
    BY <1>14
  <2> QED
    BY ONLY <1>12, <1>14, <2>1
<1>15. CASE attempt = 1
  <2>1. /\ s[Len(s) - 1] = Front("first") /\ s[Len(s)] = Back("first")
        /\ \A i \in 1..Len(s) - 3 : ~IsBack(s[i])
    BY <1>1, <1>11, <1>15 DEF Expected
  <2>2. ~(Len(f) <= Len(s) - 3) /\ Len(f) # Len(s) - 1
    <3>1. Len(f) <= Len(s) - 3 => Len(f) \in 1..Len(s) - 3
      BY <1>9
    <3> QED
      BY <1>7, <1>10, <2>1, <3>1
  <2>3. /\ ~(Len(c) >= 3)
        /\ Len(c) = 1 => eoi = Len(input) - 1 /\ Len(input) \in 1..Len(input)
                         /\ Len(rx) + Len(input) = Len(rx) + Len(input) + Len(c) - 1
    <3>1. eoi \in Nat /\ eoi > 0 /\ eoi <= Len(input) /\ Len(rx) \in Nat /\ Len(input) \in Nat /\ Len(c) \in Nat
      BY <1>4, <1>8, <1>9
    <3>2. /\ ~(Len(rx) + eoi <= Len(rx) + Len(input) + Len(c) - 3)
          /\ Len(rx) + eoi # Len(rx) + Len(input) + Len(c) - 1
      BY ONLY <1>7, <1>8, <2>2
    <3> QED
      <4>1. PICK r \in Nat, i \in Nat, n \in Nat : r = Len(rx) /\ i = Len(input) /\ n = Len(c)
        BY <3>1
      <4>2. /\ eoi \in Nat /\ eoi > 0 /\ eoi <= i
            /\ ~(r + eoi <= r + i + n - 3) /\ r + eoi # r + i + n - 1
        BY ONLY <3>1, <3>2, <4>1
      <4>3. r \in Nat /\ i \in Nat /\ n \in Nat
        OBVIOUS
      <4>4. ~(n >= 3) /\ (n = 1 => eoi = i - 1 /\ i \in 1..i /\ r + i = r + i + n - 1)
        BY ONLY <4>2, <4>3, Sums
      <4> QED
        BY ONLY <4>1, <4>4
  <2>4. Len(flight) <= 1
    <3>1. Len(flight) # 2
      <4> SUFFICES ASSUME Len(flight) = 2 PROVE FALSE
        OBVIOUS
      <4>1. flight[2].part = "whole"
        BY <1>1 DEF Due
      <4>2. Len(c) = 3 \/ Len(c) = 4
        BY ONLY <1>2, <1>3, <4>1, Len(flight) = 2, ComingLength DEF c
      <4>3. \A n : n = 3 \/ n = 4 => n >= 3
        OBVIOUS
      <4> QED
        BY ONLY <2>3, <4>2, <4>3
    <3>2. Len(flight) \in Nat
      BY <1>2, LenProperties
    <3>3. \A n \in Nat : n <= 2 /\ n # 2 => n <= 1
      OBVIOUS
    <3> QED
      BY ONLY <1>3, <3>1, <3>2, <3>3
  <2>5. ASSUME flight # <<>>
        PROVE  /\ flight[1].to = "first"
               /\ flight[1].part # "whole" => rest # <<>> /\ rest[Len(rest)] = Front("first")
    <3>1. Len(flight) = 1
      <4>1. Len(flight) \in Nat \ {0}
        BY <1>2, <2>5, EmptySeq
      <4>2. \A n \in Nat \ {0} : n <= 1 => n = 1
        OBVIOUS
      <4> QED
        BY ONLY <2>4, <4>1, <4>2
    <3>2. flight[1].to = "first"
      BY <1>1, <1>11, <1>15, <2>5, <3>1 DEF Due
    <3>3. ASSUME flight[1].part # "whole"
          PROVE  rest # <<>> /\ rest[Len(rest)] = Front("first")
      <4>1. Len(c) = 1
        BY ONLY <1>2, <1>3, <3>1, <3>3, ComingLength DEF c
      <4>2. /\ eoi = Len(input) - 1 /\ Len(input) \in 1..Len(input)
            /\ Len(rx) + Len(input) = Len(s) - 1
        BY ONLY <1>8, <2>3, <4>1
      <4>3. input[Len(input)] = Front("first")
        BY ONLY <1>8, <2>1, <4>2
      <4>4. \/ rest = <<>> /\ tail # <<>> /\ tail[Len(tail)] = input[Len(input)]
            \/ rest # <<>> /\ rest[Len(rest)] = input[Len(input)]
        <5>1. k \in 1..Len(input) /\ rest = Rest(input, k) /\ tail = Dropped(input, k, eoi)
          BY DEF tail
        <5> QED
          BY ONLY <1>2, <1>7, <4>2, <5>1, Leaves
      <4>5. ASSUME rest = <<>>, tail # <<>>, tail[Len(tail)] = input[Len(input)] PROVE FALSE
        <5>1. Front("first").part = "front" /\ IsOurs(Front("first"))
          BY DEF Front, IsOurs
        <5> QED
          BY <1>6, <2>5, <4>3, <4>5, <5>1 DEF Torn
      <4> QED
        BY <4>3, <4>4, <4>5
    <3> QED
      BY <3>2, <3>3
  <2> QED
    BY <1>15, <2>4, <2>5
<1> QED
  BY <1>1, <1>13, <1>14, <1>15 DEF Expected

\* A poll that is calm ends with a sample, or it reads on.
LEMMA EOIHeard == Inv /\ HeardInv /\ ReadEOI => HeardInv'
<1> SUFFICES ASSUME Inv, HeardInv, ReadEOI PROVE HeardInv'
  OBVIOUS
<1>1. rx' = <<>> /\ attempt' = attempt
  BY DEF ReadEOI
<1>2. NoEnd'
  BY <1>1, EmptySeq DEF NoEnd
<1>3. PICK k \in 1..Len(input) : \E eoi \in FirstEOI(SubSeq(input, 1, k)) : Ends(k, eoi)
  BY DEF ReadEOI
<1>4. PICK eoi \in FirstEOI(SubSeq(input, 1, k)) : Ends(k, eoi)
  BY <1>3
<1> DEFINE rest == Rest(input, k)
           torn == rest = <<>> /\ Torn(Dropped(input, k, eoi))
<1>5. CASE Settles
  BY <1>1, <1>5, SettlesHeard
<1>6. CASE phase = "read" /\ \E frame \in Clean(rx \o SubSeq(SubSeq(input, 1, k), 1, eoi)) :
                               Answers(frame, rest, torn)
  <2>1. PICK frame \in Clean(WasRead(rx, input, k, eoi)) : Answers(frame, rest, torn)
    BY <1>6 DEF WasRead
  <2>2. PICK v \in Verdicts(frame) :
          /\ trouble' = (trouble \/ torn \/ Refuses(frame, v))
          /\ \/ v = "ok" /\ Returns(v, flight, rest)
             \/ v # "ok" /\ Fails(v, flight, rest)
    BY <2>1 DEF Answers
  <2>3. ASSUME Calm' PROVE CalmInv'
    <3>1. Calm /\ ~torn /\ ~Refuses(frame, v)
      BY <2>2, <2>3 DEF Calm, Prompt
    <3>2. CASE v = "ok" /\ Returns(v, flight, rest)
      BY <3>2 DEF Returns, CalmInv
    <3>3. CASE v # "ok" /\ Fails(v, flight, rest)
      <4>1. ~(Intact(frame) /\ IsOurs(frame[1]))
        BY <3>1, <3>3 DEF Refuses
      <4>2. /\ attempt = 1 /\ Len(flight) <= 1
            /\ flight # <<>> =>
                 /\ flight[1].to = "first"
                 /\ flight[1].part # "whole" => rest # <<>> /\ rest[Len(rest)] = Front("first")
        BY <1>6, <3>1, <4>1, FrameHeard
      <4>3. phase' = "sleep" /\ flight' = flight /\ input' = rest
        BY <1>1, <3>3, <4>2 DEF Fails, analogAttempts
      <4>4. HalfWay'
        BY <4>2, <4>3 DEF HalfWay, Front
      <4> QED
        BY <4>2, <4>3, <4>4 DEF CalmInv
    <3> QED
      BY <2>2, <3>2, <3>3
  <2> QED
    BY <1>2, <2>3 DEF HeardInv
<1> QED
  BY <1>4, <1>5, <1>6 DEF Ends, Rest, Dropped

-----------------------------------------------------------------------------
(* The theorems *)

\* Every step preserves DataInv, by its lemma.
LEMMA DataStep == Inv /\ [Next]_vars => DataInv'
<1> SUFFICES ASSUME Inv, [Next]_vars PROVE DataInv'
  OBVIOUS
<1>1. CASE UNCHANGED vars
  <2>1. Owed' = Owed /\ Held' = Held
    BY <1>1 DEF vars, wire, Owed, Held, OwedReply, OwnReply, OwnPiece, Prompt, Piece, Reply
  <2> QED
    BY <1>1, <2>1 DEF vars, wire, Inv, DataInv
<1>2. CASE Next
  BY <1>2, LineData, WakeData, ExchangeData, ReadData, FrameData, PassData DEF Next, Inv
<1> QED
  BY <1>1, <1>2

\* The invariant of the client: what it and the line hold, and the time it took.
THEOREM Inductive == Spec => []Inv
<1>1. Init => Inv
  <2> SUFFICES ASSUME Init PROVE Inv
    OBVIOUS
  <2>1. TimeInv
    BY TimesAssumption DEF Init, TimeInv, Budget, MaxPoll, analogAttempts
  <2>2. flight = <<>> /\ input = <<>> /\ rx = <<>> /\ result = "none" /\ fresh = TRUE
        /\ trouble = FALSE
    BY DEF Init
  <2> QED
    BY <2>1, <2>2, EmptySeq DEF Inv, DataInv
<1>2. Inv /\ [Next]_vars => Inv'
  BY TimeStep, DataStep DEF Inv
<1> QED
  BY <1>1, <1>2, PTL DEF Spec

\* Every reachable state is well typed.
THEOREM TypeCorrect == Spec => []TypeOK
<1>1. Inv => TypeOK
  <2> SUFFICES ASSUME Inv PROVE TypeOK
    OBVIOUS
  <2>1. Owed \subseteq Reply /\ Seq(Held) \subseteq Seq(Piece)
    BY PiecesAreHeld DEF Owed, OwedReply, OwnReply
  <2>2. flight \in Seq(Reply)
    BY <2>1, SeqMonotonic DEF Inv, DataInv
  <2> QED
    BY <2>1, <2>2 DEF Inv, DataInv, TimeInv, TypeOK, analogAttempts
<1> QED
  BY <1>1, Inductive, PTL

\* A poll is over when its timeouts have added up.
THEOREM BoundedPoll == Spec => []PollIsBounded
<1>1. Inv => PollIsBounded
  BY DEF Inv, TimeInv, Budget, PollIsBounded
<1> QED
  BY <1>1, Inductive, PTL

\* What a poll returns was asked for by the same poll, if the device is prompt.
THEOREM OwnAnswers == Spec => []SampleAnswersThisPoll
<1>1. Inv => SampleAnswersThisPoll
  BY DEF Inv, DataInv, Prompt, SampleAnswersThisPoll
<1> QED
  BY <1>1, Inductive, PTL

\* A poll whose analog replies come in time and undamaged is heard, whatever becomes of
\* its wake-up.
THEOREM Heard == Spec => []InTimeIsHeard
<1>1. Init => HeardInv
  BY EmptySeq DEF Init, HeardInv, NoEnd, Calm, CalmInv
<1>2. Inv /\ HeardInv /\ [Next]_vars => HeardInv'
  <2> SUFFICES ASSUME Inv, HeardInv, [Next]_vars PROVE HeardInv'
    OBVIOUS
  <2>1. CASE UNCHANGED vars
    BY <2>1 DEF vars, wire, HeardInv, NoEnd, Calm, Prompt, CalmInv, HalfWay, Due, Expected,
                Asking, Stream, InARow, IsBack, Front
  <2>2. CASE Next
    BY <2>2, ArrivesHeard, LostHeard, WakeHeard, ExchangeHeard, TimeoutHeard, ReadMoreHeard,
       EOIHeard, PassHeard DEF Next
  <2> QED
    BY <2>1, <2>2
<1>3. HeardInv => InTimeIsHeard
  BY DEF HeardInv, Calm, CalmInv, Prompt, InTimeIsHeard
<1> QED
  BY <1>1, <1>2, <1>3, Inductive, PTL DEF Spec
=============================================================================
