---------------------------- MODULE SerialClient ----------------------------
(***************************************************************************)
(* bms.Client: one Poll wakes the bus, asks for the analog data and tries  *)
(* once more if the answer is missing or useless, each read with a         *)
(* deadline.  The device answers in order but late, or not at all, and the *)
(* line may lose what it sends.                                            *)
(*                                                                         *)
(* A reply is a front, which has the SOI, and a back, which has the EOI;   *)
(* either may be in the operating system's input buffer without the other. *)
(* Digits are left out: what parses is decided by which pieces meet in one *)
(* read.  Time passes in equal units; writing and parsing take none.       *)
(*                                                                         *)
(* An operator whose name says how it departs from the one that follows it *)
(* is a faulty variant, used by no action.                                 *)
(***************************************************************************)
EXTENDS Integers, Sequences

CONSTANTS
  WakeTimeout,   \* wakeReadTimeout
  WakeSettle,    \* wakeSettle
  ReadTimeout,   \* serial.read_timeout_ms
  FlushDelay,    \* busFlushDelay
  ReadTick,      \* readPollInterval: how long one Read of the port may block
  MinIdle,       \* the shortest wait between two polls
  MaxDelay,      \* the longest time from a request to its reply
  MaxInput       \* bound: pieces that the input buffer holds

ASSUME TimesAssumption ==
  /\ WakeTimeout \in Nat /\ WakeSettle \in Nat /\ ReadTimeout \in Nat
  /\ FlushDelay \in Nat /\ ReadTick \in Nat /\ MinIdle \in Nat
ASSUME DeviceAssumption == MaxDelay \in Nat /\ MaxInput \in Nat

VARIABLES
  phase,     \* idle, wake (reading its reply), sleep (settling), read
  left,      \* until the sleep, the read or the wait between polls is over
  attempt,   \* analog requests of this poll
  flight,    \* replies that the device still owes, in order
  input,     \* pieces in the input buffer
  rx,        \* pieces read so far by this readUntilEOI
  result,    \* what the last poll returned
  fresh,     \* a sample returned answers requests of its own poll only
  spent,     \* the time that this poll has taken
  trouble    \* history: in this poll an analog reply was lost, late, torn or
             \* refused, or the port failed during an attempt

wire == <<flight, input>>
vars == <<phase, left, attempt, wire, rx, result, fresh, spent, trouble>>

analogAttempts == 2

Request == {"wake", "first", "second"}
Piece == [to : Request, own : BOOLEAN, part : {"front", "back"}]
\* part: what of the reply is still to come; left: until it comes at the latest.
Reply == [to : Request, own : BOOLEAN, part : {"whole", "back"}, left : 0..MaxDelay]
Errors == {"timeout", "framing", "bms", "implausible", "serial"}

Init ==
  /\ phase = "idle" /\ left = 0 /\ attempt = 0
  /\ flight = <<>> /\ input = <<>> /\ rx = <<>>
  /\ result = "none" /\ fresh = TRUE
  /\ spent = 0
  /\ trouble = FALSE

-----------------------------------------------------------------------------
(* The device and the line *)

Asked(r) == Append(flight, [to |-> r, own |-> TRUE, part |-> "whole", left |-> MaxDelay])

Part(p) == [to |-> Head(flight).to, own |-> Head(flight).own, part |-> p]
FrontGone == [flight EXCEPT ![1].part = "back"]

Arrives ==
  /\ flight # <<>>
  /\ \/ /\ Head(flight).part = "whole"
        /\ Len(input) + 2 <= MaxInput
        /\ input' = input \o <<Part("front"), Part("back")>>
        /\ flight' = Tail(flight)
     \/ /\ Head(flight).part = "whole"
        /\ Len(input) + 1 <= MaxInput
        /\ input' = Append(input, Part("front"))
        /\ flight' = FrontGone
     \/ /\ Head(flight).part = "back"
        /\ Len(input) + 1 <= MaxInput
        /\ input' = Append(input, Part("back"))
        /\ flight' = Tail(flight)
  /\ UNCHANGED <<phase, left, attempt, rx, result, fresh, spent, trouble>>

\* Of a reply, or a piece: an analog request of this poll is answered.
IsOurs(r) == r.own /\ r.to # "wake"

\* Noise on the line, or an input buffer that is full.
IsLost ==
  /\ flight # <<>>
  /\ flight' \in {Tail(flight)} \cup {f \in {FrontGone} : Head(flight).part = "whole"}
  /\ trouble' = (trouble \/ IsOurs(Head(flight)))
  /\ UNCHANGED <<phase, left, attempt, input, rx, result, fresh, spent>>

\* Pieces are thrown away that end with the front of an analog reply whose back is
\* still to come.
Torn(pieces) ==
  /\ pieces # <<>> /\ flight # <<>>
  /\ pieces[Len(pieces)].part = "front" /\ IsOurs(pieces[Len(pieces)])

-----------------------------------------------------------------------------
(* Poll *)

Foreign(s) == [i \in DOMAIN s |-> [s[i] EXCEPT !.own = FALSE]]

Returns(res, fl, in) ==
  /\ phase' = "idle"
  /\ left' = MinIdle
  /\ result' = res
  /\ flight' = Foreign(fl)
  /\ input' = Foreign(in)

FailsForGood(err, fl, in) == Returns(err, fl, in) /\ UNCHANGED fresh

FailsOnceMore(err, fl, in) ==
  /\ phase' = "sleep" /\ left' = FlushDelay
  /\ flight' = fl /\ input' = in
  /\ UNCHANGED <<result, fresh>>

\* An error ends the attempt; after the last one Poll returns it.
Fails(err, fl, in) ==
  /\ IF attempt' < analogAttempts
     THEN /\ phase' = "sleep"
          /\ left' = FlushDelay
          /\ flight' = fl
          /\ input' = in
          /\ UNCHANGED result
     ELSE Returns(err, fl, in)
  /\ UNCHANGED fresh

\* wake: reset and write; a failed reset is only logged.
WakeIsSent ==
  /\ phase = "idle" /\ left = 0
  /\ phase' = "wake"
  /\ left' = WakeTimeout + ReadTick
  /\ flight' \in {flight, Asked("wake")}
  /\ input' \in {input, <<>>}
  /\ attempt' = 0 /\ rx' = <<>> /\ spent' = 0 /\ trouble' = FALSE
  /\ UNCHANGED <<result, fresh>>

\* wake returns at once, without settling.
WakeFails ==
  /\ phase = "idle" /\ left = 0
  /\ phase' = "sleep"
  /\ left' = 0
  /\ input' \in {input, <<>>}
  /\ attempt' = 0 /\ rx' = <<>> /\ spent' = 0 /\ trouble' = FALSE
  /\ UNCHANGED <<flight, result, fresh>>

ThisRequest == IF attempt = 0 THEN "first" ELSE "second"

ExchangeWithoutReset ==
  /\ phase = "sleep" /\ left = 0
  /\ attempt' = attempt + 1
  /\ phase' = "read"
  /\ left' = ReadTimeout + ReadTick
  /\ rx' = <<>>
  /\ flight' \in {flight, Asked(ThisRequest)}
  /\ trouble' = (trouble \/ flight' = flight)
  /\ UNCHANGED <<input, result, fresh, spent>>

\* The bus was quiet for long enough: flushBus and exchange reset the input
\* buffer, and exchange writes the request.  The device need not answer.
Exchange ==
  /\ phase = "sleep" /\ left = 0
  /\ attempt' = attempt + 1
  /\ phase' = "read"
  /\ left' = ReadTimeout + ReadTick
  /\ rx' = <<>>
  /\ input' = <<>>
  /\ flight' \in {flight, Asked(ThisRequest)}
  /\ trouble' = (trouble \/ flight' = flight \/ Torn(input))
  /\ UNCHANGED <<result, fresh, spent>>

\* The reset, the write or the drain fails; the request may be out.
ExchangeFails ==
  /\ phase = "sleep" /\ left = 0
  /\ attempt' = attempt + 1
  /\ rx' = <<>>
  /\ trouble' = TRUE
  /\ \E fl \in {flight, Asked(ThisRequest)}, in \in {input, <<>>} :
       Fails("serial", fl, in)
  /\ UNCHANGED spent

Reading == phase \in {"wake", "read"}

\* wake ignores how its read ends.
Settles ==
  /\ phase = "wake"
  /\ phase' = "sleep"
  /\ left' = WakeSettle
  /\ UNCHANGED <<flight, result, fresh, trouble>>

IsBack(p) == p.part = "back"
HasEOI(s) == \E i \in DOMAIN s : IsBack(s[i])
\* At most one index each.
FirstEOI(s) == {i \in DOMAIN s : IsBack(s[i]) /\ \A j \in 1..i - 1 : ~IsBack(s[j])}
FirstSOI(s) == {i \in DOMAIN s : ~IsBack(s[i]) /\ \A j \in 1..i - 1 : IsBack(s[j])}

\* One Read returns some of what is there.
ReadMore ==
  /\ Reading
  /\ \E k \in 1..Len(input) :
       /\ ~HasEOI(SubSeq(input, 1, k))
       /\ rx' = rx \o SubSeq(input, 1, k)
       /\ input' = SubSeq(input, k + 1, Len(input))
  /\ UNCHANGED <<phase, left, attempt, flight, result, fresh, spent, trouble>>

\* cleanHexPayload: from the first SOI on, if there is one; the digits of all
\* pieces are joined.  The one result, as a set.
Clean(s) ==
  {SubSeq(s, i, Len(s)) : i \in IF \A j \in DOMAIN s : IsBack(s[j]) THEN {1} ELSE FirstSOI(s)}

Intact(s) == Len(s) = 2 /\ ~IsBack(s[1]) /\ IsBack(s[2]) /\ s[1].to = s[2].to

\* parseFrame and ParseAnalog.  A wrong checksum is not an error, so digits of
\* different replies may pass; the reply to the wake-up has no analog payload.
Verdicts(s) ==
  {"ok", "framing", "bms", "implausible"}
    \ (IF Intact(s) /\ s[1].to = "wake" THEN {"ok"} ELSE {})

\* A device that answers with an error or with absurd values is not heard.
Refuses(frame, v) == Intact(frame) /\ IsOurs(frame[1]) /\ v # "ok"

\* Poll with a frame that was read: the sample, or an error.
Answers(frame, rest, torn) ==
  \E v \in Verdicts(frame) :
    /\ trouble' = (trouble \/ torn \/ Refuses(frame, v))
    /\ \/ /\ v = "ok"
          /\ Returns(v, flight, rest)
          /\ fresh' = \A i \in DOMAIN frame : frame[i].own
       \/ /\ v # "ok"
          /\ Fails(v, flight, rest)

\* A Read returned k pieces, the first EOI at eoi: what is behind it is dropped.
Ends(k, eoi) ==
  LET chunk == SubSeq(input, 1, k)
      rest  == SubSeq(input, k + 1, Len(input))
      torn  == rest = <<>> /\ Torn(SubSeq(chunk, eoi + 1, k))
  IN \/ /\ Settles
        /\ input' = rest
     \/ /\ phase = "read"
        /\ \E frame \in Clean(rx \o SubSeq(chunk, 1, eoi)) : Answers(frame, rest, torn)

ReadEOI ==
  /\ Reading
  /\ rx' = <<>>
  /\ UNCHANGED <<attempt, spent>>
  /\ \E k \in 1..Len(input) : \E eoi \in FirstEOI(SubSeq(input, 1, k)) : Ends(k, eoi)

\* The deadline is looked at between two Reads, of which the last may outlast it.
ReadTimesOut ==
  /\ Reading /\ left <= ReadTick
  /\ rx' = <<>>
  /\ UNCHANGED <<attempt, spent>>
  /\ \/ Settles /\ UNCHANGED input
     \/ phase = "read" /\ Fails("timeout", flight, input) /\ UNCHANGED trouble

ReadFails ==
  /\ Reading
  /\ rx' = <<>>
  /\ UNCHANGED <<attempt, spent>>
  /\ \/ Settles /\ UNCHANGED input
     \/ phase = "read" /\ Fails("serial", flight, input) /\ trouble' = TRUE

-----------------------------------------------------------------------------
(* Time *)

MayPassWithoutDeadline ==
  /\ phase = "sleep" => left > 0
  /\ Reading => input = <<>>
  /\ \A i \in DOMAIN flight : flight[i].left > 0

\* A sleep and a read end when they are over, and a Read returns what is there.
MayPass ==
  /\ phase = "sleep" => left > 0
  /\ Reading => left > 0 /\ input = <<>>
  /\ \A i \in DOMAIN flight : flight[i].left > 0

\* A reply to this poll's request takes as long as its read may.
IsLate(r) == IsOurs(r) /\ MaxDelay - r.left >= ReadTimeout

Pass ==
  /\ MayPass
  /\ left' = IF left > 0 THEN left - 1 ELSE 0
  /\ spent' = IF phase = "idle" THEN spent ELSE spent + 1
  /\ flight' = [i \in DOMAIN flight |-> [flight[i] EXCEPT !.left = @ - 1]]
  /\ trouble' = (trouble \/ \E i \in DOMAIN flight : IsLate(flight'[i]))
  /\ UNCHANGED <<phase, attempt, input, rx, result, fresh>>

Next ==
  \/ Arrives \/ IsLost
  \/ WakeIsSent \/ WakeFails
  \/ Exchange \/ ExchangeFails
  \/ ReadMore \/ ReadEOI \/ ReadTimesOut \/ ReadFails
  \/ Pass

Spec == Init /\ [][Next]_vars

-----------------------------------------------------------------------------
(* Correctness *)

\* Type invariant.
TypeOK ==
  /\ phase \in {"idle", "wake", "sleep", "read"}
  /\ left \in Nat /\ spent \in Nat
  /\ attempt \in 0..analogAttempts
  /\ flight \in Seq(Reply)
  /\ input \in Seq(Piece) /\ rx \in Seq(Piece)
  /\ result \in {"none", "ok"} \cup Errors
  /\ fresh \in BOOLEAN /\ trouble \in BOOLEAN

\* Poll stamps a sample with the time of its receipt, so it must not be the
\* answer to a request of an earlier poll, which came late and waited: every
\* piece that a sample was decoded from answers a request of the same poll, if
\* the device does not take longer to answer than two polls are apart.
SampleAnswersThisPoll == MaxDelay < MinIdle => fresh

\* A poll holds up the loop, and with it the flush and the signal, for no longer
\* than its timeouts add up to.
MaxPoll ==
  WakeTimeout + WakeSettle + FlushDelay + analogAttempts * ReadTimeout + 3 * ReadTick

PollIsBounded == spent <= MaxPoll

\* "Failures are non-fatal": whatever becomes of the wake-up, and whenever its reply
\* comes, a poll is heard if its analog replies arrive in time and undamaged and no
\* reset of the input buffer cuts one in two.
InTimeIsHeard ==
  phase = "idle" /\ result # "none" /\ ~trouble /\ MaxDelay < MinIdle /\ ReadTimeout > 0 =>
    result = "ok"
=============================================================================
