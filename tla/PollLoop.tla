------------------------------ MODULE PollLoop ------------------------------
(***************************************************************************)
(* The polling side of runLoop: the serial handle that an attempt opens,   *)
(* uses and drops, the count of consecutive failures, and the wait until   *)
(* the next attempt.                                                       *)
(*                                                                         *)
(* The adapter and the operating system's handles are external.  The port  *)
(* is opened exclusively, a handle does not survive the adapter being      *)
(* unplugged, and an exchange that begins on such a handle ends in an      *)
(* operating system error, never in a timeout.                             *)
(*                                                                         *)
(* An operator whose name says how it departs from the one that follows it *)
(* is a faulty variant, used by no action.                                 *)
(***************************************************************************)
EXTENDS Integers, Sequences

CONSTANTS
  Interval,         \* poll.interval_seconds
  EscalateAfter,    \* escalateAfter
  BackoffSchedule,  \* backoffSchedule, in seconds
  MaxConsecutive    \* bound: the failure count saturates here

ASSUME IntervalAssumption == Interval \in Nat \ {0}
ASSUME EscalateAssumption == EscalateAfter \in Nat \ {0}
ASSUME ScheduleAssumption ==
  BackoffSchedule \in Seq(Nat \ {0}) /\ BackoffSchedule # <<>>
\* The bound must not hide any entry of the schedule.
ASSUME SaturationAssumption ==
  /\ MaxConsecutive \in Nat
  /\ MaxConsecutive >= EscalateAfter + Len(BackoffSchedule) - 1

VARIABLES
  stage,        \* where the loop is
  client,       \* the *bms.Client: none, usable, or on an adapter that is gone
  consecutive,  \* failures since the last success
  delay,        \* what pollTimer was last armed with
  held,         \* handles on the port that the process has open
  stale,        \* polls begun on the handle after its adapter had gone
  link          \* the USB adapter

handle == <<client, held, stale>>
timer == <<consecutive, delay>>
vars == <<stage, handle, timer, link>>

MaxStale == 2   \* bound: stale saturates here, one above what is allowed

Sentinels == {"timeout", "framing", "implausible", "bms"}
Categories == Sentinels \cup {"serial"}

IsPortErrorNever(c) == c \notin Categories

IsPortError(c) == c \notin Sentinels

NextWaitUncapped(n) ==
  IF n < EscalateAfter THEN Interval
  ELSE IF n - EscalateAfter + 1 \in DOMAIN BackoffSchedule
       THEN BackoffSchedule[n - EscalateAfter + 1] ELSE Interval

\* The wait after an attempt that leaves n consecutive failures.
NextWait(n) ==
  LET last == Len(BackoffSchedule)
      idx == n - EscalateAfter + 1
  IN IF n < EscalateAfter THEN Interval
     ELSE BackoffSchedule[IF idx < last THEN idx ELSE last]

OneMore == IF consecutive < MaxConsecutive THEN consecutive + 1 ELSE consecutive

Failed ==
  /\ consecutive' = OneMore
  /\ delay' = NextWait(OneMore)
  /\ stage' = "wait"

Drop ==
  /\ client' = "nil"
  /\ held' = held - 1
  /\ stale' = 0

Init ==
  /\ stage = "off"
  /\ client = "nil"
  /\ consecutive = 0
  /\ delay = 0
  /\ held = 0
  /\ stale = 0
  /\ link \in {"up", "down"}

CanOpen == link = "up" /\ held = 0

\* bms.Open at startup: a failure is not fatal and is not counted, and the
\* first poll fires at once.
Boot ==
  /\ stage = "off"
  /\ \/ CanOpen /\ client' = "live" /\ held' = held + 1 /\ UNCHANGED stale
     \/ UNCHANGED handle
  /\ stage' = "wait"
  /\ consecutive' = 0
  /\ delay' = 0
  /\ UNCHANGED link

\* pollTimer fires: attempt polls, after reopening if it has no client.
Fire ==
  /\ stage = "wait"
  /\ stage' = IF client = "nil" THEN "open" ELSE "poll"
  /\ stale' = IF client = "dead" /\ stale < MaxStale THEN stale + 1 ELSE stale
  /\ UNCHANGED <<client, held, timer, link>>

OpenOk ==
  /\ stage = "open"
  /\ CanOpen
  /\ client' = "live"
  /\ held' = held + 1
  /\ stage' = "poll"
  /\ UNCHANGED <<stale, timer, link>>

\* The adapter is absent, the port is taken, or it cannot be configured.
OpenFails ==
  /\ stage = "open"
  /\ Failed
  /\ UNCHANGED <<handle, link>>

PollOk ==
  /\ stage = "poll"
  /\ stale = 0
  /\ consecutive' = 0
  /\ delay' = NextWait(0)
  /\ stage' = "wait"
  /\ UNCHANGED <<handle, link>>

PollFailsForgetsHandle(c) ==
  /\ stage = "poll"
  /\ stale > 0 => c = "serial"
  /\ IF IsPortError(c)
     THEN client' = "nil" /\ stale' = 0 /\ UNCHANGED held
     ELSE UNCHANGED handle
  /\ Failed
  /\ UNCHANGED link

\* The error of the last attempt of Poll decides: a port error closes the
\* handle, the sentinels keep it.
PollFails(c) ==
  /\ stage = "poll"
  /\ stale > 0 => c = "serial"
  /\ IF IsPortError(c) THEN Drop ELSE UNCHANGED handle
  /\ Failed
  /\ UNCHANGED link

\* ctx.Done() in the select: runLoop returns the handle it has now.
Leave ==
  /\ stage = "wait"
  /\ stage' = "left"
  /\ UNCHANGED <<handle, timer, link>>

CloseSerialTwice ==
  /\ stage = "left"
  /\ stage' = "off"
  /\ Drop
  /\ UNCHANGED <<timer, link>>

\* runServe closes the handle that runLoop returned; a nil one is no handle.
CloseSerial ==
  /\ stage = "left"
  /\ stage' = "off"
  /\ IF client = "nil" THEN UNCHANGED handle ELSE Drop
  /\ UNCHANGED <<timer, link>>

\* The process is killed: the operating system closes its handles.
Crash ==
  /\ stage' = "off"
  /\ client' = "nil"
  /\ held' = 0
  /\ consecutive' = 0
  /\ delay' = 0
  /\ stale' = 0
  /\ UNCHANGED link

Unplug ==
  /\ link = "up"
  /\ link' = "down"
  /\ client' = IF client = "live" THEN "dead" ELSE client
  /\ UNCHANGED <<stage, held, stale, timer>>

Replug ==
  /\ link = "down"
  /\ link' = "up"
  /\ UNCHANGED <<stage, handle, timer>>

Attempt == OpenOk \/ OpenFails \/ PollOk \/ \E c \in Categories : PollFails(c)

Next ==
  \/ Boot
  \/ Fire
  \/ Attempt
  \/ Leave
  \/ CloseSerial
  \/ Crash
  \/ Unplug
  \/ Replug

Spec == Init /\ [][Next]_vars

\* The timer fires, an attempt ends, and a cable and a pack that are fine often
\* enough are used: the adapter opens and the pack answers again and again.
FairSpec ==
  /\ Spec
  /\ WF_vars(Boot) /\ WF_vars(Fire) /\ WF_vars(Attempt)
  /\ SF_vars(OpenOk) /\ SF_vars(PollOk)

-----------------------------------------------------------------------------
(* Correctness *)

Waits == {0, Interval} \cup {BackoffSchedule[i] : i \in DOMAIN BackoffSchedule}

\* Type invariant.
TypeOK ==
  /\ stage \in {"off", "wait", "open", "poll", "left"}
  /\ client \in {"nil", "live", "dead"}
  /\ consecutive \in 0..MaxConsecutive
  /\ delay \in Waits
  /\ held \in 0..1
  /\ stale \in 0..MaxStale
  /\ link \in {"up", "down"}

\* The process holds the port exactly while it has a client: no handle leaks
\* through the reconnects, so the exclusive port can be opened again, and none
\* is left once the service has stopped.
NoHandleLeak ==
  /\ held = IF client = "nil" THEN 0 ELSE 1
  /\ stage = "off" => held = 0

\* A handle whose adapter has gone costs at most one more poll.  The poll that
\* was running when the cable was pulled may still end in a timeout or damaged
\* frames, which keep the handle; the next one gets the port error that drops
\* it.  Without that, the exclusive port would stay taken, every later attempt
\* would fail and the adapter would never be reopened.
StaleHandleFailsOnce ==
  /\ stale <= 1
  /\ stale = 1 => stage = "poll"

\* Once a run of failures has escalated, one more failure never shortens the
\* wait.  (The step into the first backoff may: the default interval of 15 s is
\* longer than its 5 s.)
BackoffClimbs ==
  [][consecutive >= EscalateAfter /\ consecutive' >= consecutive
       => delay' >= delay]_vars

\* The serial side works again after any number of unplugs: if the adapter
\* stays plugged in and the service is not stopped, polls succeed for ever.
CableBackMeansPolling ==
  <>[](link = "up" /\ stage \notin {"off", "left"})
    => []<>(client = "live" /\ consecutive = 0)
=============================================================================
