--------------------------- MODULE PollLoopProofs ---------------------------
(***************************************************************************)
(* Proofs about PollLoop for every interval, threshold and schedule.       *)
(***************************************************************************)
EXTENDS PollLoop, TLAPS

\* A wait that follows a failure is the one its failure count calls for.
WaitFollowsCount == consecutive > 0 => delay = NextWait(consecutive)

\* There is no client when the service is stopped or about to open the port.
NilBeforeOpen == stage \in {"off", "open"} => client = "nil"

\* A poll has a client to poll.
PollHasClient == stage = "poll" => client # "nil"

IInv ==
  /\ TypeOK
  /\ NoHandleLeak
  /\ StaleHandleFailsOnce
  /\ WaitFollowsCount
  /\ NilBeforeOpen
  /\ PollHasClient

\* The wait is always one of the configured ones.
LEMMA NextWaitIsAWait ==
  ASSUME NEW n \in Nat
  PROVE  NextWait(n) \in Waits
<1> USE EscalateAssumption, ScheduleAssumption
<1>1. CASE n < EscalateAfter
  BY <1>1 DEF NextWait, Waits
<1>2. CASE n >= EscalateAfter
  <2> DEFINE idx == n - EscalateAfter + 1
             i == IF idx < Len(BackoffSchedule) THEN idx ELSE Len(BackoffSchedule)
  <2>1. Len(BackoffSchedule) \in Nat \ {0} /\ DOMAIN BackoffSchedule = 1..Len(BackoffSchedule)
    OBVIOUS
  <2>2. i \in DOMAIN BackoffSchedule
    BY <1>2, <2>1
  <2>3. NextWait(n) = BackoffSchedule[i]
    BY <1>2 DEF NextWait
  <2> QED
    BY <2>2, <2>3 DEF Waits
<1> QED
  BY <1>1, <1>2

\* Every step preserves the invariant.
LEMMA InvStep ==
  ASSUME IInv, [Next]_vars
  PROVE  IInv'
<1> USE IntervalAssumption, EscalateAssumption, SaturationAssumption
<1> USE DEF IInv, TypeOK, NoHandleLeak, StaleHandleFailsOnce, WaitFollowsCount,
            NilBeforeOpen, PollHasClient, handle, timer, MaxStale
<1>1. /\ OneMore \in 1..MaxConsecutive /\ NextWait(OneMore) \in Waits
      /\ Interval \in Waits /\ 0 \in Waits
  <2>1. MaxConsecutive >= 1
    BY ScheduleAssumption
  <2>2. OneMore \in 1..MaxConsecutive
    BY <2>1 DEF OneMore
  <2> QED
    BY <2>2, NextWaitIsAWait DEF Waits
<1>2. NextWait(0) = Interval
  BY DEF NextWait
<1>3. CASE Boot
  <2>1. /\ stage = "off" /\ client = "nil" /\ held = 0 /\ stale = 0
        /\ stage' = "wait" /\ consecutive' = 0 /\ delay' = 0
        /\ stale' = stale /\ link' = link
    BY <1>3 DEF Boot
  <2>2. CASE CanOpen /\ client' = "live" /\ held' = held + 1 /\ UNCHANGED stale
    BY <1>1, <2>1, <2>2 DEF CanOpen
  <2>3. CASE UNCHANGED handle
    BY <1>1, <2>1, <2>3
  <2> QED
    BY <1>3, <2>2, <2>3 DEF Boot
<1>4. CASE Fire
  BY <1>4 DEF Fire
<1>5. CASE OpenOk
  <2>1. /\ held' = 1 /\ client' = "live" /\ stage' = "poll" /\ link = "up" /\ link' = "up"
        /\ UNCHANGED <<consecutive, delay, stale>> /\ stale = 0
    BY <1>5 DEF OpenOk, CanOpen
  <2> QED
    BY <2>1, <1>5 DEF OpenOk
<1>6. CASE OpenFails
  <2>1. /\ stage' = "wait" /\ consecutive' = OneMore /\ delay' = NextWait(OneMore)
        /\ UNCHANGED <<client, held, stale, link>> /\ stale = 0
    BY <1>6 DEF OpenFails, Failed
  <2> QED
    BY <1>1, <2>1
<1>7. CASE PollOk
  BY <1>1, <1>2, <1>7 DEF PollOk
<1>8. CASE \E c \in Categories : PollFails(c)
  <2> PICK c \in Categories : PollFails(c)
    BY <1>8
  <2>1. /\ stage = "poll" /\ stage' = "wait" /\ link' = link
        /\ consecutive' = OneMore /\ delay' = NextWait(OneMore)
    BY DEF PollFails, Failed
  <2>2. stale' = 0
    \* What begins on a handle without an adapter ends in a port error.
    <3>1. CASE stale > 0
      <4>1. IsPortError(c)
        BY <3>1 DEF PollFails, IsPortError, Sentinels
      <4> QED
        BY <4>1 DEF PollFails, Drop
    <3>2. CASE stale = 0
      BY <3>2 DEF PollFails, Drop
    <3> QED
      BY <3>1, <3>2
  <2>3. \/ client' = "nil" /\ held' = held - 1
        \/ client' = client /\ held' = held
    BY DEF PollFails, Drop
  <2>4. TypeOK'
    BY <1>1, <2>1, <2>2, <2>3
  <2>5. NoHandleLeak'
    BY <2>1, <2>3
  <2>6. StaleHandleFailsOnce'
    BY <2>2
  <2>7. WaitFollowsCount'
    BY <2>1
  <2> QED
    BY <2>1, <2>4, <2>5, <2>6, <2>7
<1>9. CASE Leave
  BY <1>9 DEF Leave
<1>10. CASE CloseSerial
  <2>1. /\ stage' = "off" /\ link' = link
        /\ consecutive' = consecutive /\ delay' = delay /\ client' = "nil"
    BY <1>10 DEF CloseSerial, Drop
  <2>2. held' = 0 /\ stale' = 0
    <3>1. CASE client = "nil"
      BY <1>10, <3>1 DEF CloseSerial
    <3>2. CASE client # "nil"
      BY <1>10, <3>2 DEF CloseSerial, Drop
    <3> QED
      BY <3>1, <3>2
  <2> QED
    BY <2>1, <2>2
<1>11. CASE Crash
  <2>1. /\ stage' = "off" /\ client' = "nil" /\ held' = 0 /\ consecutive' = 0
        /\ delay' = 0 /\ stale' = 0 /\ link' = link
    BY <1>11 DEF Crash
  <2>2. TypeOK' /\ NoHandleLeak'
    BY <1>1, <2>1
  <2> QED
    BY <2>1, <2>2
<1>12. CASE Unplug \/ Replug
  BY <1>12 DEF Unplug, Replug
<1>13. CASE UNCHANGED vars
  BY <1>13 DEF vars
<1> QED
  BY <1>3, <1>4, <1>5, <1>6, <1>7, <1>8, <1>9, <1>10, <1>11, <1>12, <1>13
     DEF Next, Attempt

\* IInv is an invariant.
THEOREM Inductive == Spec => []IInv
<1>1. Init => IInv
  <2> SUFFICES ASSUME Init PROVE IInv
    OBVIOUS
  <2>1. TypeOK
    BY SaturationAssumption DEF Init, TypeOK, Waits, MaxStale
  <2> QED
    BY <2>1 DEF Init, IInv, NoHandleLeak, StaleHandleFailsOnce, WaitFollowsCount,
                NilBeforeOpen, PollHasClient
<1> QED
  BY <1>1, InvStep, PTL DEF Spec

\* Type correctness, whatever fails and however often.
THEOREM TypeCorrect == Spec => []TypeOK
<1>1. IInv => TypeOK
  BY DEF IInv
<1> QED
  BY <1>1, Inductive, PTL

\* The process never leaks a handle on the port, whatever fails and however
\* often the adapter comes and goes.
THEOREM NoLeak == Spec => []NoHandleLeak
<1>1. IInv => NoHandleLeak
  BY DEF IInv
<1> QED
  BY <1>1, Inductive, PTL

\* A handle whose adapter has gone costs at most one more poll: isPortError
\* takes for a port error all that such a poll can end in, and attempt drops
\* the handle then.
THEOREM StaleHandle == Spec => []StaleHandleFailsOnce
<1>1. IInv => StaleHandleFailsOnce
  BY DEF IInv
<1> QED
  BY <1>1, Inductive, PTL

-----------------------------------------------------------------------------
(* The backoff climbs *)

\* The schedule never steps down.
Climbing ==
  \A i, j \in DOMAIN BackoffSchedule :
    i <= j => BackoffSchedule[i] <= BackoffSchedule[j]

\* With such a schedule one more failure does not shorten an escalated wait.
LEMMA NextWaitClimbs ==
  ASSUME Climbing, NEW n \in Nat, n >= EscalateAfter
  PROVE  NextWait(n) <= NextWait(n + 1)
<1> USE IntervalAssumption, EscalateAssumption, ScheduleAssumption DEF Climbing
<1> DEFINE last == Len(BackoffSchedule)
           entry(k) == IF k - EscalateAfter + 1 < last THEN k - EscalateAfter + 1 ELSE last
<1>1. last \in Nat \ {0} /\ DOMAIN BackoffSchedule = 1..last
  OBVIOUS
<1>2. NextWait(n) = BackoffSchedule[entry(n)] /\ NextWait(n + 1) = BackoffSchedule[entry(n + 1)]
  BY DEF NextWait
<1>3. entry(n) \in 1..last /\ entry(n + 1) \in 1..last /\ entry(n) <= entry(n + 1)
  BY <1>1
<1> QED
  BY <1>1, <1>2, <1>3

\* With a schedule that climbs, an escalated run of failures never polls faster
\* than before.
THEOREM Backoff ==
  ASSUME Climbing
  PROVE  Spec => BackoffClimbs
<1>1. ASSUME IInv, [Next]_vars
      PROVE  [consecutive >= EscalateAfter /\ consecutive' >= consecutive => delay' >= delay]_vars
  <2> SUFFICES ASSUME consecutive >= EscalateAfter, consecutive' >= consecutive
               PROVE  delay' >= delay
    OBVIOUS
  <2>1. consecutive \in Nat /\ delay = NextWait(consecutive) /\ delay \in Int
    <3>1. \A i \in DOMAIN BackoffSchedule : BackoffSchedule[i] \in Nat
      BY ScheduleAssumption
    <3> QED
      BY <1>1, <3>1, IntervalAssumption, EscalateAssumption, SaturationAssumption
         DEF IInv, TypeOK, WaitFollowsCount, Waits
  <2>2. CASE Failed
    <3>1. OneMore = consecutive \/ OneMore = consecutive + 1
      BY DEF OneMore
    <3>2. delay' = NextWait(OneMore)
      BY <2>2 DEF Failed
    <3>3. NextWait(consecutive) <= NextWait(consecutive + 1)
      BY <2>1, NextWaitClimbs
    <3> QED
      BY <2>1, <3>1, <3>2, <3>3
  <2>3. CASE delay' = delay
    BY <2>1, <2>3
  <2>4. CASE consecutive' = 0
    BY <2>1, <2>4, EscalateAssumption
  <2> QED
    BY <1>1, <2>2, <2>3, <2>4 DEF Next, Attempt, Boot, Fire, OpenOk, OpenFails, PollOk,
       PollFails, Leave, CloseSerial, Crash, Unplug, Replug, vars, timer
<1> QED
  BY <1>1, Inductive, PTL DEF Spec, BackoffClimbs
=============================================================================
