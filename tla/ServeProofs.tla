----------------------------- MODULE ServeProofs -----------------------------
(***************************************************************************)
(* Proofs about Serve.  The composed service only takes steps of its       *)
(* parts, so what is proved of the parts holds of the service; with the    *)
(* phases of runServe and what each of them has achieved, this gives that  *)
(* a stop without an error keeps everything, and that no sample is lost    *)
(* in silence.                                                             *)
(***************************************************************************)
EXTENDS Serve, TLAPS

SP == INSTANCE StoreProofs
PP == INSTANCE PollLoopProofs

\* Every step of the service is a step of the store or leaves it alone.
LEMMA StoreStep ==
  ASSUME [Next]_vars
  PROVE  [St!Next]_St!vars
<1> USE DEF St!Next, St!Healthy, St!FlushStep, St!PruneStep
<1>1. CASE UNCHANGED store
  BY <1>1 DEF store, St!vars, St!durability, St!tx, St!clock
<1>2. CASE Start
  BY <1>2 DEF Start
<1>3. CASE ListenFails \/ CloseStore
  BY <1>3 DEF ListenFails, CloseStore
<1>4. CASE StartupPrune \/ SelectPrune
  BY <1>4 DEF StartupPrune, SelectPrune
<1>5. CASE SelectFlush \/ FinalFlush
  BY <1>5 DEF SelectFlush, FinalFlush
<1>6. CASE PollSucceeds
  BY <1>6 DEF PollSucceeds
<1>7. CASE Tx
  BY <1>7 DEF Tx, TxStatement, TxCommit, TxConflict, TxError
<1>8. CASE ExitProcess \/ Kill \/ PowerFails
  BY <1>8 DEF ExitProcess, Kill, PowerFails
<1>9. CASE World
  BY <1>1, <1>9 DEF World
<1>10. CASE \/ Listen \/ PruneSkipped \/ OpenSerial \/ SelectDone \/ SelectPoll \/ PollGoesOn
            \/ HttpStops \/ HttpTimesOut \/ FinalFlushEmpty \/ CloseSerial
            \/ Signal \/ RequestBegins \/ RequestEnds \/ UNCHANGED vars
  BY <1>1, <1>10 DEF Listen, PruneSkipped, OpenSerial, SelectDone, SelectPoll, PollGoesOn,
     HttpStops, HttpTimesOut, FinalFlushEmpty, CloseSerial, Signal, RequestBegins,
     RequestEnds, vars
<1> QED
  BY <1>2, <1>3, <1>4, <1>5, <1>6, <1>7, <1>8, <1>9, <1>10
     DEF Next, Startup, Poll, Shutdown

\* Every step of the service is a step of the serial side or leaves it alone.
LEMMA PollLoopStep ==
  ASSUME [Next]_vars
  PROVE  [PL!Next]_PL!vars
<1> USE DEF PL!Next, PL!Attempt
<1>1. CASE UNCHANGED serial
  BY <1>1 DEF serial, PL!vars, PL!handle, PL!timer
<1>2. CASE OpenSerial \/ SelectDone \/ SelectPoll \/ PollSucceeds \/ PollGoesOn \/ CloseSerial
  BY <1>2 DEF OpenSerial, SelectDone, SelectPoll, PollSucceeds, PollGoesOn, CloseSerial
<1>3. CASE Kill \/ PowerFails
  BY <1>3 DEF Kill, PowerFails
<1>4. CASE World
  BY <1>1, <1>4 DEF World
<1>5. CASE \/ Start \/ Listen \/ ListenFails \/ PruneSkipped \/ StartupPrune
           \/ SelectFlush \/ SelectPrune \/ Tx
           \/ HttpStops \/ HttpTimesOut \/ FinalFlush \/ FinalFlushEmpty \/ CloseStore
           \/ ExitProcess \/ Signal \/ RequestBegins \/ RequestEnds \/ UNCHANGED vars
  BY <1>1, <1>5 DEF Start, Listen, ListenFails, PruneSkipped, StartupPrune, SelectFlush,
     SelectPrune, Tx, TxStatement, TxCommit, TxConflict, TxError, HttpStops, HttpTimesOut,
     FinalFlush, FinalFlushEmpty, CloseStore, ExitProcess, Signal, RequestBegins,
     RequestEnds, vars
<1> QED
  BY <1>2, <1>3, <1>4, <1>5 DEF Next, Startup, Poll, Shutdown

\* So what holds of the store and of the serial side by themselves holds of them
\* in the service.
LEMMA StoreIsUsed == Spec => St!Spec
<1>1. Init => St!Init
  BY DEF Init
<1> QED
  BY <1>1, StoreStep, PTL DEF Spec, St!Spec

LEMMA PollLoopIsUsed == Spec => PL!Spec
<1>1. Init => PL!Init
  BY DEF Init
<1> QED
  BY <1>1, PollLoopStep, PTL DEF Spec, PL!Spec

-----------------------------------------------------------------------------
(* What is proved of the parts holds of the service *)

\* StoreProofs speaks of its own copy of the definitions of Store.
LEMMA SameStore ==
  /\ St!Init <=> SP!Init
  /\ [St!Next]_St!vars <=> [SP!Next]_SP!vars
  /\ SP!PollsAreWhole <=> St!PollsAreWhole
<1>1. St!Init <=> SP!Init
  BY DEF St!Init, SP!Init, St!NoRows, SP!NoRows
<1>2. [St!Next]_St!vars <=> [SP!Next]_SP!vars
  BY DEF St!Next, SP!Next, St!Healthy, SP!Healthy, St!FlushStep, SP!FlushStep,
         St!PruneStep, SP!PruneStep, St!Open, SP!Open, St!Add, SP!Add,
         St!FlushBegin, SP!FlushBegin, St!FlushInsert, SP!FlushInsert,
         St!FlushConflict, SP!FlushConflict, St!FlushError, SP!FlushError,
         St!FlushCommit, SP!FlushCommit, St!PruneBegin, SP!PruneBegin,
         St!PruneTable, SP!PruneTable, St!PruneError, SP!PruneError,
         St!PruneCommit, SP!PruneCommit, St!Close, SP!Close, St!Die, SP!Die,
         St!PowerLoss, SP!PowerLoss, St!Tick, SP!Tick, St!StepBack, SP!StepBack,
         St!Begin, SP!Begin, St!Commit, SP!Commit, St!Rollback, SP!Rollback,
         St!NewSample, SP!NewSample, St!Inserted, SP!Inserted,
         St!Conflicts, SP!Conflicts, St!KeyTaken, SP!KeyTaken, St!Kept, SP!Kept,
         St!RowOf, SP!RowOf, St!CellRowsOf, SP!CellRowsOf,
         St!TempRowsOf, SP!TempRowsOf, St!vars, SP!vars,
         St!durability, SP!durability, St!tx, SP!tx, St!clock, SP!clock
<1>3. SP!PollsAreWhole <=> St!PollsAreWhole
  BY DEF St!PollsAreWhole, SP!PollsAreWhole, St!TablesAgree, SP!TablesAgree, St!Ids, SP!Ids,
         St!RowOf, SP!RowOf, St!CellRowsOf, SP!CellRowsOf, St!TempRowsOf, SP!TempRowsOf
<1> QED
  BY <1>1, <1>2, <1>3

\* The inductive invariant of the store holds ...
LEMMA StoreInvariant == Spec => []SP!IInv
<1>1. St!Spec => SP!Spec
  BY SameStore, PTL DEF St!Spec, SP!Spec
<1>2. SP!Spec => []SP!IInv
  BY StoreAssumption, SP!Inductive
     DEF SP!ShapesAssumption, SP!RetentionAssumption, SP!BoundsAssumption
<1> QED
  BY <1>1, <1>2, StoreIsUsed, PTL

\* ... so that the database of the service consists of whole polls ...
THEOREM ServiceKeepsWholePolls == Spec => []St!PollsAreWhole
<1>1. St!Spec => SP!Spec
  BY SameStore, PTL DEF St!Spec, SP!Spec
<1>2. SP!Spec => []SP!PollsAreWhole
  BY StoreAssumption, SP!WholePolls DEF SP!ShapesAssumption
<1> QED
  BY <1>1, <1>2, StoreIsUsed, SameStore, PTL

\* ... never stores a poll twice ...
THEOREM ServiceNeverStoresTwice == Spec => []St!NeverTwice
<1>1. SP!NeverTwice <=> St!NeverTwice
  BY DEF SP!NeverTwice, St!NeverTwice, SP!Buffered, St!Buffered, SP!Ids, St!Ids
<1>2. St!Spec => SP!Spec
  BY SameStore, PTL DEF St!Spec, SP!Spec
<1>3. SP!Spec => []SP!NeverTwice
  BY StoreAssumption, SP!NoPollTwice
<1> QED
  BY <1>1, <1>2, <1>3, StoreIsUsed, PTL

\* ... and the process never leaks a handle on the port.
THEOREM ServiceNeverLeaksHandle == Spec => []PL!NoHandleLeak
<1>1. /\ PL!Init <=> PP!Init
      /\ [PL!Next]_PL!vars <=> [PP!Next]_PP!vars
      /\ PP!NoHandleLeak <=> PL!NoHandleLeak
  BY DEF PL!Init, PP!Init, PL!Next, PP!Next, PL!vars, PP!vars, PL!handle, PP!handle,
         PL!timer, PP!timer, PL!Attempt, PP!Attempt, PL!Boot, PP!Boot, PL!Fire, PP!Fire,
         PL!OpenOk, PP!OpenOk, PL!OpenFails, PP!OpenFails, PL!PollOk, PP!PollOk,
         PL!PollFails, PP!PollFails, PL!Leave, PP!Leave, PL!CloseSerial, PP!CloseSerial,
         PL!Crash, PP!Crash, PL!Unplug, PP!Unplug, PL!Replug, PP!Replug, PL!Failed, PP!Failed,
         PL!Drop, PP!Drop, PL!OneMore, PP!OneMore, PL!NextWait, PP!NextWait,
         PL!CanOpen, PP!CanOpen, PL!IsPortError, PP!IsPortError, PL!Categories, PP!Categories,
         PL!Sentinels, PP!Sentinels, PL!MaxStale, PP!MaxStale, PL!NoHandleLeak, PP!NoHandleLeak
<1>2. PL!Spec => PP!Spec
  BY <1>1, PTL DEF PL!Spec, PP!Spec
<1>3. PP!Spec => []PP!NoHandleLeak
  BY PollLoopAssumption, PP!NoLeak
<1> QED
  BY <1>1, <1>2, <1>3, PollLoopIsUsed, PTL

-----------------------------------------------------------------------------
(* A graceful stop keeps everything *)

Stages == {"off", "wait", "open", "poll", "left"}

\* The phases, with what makes PhasesAgree inductive: a transaction is open only
\* while the goroutine is not in an attempt.
PhaseInv ==
  /\ PhasesAgree
  /\ stage \in Stages
  /\ op \in {"none", "idle", "flush", "prune", "closed"}
  /\ op \in {"flush", "prune"} => stage \in {"off", "wait", "left"}
  /\ op = "flush" => phase \in {"loop", "final"}
  /\ op = "prune" => phase \in {"prune", "loop"}
  /\ phase = "serialclose" => op = "closed"
  /\ phase = "exit" => op = "closed" /\ exit # "none"

\* No request is in progress, and none can come.
NoRequests == readers = 0 /\ ~reachable

\* What the shutdown has achieved by each of its phases, unless it logged an error.
ShutdownInv ==
  /\ readers \in Nat
  /\ phase \in {"down", "web"} => NoRequests /\ buf = <<>>
  /\ phase = "exit" /\ exit # "ok" => NoRequests /\ buf = <<>>
  /\ ~failed /\ phase \in {"final", "close", "serialclose"} => NoRequests
  /\ ~failed /\ phase = "exit" => NoRequests
  /\ ~failed /\ phase \in {"close", "serialclose"} => buf = <<>>
  /\ ~failed /\ phase = "exit" /\ exit = "ok" => buf = <<>>
  /\ ~failed /\ phase = "serialclose" => recoverable = {disk}
  /\ ~failed /\ phase = "exit" /\ exit = "ok" => recoverable = {disk}

SInv == PhaseInv /\ ShutdownInv

\* Every step of the service preserves the two.
LEMMA SInvStep ==
  ASSUME SInv, [Next]_vars
  PROVE  SInv'
<1> USE DEF SInv, PhaseInv, PhasesAgree, ShutdownInv, NoRequests, NoConnections, Stages
<1>1. CASE Start
  BY <1>1 DEF Start, St!Open, St!durability, serial
<1>2. CASE Listen
  BY <1>2 DEF Listen, store, serial, process
<1>3. CASE ListenFails
  BY <1>3 DEF ListenFails, St!Close, serial
<1>4. CASE PruneSkipped
  BY <1>4 DEF PruneSkipped, store, serial, process
<1>5. CASE StartupPrune
  BY <1>5 DEF StartupPrune, St!PruneBegin, St!Begin, St!durability, serial, process
<1>6. CASE OpenSerial
  BY <1>6 DEF OpenSerial, PL!Boot, store, process
<1>7. CASE SelectDone
  BY <1>7 DEF SelectDone, AtSelect, PL!Leave, store, process
<1>8. CASE SelectFlush
  BY <1>8 DEF SelectFlush, AtSelect, St!FlushBegin, St!Begin, St!durability, serial, process
<1>9. CASE SelectPrune
  BY <1>9 DEF SelectPrune, AtSelect, St!PruneBegin, St!Begin, St!durability, serial, process
<1>10. CASE SelectPoll
  BY <1>10 DEF SelectPoll, AtSelect, PL!Fire, store, process
<1>11. CASE PollSucceeds
  BY <1>11 DEF PollSucceeds, PL!PollOk, St!Add, St!durability, process
<1>12. CASE PollGoesOn
  BY <1>12 DEF PollGoesOn, PL!OpenOk, PL!OpenFails, PL!PollFails, PL!Failed, store, process
<1>13. CASE TxStatement
  BY <1>13 DEF TxStatement, St!FlushInsert, St!PruneTable, St!durability, serial, process
<1>14. CASE TxCommit
  BY <1>14 DEF TxCommit, AfterTx, St!FlushCommit, St!PruneCommit, St!Commit, serial, process
<1>15. CASE TxConflict
  BY <1>15 DEF TxConflict, AfterTx, LogIfFinal, St!FlushConflict, St!Rollback, St!durability,
     serial
<1>16. CASE TxError
  BY <1>16 DEF TxError, AfterTx, LogIfFinal, St!FlushError, St!PruneError, St!Rollback,
     St!durability, serial
<1>17. CASE HttpStops \/ HttpTimesOut \/ FinalFlushEmpty
  BY <1>17 DEF HttpStops, HttpTimesOut, FinalFlushEmpty, store, serial, process
<1>18. CASE FinalFlush
  BY <1>18 DEF FinalFlush, St!FlushBegin, St!Begin, St!durability, serial, process
<1>19. CASE CloseStore
  <2>1. CASE failed' = failed
    BY <1>19, <2>1 DEF CloseStore, St!Close, serial
  <2>2. CASE failed' = TRUE
    BY <1>19, <2>2 DEF CloseStore, St!Close, serial
  <2> QED
    BY <1>19, <2>1, <2>2 DEF CloseStore
<1>20. CASE CloseSerial
  BY <1>20 DEF CloseSerial, PL!CloseSerial, store
<1>21. CASE ExitProcess
  BY <1>21 DEF ExitProcess, St!Die, serial
<1>22. CASE Kill \/ PowerFails
  BY <1>22 DEF Kill, PowerFails, St!Die, St!PowerLoss, PL!Crash
<1>23. CASE Signal \/ RequestBegins \/ RequestEnds
  BY <1>23 DEF Signal, RequestBegins, RequestEnds, store, serial
<1>24. CASE World
  BY <1>24 DEF World, St!Tick, St!StepBack, St!durability, PL!Unplug, PL!Replug, store,
     serial, process
<1>25. CASE UNCHANGED vars
  BY <1>25 DEF vars, store, serial, process
<1> QED
  BY <1>1, <1>2, <1>3, <1>4, <1>5, <1>6, <1>7, <1>8, <1>9, <1>10, <1>11, <1>12, <1>13,
     <1>14, <1>15, <1>16, <1>17, <1>18, <1>19, <1>20, <1>21, <1>22, <1>23, <1>24, <1>25
     DEF Next, Startup, Tx, Poll, Shutdown

\* The two are invariants.
THEOREM ServiceInductive == Spec => []SInv
<1>1. Init => SInv
  BY DEF Init, St!Init, PL!Init, SInv, PhaseInv, PhasesAgree, ShutdownInv, NoRequests,
         Stages
<1> QED
  BY <1>1, SInvStep, PTL DEF Spec

\* The phases of runServe agree with what the store and the serial side are doing.
THEOREM PhasesAlwaysAgree == Spec => []PhasesAgree
<1>1. SInv => PhasesAgree
  BY DEF SInv, PhaseInv
<1> QED
  BY <1>1, ServiceInductive, PTL

\* A stop with exit code 0 that logged no error has an empty buffer, a database
\* that no power loss can take back, and no handle left.
THEOREM GracefulStop == Spec => []GracefulStopKeepsEverything
<1>1. SInv /\ PL!NoHandleLeak => GracefulStopKeepsEverything
  BY DEF SInv, PhaseInv, PhasesAgree, Stages, ShutdownInv, PL!NoHandleLeak,
         GracefulStopKeepsEverything
<1> QED
  BY <1>1, ServiceInductive, ServiceNeverLeaksHandle, PTL

\* No request reads a closed store, unless the HTTP stop timed out.
THEOREM ReadersAreSafe == Spec => []NoReadAfterClose
<1>1. SInv => NoReadAfterClose
  BY DEF SInv, PhaseInv, PhasesAgree, ShutdownInv, NoRequests, NoReadAfterClose
<1> QED
  BY <1>1, ServiceInductive, PTL

-----------------------------------------------------------------------------
(* Nothing is lost silently *)

\* A commit of a flush has written all that it takes out of the buffer.
LEMMA FlushTakesNothing ==
  ASSUME SP!IInv, St!FlushCommit
  PROVE  Samples \subseteq Samples'
<1>1. /\ op = "flush" /\ pos = Len(buf) /\ disk' = work
      /\ buf \in Seq(SP!Sample)
  BY DEF St!FlushCommit, St!Commit, SP!IInv, SP!TypeOK
<1>2. SP!Ids(work.samples) = SP!Ids(disk.samples) \cup {buf[i].id : i \in 1..Len(buf)}
  BY <1>1 DEF SP!IInv, SP!TxInv, SP!WorkInFlush, SP!InsertedIds
<1>3. St!Buffered = {buf[i].id : i \in 1..Len(buf)}
  BY <1>1 DEF St!Buffered
<1> QED
  BY <1>1, <1>2, <1>3 DEF Samples, St!Ids, SP!Ids

\* A commit of a prune takes away what was polled before its cutoff.
LEMMA PruneTakesExpired ==
  ASSUME SP!IInv, St!PruneCommit, NEW i \in Samples \ Samples'
  PROVE  op = "prune" /\ polled[i].ts < cutoff
<1>1. op = "prune" /\ pos = 3 /\ disk' = work /\ buf' = buf
  BY DEF St!PruneCommit, St!Commit
<1>2. PICK r \in disk.samples : r.id = i /\ r \notin work.samples
  BY <1>1 DEF Samples, St!Ids, St!Buffered
<1>3. work.samples = SP!Kept(disk.samples, cutoff)
  BY <1>1 DEF SP!IInv, SP!TxInv, SP!WorkInPrune, SP!PrunedTo
<1>4. r = SP!RowOf(polled[i]) /\ r.ts \in Int /\ cutoff \in Int
  BY <1>2 DEF SP!IInv, SP!DataInv, SP!PollsAreWhole, SP!TablesAgree, SP!TypeOK, SP!Tables,
     SP!SampleRow
<1>5. ~(r.ts >= cutoff)
  BY <1>2, <1>3 DEF SP!Kept
<1> QED
  BY <1>1, <1>4, <1>5 DEF SP!RowOf

\* No step takes a sample away unnoticed.
LEMMA NothingLostStep ==
  ASSUME SP!IInv, SInv, [Next]_vars, NEW i \in Samples \ Samples'
  PROVE  \/ op = "prune" /\ polled[i].ts < cutoff
         \/ exit' = "killed"
         \/ phase = "exit" /\ failed
<1> DEFINE Goal == \/ op = "prune" /\ polled[i].ts < cutoff
                   \/ exit' = "killed"
                   \/ phase = "exit" /\ failed
<1> SUFFICES Goal
  OBVIOUS
<1>1. ~(Samples \subseteq Samples')
  OBVIOUS
<1>2. ASSUME buf' = buf, disk' = disk PROVE FALSE
  BY <1>1, <1>2 DEF Samples, St!Buffered
<1> HIDE DEF Goal
<1>3. CASE UNCHANGED store
  BY <1>2, <1>3 DEF store
<1>4. CASE Start \/ ListenFails \/ CloseStore
  BY <1>2, <1>4 DEF Start, ListenFails, CloseStore, St!Open, St!Close, St!durability
<1>5. CASE StartupPrune \/ SelectPrune \/ SelectFlush \/ FinalFlush
  BY <1>2, <1>5 DEF StartupPrune, SelectPrune, SelectFlush, FinalFlush, St!PruneBegin,
     St!FlushBegin, St!durability
<1>6. CASE PollSucceeds
  <2> PICK sh \in Shapes : St!Add(sh)
    BY <1>6 DEF PollSucceeds
  <2>1. disk' = disk /\ buf' = Append(buf, St!NewSample(sh)) /\ buf \in Seq(SP!Sample)
    BY DEF St!Add, St!durability, SP!IInv, SP!TypeOK
  <2>2. \A k \in DOMAIN buf : k \in DOMAIN buf' /\ buf'[k] = buf[k]
    BY <2>1
  <2> QED
    BY <1>1, <2>1, <2>2 DEF Samples, St!Buffered
<1>7. CASE Tx
  <2>1. CASE St!FlushInsert \/ St!PruneTable
    BY <1>2, <2>1 DEF St!FlushInsert, St!PruneTable, St!durability
  <2>2. CASE St!FlushCommit
    BY <1>1, <2>2, FlushTakesNothing
  <2>3. CASE St!PruneCommit
    BY <2>3, PruneTakesExpired DEF Goal
  <2>4. CASE St!FlushConflict \/ St!FlushError \/ St!PruneError
    BY <1>2, <2>4 DEF St!FlushConflict, St!FlushError, St!PruneError, St!durability
  <2> QED
    BY <1>7, <2>1, <2>2, <2>3, <2>4 DEF Tx, TxStatement, TxCommit, TxConflict, TxError
<1>8. CASE ExitProcess
  <2>1. disk' = disk /\ phase = "exit"
    BY <1>8 DEF ExitProcess, St!Die, St!durability
  <2>2. CASE failed
    BY <2>1, <2>2 DEF Goal
  <2>3. CASE ~failed
    <3>1. buf = <<>>
      BY <2>1, <2>3 DEF SInv, ShutdownInv
    <3> QED
      BY <1>1, <2>1, <3>1 DEF Samples, St!Buffered
  <2> QED
    BY <2>2, <2>3
<1>9. CASE Kill \/ PowerFails
  BY <1>9 DEF Kill, PowerFails, Goal
<1>10. CASE World
  BY <1>2, <1>3, <1>10 DEF World, St!Tick, St!StepBack, St!durability
<1>11. CASE \/ Listen \/ PruneSkipped \/ OpenSerial \/ SelectDone \/ SelectPoll \/ PollGoesOn
            \/ HttpStops \/ HttpTimesOut \/ FinalFlushEmpty \/ CloseSerial
            \/ Signal \/ RequestBegins \/ RequestEnds \/ UNCHANGED vars
  BY <1>3, <1>11 DEF Listen, PruneSkipped, OpenSerial, SelectDone, SelectPoll, PollGoesOn,
     HttpStops, HttpTimesOut, FinalFlushEmpty, CloseSerial, Signal, RequestBegins,
     RequestEnds, vars
<1> QED
  BY <1>4, <1>5, <1>6, <1>7, <1>8, <1>9, <1>10, <1>11 DEF Next, Startup, Poll, Shutdown

\* A sample leaves the service only by expiring, by a kill, or at the end of a
\* shutdown that logged an error, for any bounds, schedule and retention.
THEOREM NothingIsLost == Spec => NothingIsLostSilently
<1>1. ASSUME SP!IInv, SInv, [Next]_vars
      PROVE  [\A i \in Samples \ Samples' :
                \/ op = "prune" /\ polled[i].ts < cutoff
                \/ exit' = "killed"
                \/ phase = "exit" /\ failed]_vars
  BY <1>1, NothingLostStep
<1> QED
  BY <1>1, StoreInvariant, ServiceInductive, PTL DEF Spec, NothingIsLostSilently

-----------------------------------------------------------------------------
\* Type correctness of what the service adds to its parts, for any number of
\* requests and database errors.
THEOREM TypeCorrect == Spec => []TypeOK
<1> USE ServeBoundsAssumption
<1>1. Init => TypeOK
  <2>1. Init => cancelled \in BOOLEAN /\ reachable \in BOOLEAN /\ failed \in BOOLEAN
    BY Zenon DEF Init
  <2> QED
    BY <2>1 DEF Init, TypeOK
<1>2. ASSUME NoConnections PROVE reachable' \in BOOLEAN /\ readers' \in 0..MaxReaders
  <2>1. reachable' \in BOOLEAN
    BY <1>2, Zenon DEF NoConnections
  <2> QED
    BY <1>2, <2>1 DEF NoConnections
<1>3. ASSUME TypeOK, [Next]_vars PROVE TypeOK'
  <2> USE <1>3 DEF TypeOK, process
  <2>1. CASE Start \/ Startup
    BY <2>1 DEF Start, Startup, Listen, ListenFails, PruneSkipped, StartupPrune, OpenSerial
  <2>2. CASE SelectDone \/ SelectFlush \/ SelectPrune \/ SelectPoll
    BY <2>2 DEF SelectDone, SelectFlush, SelectPrune, SelectPoll
  <2>3. CASE Poll
    BY <2>3 DEF Poll, PollSucceeds, PollGoesOn
  <2>4. CASE Tx
    <3>1. CASE TxStatement
      BY <3>1 DEF TxStatement
    <3>2. CASE TxCommit
      BY <3>2 DEF TxCommit, AfterTx
    <3>3. ASSUME LogIfFinal PROVE failed' \in BOOLEAN
      BY <3>3, Zenon DEF LogIfFinal
    <3>4. CASE TxConflict
      BY <3>3, <3>4 DEF TxConflict, AfterTx
    <3>5. CASE TxError
      BY <3>3, <3>5 DEF TxError, AfterTx
    <3> QED
      BY <2>4, <3>1, <3>2, <3>4, <3>5 DEF Tx
  <2>5. CASE Shutdown
    <3>1. CASE HttpTimesOut
      <4>1. failed' \in BOOLEAN
        BY <3>1, Zenon DEF HttpTimesOut
      <4> QED
        BY <3>1, <4>1 DEF HttpTimesOut
    <3>2. CASE CloseStore
      <4>1. failed' \in BOOLEAN
        BY <3>2, Zenon DEF CloseStore
      <4> QED
        BY <3>2, <4>1 DEF CloseStore
    <3>3. CASE HttpStops
      <4>1. reachable' \in BOOLEAN
        BY <3>3, Zenon DEF HttpStops
      <4> QED
        BY <3>3, <4>1 DEF HttpStops
    <3>4. CASE FinalFlush \/ FinalFlushEmpty \/ CloseSerial
      BY <3>4 DEF FinalFlush, FinalFlushEmpty, CloseSerial
    <3>5. CASE ExitProcess
      BY <1>2, <3>5 DEF ExitProcess
    <3> QED
      BY <2>5, <3>1, <3>2, <3>3, <3>4, <3>5 DEF Shutdown
  <2>6. CASE Signal \/ RequestBegins \/ RequestEnds \/ Kill \/ PowerFails \/ World
    <3>1. CASE Signal
      <4>1. cancelled' \in BOOLEAN
        BY <3>1, Zenon DEF Signal
      <4> QED
        BY <3>1, <4>1 DEF Signal
    <3>2. CASE RequestBegins \/ RequestEnds \/ World
      BY <3>2 DEF RequestBegins, RequestEnds, World
    <3>3. CASE Kill \/ PowerFails
      BY <1>2, <3>3 DEF Kill, PowerFails
    <3> QED
      BY <2>6, <3>1, <3>2, <3>3
  <2>7. CASE UNCHANGED vars
    BY <2>7 DEF vars
  <2> QED
    BY <2>1, <2>2, <2>3, <2>4, <2>5, <2>6, <2>7 DEF Next
<1> QED
  BY <1>1, <1>3, PTL DEF Spec
=============================================================================
