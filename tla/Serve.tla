-------------------------------- MODULE Serve --------------------------------
(***************************************************************************)
(* The service as a whole: runServe brings up the store, the web server    *)
(* and the serial port, runs the poll loop until a signal cancels it, and  *)
(* shuts everything down in order.  One goroutine owns the store's buffer  *)
(* and transactions and the serial handle; HTTP handlers read the store    *)
(* beside it.  A signal, a kill or a power loss may come between any two   *)
(* steps.                                                                  *)
(*                                                                         *)
(* Store and PollLoop supply the steps; this module says when the service  *)
(* takes them.  A flush tick with an empty buffer, a tick whose            *)
(* transaction cannot begin, and a startup that ends before the store is   *)
(* open change no state and are left out.                                  *)
(*                                                                         *)
(* An operator whose name says how it departs from the one that follows it *)
(* is a faulty variant, used by no action.                                 *)
(***************************************************************************)
EXTENDS Integers, Sequences

CONSTANTS
  CellIdx, Probe, Shapes, Retention, MaxSamples, MaxNow, MaxStepsBack,
  Interval, EscalateAfter, BackoffSchedule, MaxConsecutive,
  MaxReaders,     \* bound: HTTP requests in flight
  MaxTxErrors     \* bound: database errors while the context is live

\* What Store and PollLoop assume of their constants.
ASSUME StoreAssumption ==
  /\ Shapes \subseteq [cells : SUBSET CellIdx, temps : SUBSET Probe]
  /\ Retention \in Nat
  /\ MaxSamples \in Nat /\ MaxNow \in Nat /\ MaxStepsBack \in Nat
ASSUME PollLoopAssumption ==
  /\ Interval \in Nat \ {0}
  /\ EscalateAfter \in Nat \ {0}
  /\ BackoffSchedule \in Seq(Nat \ {0}) /\ BackoffSchedule # <<>>
  /\ MaxConsecutive \in Nat
  /\ MaxConsecutive >= EscalateAfter + Len(BackoffSchedule) - 1
ASSUME ServeBoundsAssumption == MaxReaders \in Nat /\ MaxTxErrors \in Nat

VARIABLES
  op, buf, disk, work, recoverable, pos, cutoff, now, stepsBack, polled,
  stage, client, consecutive, delay, held, stale, link,
  phase,        \* where runServe is
  cancelled,    \* the context of signal.NotifyContext is done
  reachable,    \* a connection may still bring a request
  readers,      \* HTTP requests reading the store
  failed,       \* a step of this shutdown logged an error
  exit,         \* how the process last ended
  txErrors      \* database errors so far

St == INSTANCE Store
PL == INSTANCE PollLoop

store == <<op, buf, disk, work, recoverable, pos, cutoff, now, stepsBack, polled>>
serial == <<stage, client, consecutive, delay, held, stale, link>>
process == <<cancelled, reachable, readers, failed, exit, txErrors>>
vars == <<store, serial, phase, process>>

Init ==
  /\ St!Init
  /\ PL!Init
  /\ phase = "down"
  /\ cancelled = FALSE
  /\ reachable = FALSE
  /\ readers = 0
  /\ failed = FALSE
  /\ exit = "none"
  /\ txErrors = 0

-----------------------------------------------------------------------------
(* Startup *)

Start ==
  /\ phase = "down"
  /\ St!Open
  /\ phase' = "web"
  /\ cancelled' = FALSE
  /\ failed' = FALSE
  /\ exit' = "none"
  /\ UNCHANGED <<serial, reachable, readers, txErrors>>

Listen ==
  /\ phase = "web"
  /\ phase' = "prune"
  /\ reachable' = TRUE
  /\ UNCHANGED <<store, serial, cancelled, readers, failed, exit, txErrors>>

\* The address cannot be bound: close the store and exit with an error.
ListenFails ==
  /\ phase = "web"
  /\ St!Close
  /\ phase' = "exit"
  /\ exit' = "generic"
  /\ UNCHANGED <<serial, cancelled, reachable, readers, failed, txErrors>>

\* The startup prune is skipped with retention_days 0 and not fatal if it fails.
PruneSkipped ==
  /\ phase = "prune" /\ op = "idle"
  /\ phase' = "serial"
  /\ UNCHANGED <<store, serial, process>>

StartupPrune ==
  /\ phase = "prune" /\ ~cancelled
  /\ St!PruneBegin
  /\ UNCHANGED <<serial, phase, process>>

OpenSerial ==
  /\ phase = "serial"
  /\ PL!Boot
  /\ phase' = "loop"
  /\ UNCHANGED <<store, process>>

-----------------------------------------------------------------------------
(* The poll loop *)

AtSelectDespiteTx == phase = "loop" /\ stage = "wait"

AtSelect == phase = "loop" /\ op = "idle" /\ stage = "wait"

SelectDone ==
  /\ AtSelect /\ cancelled
  /\ PL!Leave
  /\ phase' = "http"
  /\ UNCHANGED <<store, process>>

SelectFlushOfTwo ==
  /\ AtSelect /\ ~cancelled
  /\ Len(buf) >= 2
  /\ St!FlushBegin
  /\ UNCHANGED <<serial, phase, process>>

SelectFlush ==
  /\ AtSelect /\ ~cancelled
  /\ St!FlushBegin
  /\ UNCHANGED <<serial, phase, process>>

SelectPrune ==
  /\ AtSelect /\ ~cancelled
  /\ St!PruneBegin
  /\ UNCHANGED <<serial, phase, process>>

\* select takes any ready case: a poll may start although the context is done.
SelectPoll ==
  /\ AtSelect
  /\ PL!Fire
  /\ UNCHANGED <<store, phase, process>>

PollSucceeds ==
  /\ phase = "loop"
  /\ PL!PollOk
  /\ \E sh \in Shapes : St!Add(sh)
  /\ UNCHANGED <<phase, process>>

PollGoesOn ==
  /\ phase = "loop"
  /\ \/ PL!OpenOk
     \/ PL!OpenFails
     \/ \E c \in PL!Categories : PL!PollFails(c)
  /\ UNCHANGED <<store, phase, process>>

-----------------------------------------------------------------------------
(* Transactions: of the startup prune, of the loop, and of the final flush *)

\* Everything but the final flush runs under the context that a signal cancels.
CtxLive == phase = "final" \/ ~cancelled

\* The step of runServe that follows when the call returns.
AfterTx ==
  phase' = CASE phase = "prune" -> "serial"
             [] phase = "final" -> "close"
             [] OTHER -> phase

TxStatement ==
  /\ CtxLive
  /\ St!FlushInsert \/ St!PruneTable
  /\ UNCHANGED <<serial, phase, process>>

TxCommit ==
  /\ CtxLive
  /\ St!FlushCommit \/ St!PruneCommit
  /\ AfterTx
  /\ UNCHANGED <<serial, process>>

\* An error in the final flush is logged, and the shutdown goes on.
LogIfFinal == failed' = (failed \/ phase = "final")

TxConflict ==
  /\ CtxLive
  /\ St!FlushConflict
  /\ AfterTx
  /\ LogIfFinal
  /\ UNCHANGED <<serial, cancelled, reachable, readers, exit, txErrors>>

TxErrorDropsBatch ==
  /\ op = "flush"
  /\ op' = "idle" /\ buf' = <<>> /\ work' = disk /\ pos' = 0 /\ cutoff' = 0
  /\ AfterTx
  /\ LogIfFinal
  /\ UNCHANGED <<disk, recoverable, now, stepsBack, polled, serial, cancelled, reachable,
                 readers, exit, txErrors>>

TxError ==
  /\ St!FlushError \/ St!PruneError
  /\ IF CtxLive THEN txErrors < MaxTxErrors /\ txErrors' = txErrors + 1
                ELSE UNCHANGED txErrors
  /\ AfterTx
  /\ LogIfFinal
  /\ UNCHANGED <<serial, cancelled, reachable, readers, exit>>

-----------------------------------------------------------------------------
(* Shutdown *)

HttpStopsAtOnce ==
  /\ phase = "http"
  /\ phase' = "final"
  /\ reachable' = FALSE
  /\ UNCHANGED <<store, serial, cancelled, readers, failed, exit, txErrors>>

\* Shutdown waits for the requests in flight, and for those that a connection
\* accepted before still brings ...
HttpStops ==
  /\ phase = "http"
  /\ readers = 0
  /\ phase' = "final"
  /\ reachable' = FALSE
  /\ UNCHANGED <<store, serial, cancelled, readers, failed, exit, txErrors>>

HttpWaitsForever ==
  /\ phase = "http"
  /\ UNCHANGED vars

\* ... for five seconds, and leaves the connections open that are left then.
HttpTimesOut ==
  /\ phase = "http"
  /\ phase' = "final"
  /\ failed' = TRUE
  /\ UNCHANGED <<store, serial, cancelled, reachable, readers, exit, txErrors>>

FinalFlush ==
  /\ phase = "final"
  /\ St!FlushBegin
  /\ UNCHANGED <<serial, phase, process>>

FinalFlushSkipped ==
  /\ phase = "final" /\ op = "idle"
  /\ phase' = "close"
  /\ UNCHANGED <<store, serial, process>>

FinalFlushEmpty ==
  /\ phase = "final" /\ op = "idle"
  /\ buf = <<>>
  /\ phase' = "close"
  /\ UNCHANGED <<store, serial, process>>

\* With no reader left the checkpoint takes in the whole log, unless an error
\* is logged; a reader can keep it from doing so without an error.
CloseStore ==
  /\ phase = "close"
  /\ St!Close
  /\ failed' \in {failed, TRUE}
  /\ ~failed' /\ readers = 0 => recoverable' = {disk}
  /\ phase' = "serialclose"
  /\ UNCHANGED <<serial, cancelled, reachable, readers, exit, txErrors>>

CloseSerial ==
  /\ phase = "serialclose"
  /\ PL!CloseSerial
  /\ phase' = "exit"
  /\ exit' = "ok"
  /\ UNCHANGED <<store, cancelled, reachable, readers, failed, txErrors>>

\* The end of the process is the end of its connections.
NoConnections == reachable' = FALSE /\ readers' = 0

ExitProcess ==
  /\ phase = "exit"
  /\ St!Die
  /\ phase' = "down"
  /\ NoConnections
  /\ UNCHANGED <<serial, cancelled, failed, exit, txErrors>>

-----------------------------------------------------------------------------
(* The world around the goroutine *)

\* SIGINT or SIGTERM once the handler is installed.
Signal ==
  /\ phase \in {"prune", "serial", "loop"}
  /\ ~cancelled
  /\ cancelled' = TRUE
  /\ UNCHANGED <<store, serial, phase, reachable, readers, failed, exit, txErrors>>

RequestBegins ==
  /\ reachable
  /\ readers < MaxReaders
  /\ readers' = readers + 1
  /\ UNCHANGED <<store, serial, phase, cancelled, reachable, failed, exit, txErrors>>

RequestEndsTwice ==
  /\ readers > 0
  /\ readers' = readers - 2
  /\ UNCHANGED <<store, serial, phase, cancelled, reachable, failed, exit, txErrors>>

RequestEnds ==
  /\ readers > 0
  /\ readers' = readers - 1
  /\ UNCHANGED <<store, serial, phase, cancelled, reachable, failed, exit, txErrors>>

\* SIGKILL, an OOM kill, a panic, or a signal before the handler is installed.
Kill ==
  /\ phase # "down"
  /\ St!Die
  /\ PL!Crash
  /\ phase' = "down"
  /\ exit' = "killed"
  /\ NoConnections
  /\ UNCHANGED <<cancelled, failed, txErrors>>

PowerFails ==
  /\ St!PowerLoss
  /\ PL!Crash
  /\ phase' = "down"
  /\ exit' = "killed"
  /\ NoConnections
  /\ UNCHANGED <<cancelled, failed, txErrors>>

World ==
  \/ (St!Tick \/ St!StepBack) /\ UNCHANGED <<serial, phase, process>>
  \/ (PL!Unplug \/ PL!Replug) /\ UNCHANGED <<store, phase, process>>

Startup == Listen \/ ListenFails \/ PruneSkipped \/ StartupPrune \/ OpenSerial
Tx == TxStatement \/ TxCommit \/ TxConflict \/ TxError
Poll == PollSucceeds \/ PollGoesOn
Shutdown ==
  \/ HttpStops \/ HttpTimesOut
  \/ FinalFlush \/ FinalFlushEmpty
  \/ CloseStore \/ CloseSerial \/ ExitProcess

Next ==
  \/ Start \/ Startup
  \/ SelectDone \/ SelectFlush \/ SelectPrune \/ SelectPoll
  \/ Tx \/ Poll \/ Shutdown
  \/ Signal \/ RequestBegins \/ RequestEnds \/ Kill \/ PowerFails \/ World

Spec == Init /\ [][Next]_vars

\* The goroutine runs, every call it makes returns (the HTTP stop and a poll have
\* deadlines, a transaction is finite), and select, which takes a ready case at
\* random, does not pass over one that is ready again and again.
FairSpec ==
  /\ Spec
  /\ WF_vars(Startup) /\ WF_vars(Tx) /\ WF_vars(Poll) /\ WF_vars(Shutdown)
  /\ SF_vars(SelectDone) /\ SF_vars(SelectFlush)

-----------------------------------------------------------------------------
(* Correctness *)

\* Type invariant.
TypeOK ==
  /\ phase \in {"down", "web", "prune", "serial", "loop", "http", "final", "close",
                "serialclose", "exit"}
  /\ cancelled \in BOOLEAN /\ reachable \in BOOLEAN /\ failed \in BOOLEAN
  /\ readers \in 0..MaxReaders
  /\ exit \in {"none", "ok", "generic", "killed"}
  /\ txErrors \in 0..MaxTxErrors

\* The phases of runServe and the states of its two parts go together: the
\* store is open exactly while something may use it, the loop runs only between
\* the opening of the serial port and the end of the shutdown, and no poll is
\* under way inside a transaction.
PhasesAgree ==
  /\ op = "none" <=> phase = "down"
  /\ op = "closed" => phase \in {"serialclose", "exit"}
  /\ op \in {"flush", "prune"} => phase \in {"prune", "loop", "final"} /\ stage # "poll"
  /\ stage \in {"wait", "open", "poll"} <=> phase = "loop"
  /\ stage = "left" <=> phase \in {"http", "final", "close", "serialclose"}

\* A stop that logged no error loses nothing: when the process leaves runServe
\* with exit code 0 the buffer is empty, everything is checkpointed, so that not
\* even a power loss afterwards takes anything away, and the port is free.
GracefulStopKeepsEverything ==
  phase = "exit" /\ exit = "ok" /\ ~failed =>
    buf = <<>> /\ recoverable = {disk} /\ held = 0

\* The store is not closed under a reader, unless the HTTP stop ran into its
\* deadline and said so.
NoReadAfterClose == op = "closed" /\ readers > 0 => failed

\* No step of the service takes a sample away unnoticed: what was in the buffer
\* or in the database and is in neither afterwards had expired for the prune
\* that committed, or the process was killed, or the shutdown that ends with this
\* step logged an error.  In particular, a flush that a signal, an error or a
\* repeated ts rolls back keeps its batch, and without an error runServe never
\* comes to its end with samples in the buffer.
Samples == St!Buffered \cup St!Ids(disk.samples)
NothingIsLostSilently ==
  [][\A i \in Samples \ Samples' :
       \/ op = "prune" /\ polled[i].ts < cutoff
       \/ exit' = "killed"
       \/ phase = "exit" /\ failed]_vars

\* A signal always ends the service, whatever the loop is doing, whatever the
\* serial port and the database are doing.
SignalStops == cancelled ~> phase = "down"

\* With finitely many database errors every sample reaches the database, unless
\* the process dies first or the clock is set back: then a repeated ts can make
\* every later flush fail.
SamplesArePersisted == buf # <<>> ~> buf = <<>> \/ stepsBack > 0
=============================================================================
