-------------------------------- MODULE Store --------------------------------
(***************************************************************************)
(* The storage layer of the service: the in-memory write buffer, the flush *)
(* transaction that drains it into three tables, the retention transaction *)
(* that empties them, opening and closing, and what a stop of the process  *)
(* or of the machine leaves behind.                                        *)
(*                                                                         *)
(* SQLite is external.  It is modelled by what store.go relies on: a       *)
(* transaction works on `work' and replaces `disk' at commit or not at     *)
(* all; an INSERT fails on a taken primary key; and with WAL and           *)
(* synchronous=NORMAL a power loss falls back to some state committed      *)
(* since the last checkpoint.                                              *)
(*                                                                         *)
(* Time is counted in abstract ticks of the host clock, which a            *)
(* correction may set back.  The columns of a row are reduced to the join  *)
(* key ts, the second half of the primary key, and the sample they stem    *)
(* from.                                                                   *)
(*                                                                         *)
(* An operator whose name says how it departs from the one that follows it *)
(* is a faulty variant: no action uses it, and the properties below do not *)
(* survive putting it in place of the operator it precedes.                *)
(***************************************************************************)
EXTENDS Integers, Sequences

CONSTANTS
  CellIdx,        \* cell indexes of the pack
  Probe,          \* temperature probe labels
  Shapes,         \* which cells and probes one poll may report
  Retention,      \* retention window in ticks; 0 keeps every sample
  MaxSamples,     \* bound: samples polled
  MaxNow,         \* bound: the host clock
  MaxStepsBack    \* bound: corrections that set the host clock back

ASSUME ShapesAssumption ==
  Shapes \subseteq [cells : SUBSET CellIdx, temps : SUBSET Probe]
ASSUME RetentionAssumption == Retention \in Nat
ASSUME BoundsAssumption ==
  MaxSamples \in Nat /\ MaxNow \in Nat /\ MaxStepsBack \in Nat

VARIABLES
  op,           \* what the one goroutine that writes is doing in the store
  buf,          \* Store.buf
  disk,         \* the committed tables
  work,         \* the tables as the open transaction has them
  recoverable,  \* the committed tables that a power loss may restore
  pos,          \* samples inserted, or tables pruned, in the open transaction
  cutoff,       \* Prune's cutoff
  now,          \* the host clock
  stepsBack,    \* corrections of the clock so far
  polled        \* history: every sample ever handed to Add

tx == <<work, pos, cutoff>>
clock == <<now, stepsBack>>
durability == <<disk, recoverable>>
vars == <<op, buf, durability, tx, clock, polled>>

-----------------------------------------------------------------------------
(* Rows and tables *)

Sample == [id : Nat, ts : Int, cells : SUBSET CellIdx, temps : SUBSET Probe]
SampleRow == [id : Nat, ts : Int]
CellRow == [ts : Int, key : CellIdx, id : Nat]
TempRow == [ts : Int, key : Probe, id : Nat]
Tables == [samples : SUBSET SampleRow,
           cell_samples : SUBSET CellRow,
           temp_samples : SUBSET TempRow]

NoRows == [samples |-> {}, cell_samples |-> {}, temp_samples |-> {}]

\* The rows that one sample becomes: every row carries the sample's ts.
RowOf(s) == [id |-> s.id, ts |-> s.ts]
CellRowsOf(s) == [ts : {s.ts}, key : s.cells, id : {s.id}]
TempRowsOf(s) == [ts : {s.ts}, key : s.temps, id : {s.id}]

InsertedWithoutTemps(t, s) ==
  [samples      |-> t.samples \cup {RowOf(s)},
   cell_samples |-> t.cell_samples \cup CellRowsOf(s)]

Inserted(t, s) ==
  [samples      |-> t.samples \cup {RowOf(s)},
   cell_samples |-> t.cell_samples \cup CellRowsOf(s),
   temp_samples |-> t.temp_samples \cup TempRowsOf(s)]

\* PRIMARY KEY (ts, cell_idx) and PRIMARY KEY (ts, probe); samples has none.
KeyTaken(table, rows) ==
  \E r \in table, q \in rows : r.ts = q.ts /\ r.key = q.key

Conflicts(t, s) ==
  \/ KeyTaken(t.cell_samples, CellRowsOf(s))
  \/ KeyTaken(t.temp_samples, TempRowsOf(s))

KeptStrictlyAfter(rows, limit) == {r \in rows : r.ts > limit}

Kept(rows, limit) == {r \in rows : r.ts >= limit}

Ids(rows) == {r.id : r \in rows}
Buffered == {buf[i].id : i \in DOMAIN buf}

-----------------------------------------------------------------------------
(* Transactions *)

Begin(o) ==
  /\ op = "idle"
  /\ op' = o

\* An auto-checkpoint may follow a commit and make it proof against power loss.
Commit ==
  /\ op' = "idle"
  /\ disk' = work
  /\ recoverable' \in {{work}, recoverable \cup {work}}
  /\ pos' = 0
  /\ cutoff' = 0
  /\ UNCHANGED work

Rollback ==
  /\ op' = "idle"
  /\ work' = disk
  /\ pos' = 0
  /\ cutoff' = 0

-----------------------------------------------------------------------------
(* Operations of the store *)

Init ==
  /\ op = "none"
  /\ buf = <<>>
  /\ disk = NoRows
  /\ work = NoRows
  /\ recoverable = {NoRows}
  /\ pos = 0
  /\ cutoff = 0
  /\ now = 0
  /\ stepsBack = 0
  /\ polled = <<>>

\* The schema is created if it is missing, and the buffer starts empty.
Open ==
  /\ op = "none"
  /\ op' = "idle"
  /\ UNCHANGED <<buf, durability, tx, clock, polled>>

\* A reply is stamped with the host clock as it arrives: a poll takes time, so
\* two samples share a ts only if the clock was set back between them.
NewSample(sh) ==
  [id |-> Len(polled) + 1, ts |-> now + 1, cells |-> sh.cells, temps |-> sh.temps]

Add(sh) ==
  /\ op = "idle"
  /\ Len(polled) < MaxSamples
  /\ now < MaxNow
  /\ now' = now + 1
  /\ buf' = Append(buf, NewSample(sh))
  /\ polled' = Append(polled, NewSample(sh))
  /\ UNCHANGED <<op, durability, tx, stepsBack>>

FlushBegin ==
  /\ buf # <<>>
  /\ Begin("flush")
  /\ UNCHANGED <<buf, durability, tx, clock, polled>>

\* One round of Flush's loop: a samples row, then its cells, then its probes.
FlushInsert ==
  /\ op = "flush"
  /\ pos < Len(buf)
  /\ ~Conflicts(work, buf[pos + 1])
  /\ work' = Inserted(work, buf[pos + 1])
  /\ pos' = pos + 1
  /\ UNCHANGED <<op, buf, durability, cutoff, clock, polled>>

\* A taken key fails the INSERT, and with it the whole batch.
FlushConflict ==
  /\ op = "flush"
  /\ pos < Len(buf)
  /\ Conflicts(work, buf[pos + 1])
  /\ Rollback
  /\ UNCHANGED <<buf, durability, clock, polled>>

FlushErrorDropsBuffer ==
  /\ op = "flush"
  /\ Rollback
  /\ buf' = <<>>
  /\ UNCHANGED <<durability, clock, polled>>

\* A full disk, an I/O error or a cancelled context, at any statement.
FlushError ==
  /\ op = "flush"
  /\ Rollback
  /\ UNCHANGED <<buf, durability, clock, polled>>

FlushCommitKeepsBuffer ==
  /\ op = "flush"
  /\ pos = Len(buf)
  /\ Commit
  /\ UNCHANGED <<buf, clock, polled>>

FlushCommit ==
  /\ op = "flush"
  /\ pos = Len(buf)
  /\ Commit
  /\ buf' = <<>>
  /\ UNCHANGED <<clock, polled>>

\* The cutoff is taken from the clock before the transaction begins.
PruneBegin ==
  /\ Retention # 0
  /\ Begin("prune")
  /\ cutoff' = now - Retention
  /\ UNCHANGED <<buf, durability, work, pos, clock, polled>>

PruneTable ==
  /\ op = "prune"
  /\ \/ /\ pos = 0
        /\ work' = [work EXCEPT !.samples = Kept(@, cutoff)]
     \/ /\ pos = 1
        /\ work' = [work EXCEPT !.cell_samples = Kept(@, cutoff)]
     \/ /\ pos = 2
        /\ work' = [work EXCEPT !.temp_samples = Kept(@, cutoff)]
  /\ pos' = pos + 1
  /\ UNCHANGED <<op, buf, durability, cutoff, clock, polled>>

PruneError ==
  /\ op = "prune"
  /\ Rollback
  /\ UNCHANGED <<buf, durability, clock, polled>>

PruneCommitAfterSamples ==
  /\ op = "prune"
  /\ pos >= 1
  /\ Commit
  /\ UNCHANGED <<buf, clock, polled>>

PruneCommit ==
  /\ op = "prune"
  /\ pos = 3
  /\ Commit
  /\ UNCHANGED <<buf, clock, polled>>

\* wal_checkpoint(TRUNCATE), unless closing the read handle or the checkpoint
\* fails; the handle is closed in every case.
Close ==
  /\ op = "idle"
  /\ op' = "closed"
  /\ recoverable' \in {{disk}, recoverable}
  /\ UNCHANGED <<buf, disk, tx, clock, polled>>

-----------------------------------------------------------------------------
(* The process and the machine *)

\* The process exits or is killed: memory and the open transaction are gone.
Die ==
  /\ op # "none"
  /\ op' = "none"
  /\ buf' = <<>>
  /\ work' = disk
  /\ pos' = 0
  /\ cutoff' = 0
  /\ UNCHANGED <<durability, clock, polled>>

PowerLoss ==
  /\ op' = "none"
  /\ buf' = <<>>
  /\ disk' \in recoverable
  /\ work' = disk'
  /\ recoverable' = {disk'}
  /\ pos' = 0
  /\ cutoff' = 0
  /\ UNCHANGED <<clock, polled>>

Tick ==
  /\ now < MaxNow
  /\ now' = now + 1
  /\ UNCHANGED <<op, buf, durability, tx, stepsBack, polled>>

\* NTP or an operator sets the host clock back.
StepBack ==
  /\ stepsBack < MaxStepsBack
  /\ stepsBack' = stepsBack + 1
  /\ now' \in 0..now
  /\ UNCHANGED <<op, buf, durability, tx, polled>>

FlushStep == FlushInsert \/ FlushConflict \/ FlushCommit
PruneStep == PruneBegin \/ PruneTable \/ PruneCommit

\* What happens while the process keeps running and no statement fails for
\* a reason outside the data.
Healthy ==
  \/ Open
  \/ \E sh \in Shapes : Add(sh)
  \/ FlushBegin
  \/ FlushStep
  \/ PruneStep
  \/ Tick
  \/ StepBack

Next ==
  \/ Healthy
  \/ FlushError
  \/ PruneError
  \/ Close
  \/ Die
  \/ PowerLoss

Spec == Init /\ [][Next]_vars

-----------------------------------------------------------------------------
(* Correctness *)

\* Type invariant.
TypeOK ==
  /\ op \in {"none", "idle", "flush", "prune", "closed"}
  /\ buf \in Seq(Sample)
  /\ polled \in Seq(Sample)
  /\ disk \in Tables
  /\ work \in Tables
  /\ recoverable \subseteq Tables
  /\ pos \in Nat
  /\ cutoff \in Int
  /\ now \in Int
  /\ stepsBack \in 0..MaxStepsBack

\* The tables hold whole polls: the rows of cell_samples and temp_samples are
\* exactly those of the polls that samples lists, under the same ts.
TablesAgree(t) ==
  /\ \A r \in t.samples : r.id \in DOMAIN polled /\ r = RowOf(polled[r.id])
  /\ t.cell_samples = UNION {CellRowsOf(polled[i]) : i \in Ids(t.samples)}
  /\ t.temp_samples = UNION {TempRowsOf(polled[i]) : i \in Ids(t.samples)}

\* Whatever a reader sees, and whatever a power loss leaves behind, consists of
\* whole polls: a failed or interrupted Flush or Prune never leaves a sample
\* without its cells, or cells without their sample.
PollsAreWhole == \A t \in recoverable \cup {disk} : TablesAgree(t)

\* A sample waits in the buffer at most once, and no longer once any state of
\* the database that can be seen or restored has it: a retried Flush never
\* stores a poll twice.
NeverTwice ==
  /\ \A i, j \in DOMAIN buf : buf[i].id = buf[j].id => i = j
  /\ \A t \in recoverable \cup {disk} : Buffered \cap Ids(t.samples) = {}

\* As long as the clock only moves forward, a row that disappears while the
\* process runs has left the retention window, and none does when retention_days
\* is 0.
RetentionHonoured ==
  [][\A r \in disk.samples \ disk'.samples :
       op' # "none" /\ stepsBack = 0 => Retention > 0 /\ r.ts < now - Retention]_vars

\* The buffer, the transactions and the three tables together keep the promise
\* of a sample log.
Log == INSTANCE SampleLog WITH
  up          <- op # "none",
  accepted    <- Len(polled),
  pending     <- Buffered,
  durable     <- Ids(disk.samples),
  recoverable <- {Ids(t.samples) : t \in recoverable}

ImplementsSampleLog == Log!Spec

\* The loop's select takes any ready ticker at random, so a flush that stays
\* due is not passed over forever; a statement that was begun ends.
FairSpec ==
  /\ Init /\ [][Healthy]_vars
  /\ SF_vars(FlushBegin)
  /\ WF_vars(FlushStep)
  /\ WF_vars(PruneTable \/ PruneCommit)

\* Every sample that is polled reaches the database: with a healthy disk the
\* buffer is empty again and again.
EverySampleIsPersisted == (buf # <<>>) ~> (buf = <<>>)
=============================================================================
