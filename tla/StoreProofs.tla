----------------------------- MODULE StoreProofs -----------------------------
(***************************************************************************)
(* Proofs about Store for every pack, retention window and bound.          *)
(*                                                                         *)
(* PollsAreWhole and NeverTwice speak of committed tables, but a committed *)
(* table was once the `work' of a transaction: the inductive invariant     *)
(* says what `work' is in the middle of one, and that the buffer holds     *)
(* what was polled.                                                        *)
(***************************************************************************)
EXTENDS Store, TLAPS

\* A sample is known by its place in the history.
PolledInOrder == \A i \in DOMAIN polled : polled[i].id = i

\* The buffer holds polled samples, unchanged.
BufferIsPolled ==
  \A i \in DOMAIN buf :
    buf[i].id \in DOMAIN polled /\ buf[i] = polled[buf[i].id]

\* The first n buffered samples.
InsertedIds(n) == {buf[i].id : i \in 1..n}

\* What the open transaction has done so far.
WorkInFlush ==
  op = "flush" =>
    /\ buf # <<>>
    /\ pos <= Len(buf)
    /\ TablesAgree(work)
    /\ Ids(work.samples) = Ids(disk.samples) \cup InsertedIds(pos)

PrunedTo(table, n) == IF pos >= n THEN Kept(table, cutoff) ELSE table

WorkInPrune ==
  op = "prune" =>
    /\ pos <= 3
    /\ Retention > 0 /\ (stepsBack = 0 => cutoff <= now - Retention)
    /\ work = [samples      |-> PrunedTo(disk.samples, 1),
               cell_samples |-> PrunedTo(disk.cell_samples, 2),
               temp_samples |-> PrunedTo(disk.temp_samples, 3)]

WorkOutside == op \notin {"flush", "prune"} => work = disk /\ pos = 0

BufferGone == op = "none" => buf = <<>>

\* What is committed and what is buffered ...
DataInv ==
  /\ disk \in recoverable
  /\ PollsAreWhole
  /\ NeverTwice
  /\ PolledInOrder
  /\ BufferIsPolled

\* ... and what the goroutine that writes is in the middle of.
TxInv ==
  /\ WorkInFlush
  /\ WorkInPrune
  /\ WorkOutside
  /\ BufferGone

IInv == TypeOK /\ DataInv /\ TxInv

-----------------------------------------------------------------------------
(* Rows and tables *)

\* A sample of a declared type becomes rows of the declared types.
LEMMA RowTypes ==
  ASSUME NEW s \in Sample
  PROVE  /\ RowOf(s) \in SampleRow
         /\ CellRowsOf(s) \subseteq CellRow
         /\ TempRowsOf(s) \subseteq TempRow
BY DEF Sample, RowOf, CellRowsOf, TempRowsOf, SampleRow, CellRow, TempRow

\* Inserting a sample into tables gives tables.
LEMMA InsertedType ==
  ASSUME NEW t \in Tables, NEW s \in Sample
  PROVE  Inserted(t, s) \in Tables
BY RowTypes DEF Inserted, Tables

\* A new sample is a sample.
LEMMA NewSampleType ==
  ASSUME TypeOK, NEW sh \in Shapes
  PROVE  NewSample(sh) \in Sample
BY ShapesAssumption DEF TypeOK, NewSample, Sample

\* Every variable keeps its type.
LEMMA TypeStep ==
  ASSUME TypeOK, [Next]_vars
  PROVE  TypeOK'
<1> USE DEF TypeOK
<1>1. CASE Open
  BY <1>1 DEF Open, durability, tx, clock
<1>2. CASE \E sh \in Shapes : Add(sh)
  <2> PICK sh \in Shapes : Add(sh)
    BY <1>2
  <2>1. NewSample(sh) \in Sample
    BY NewSampleType
  <2>2. buf' \in Seq(Sample) /\ polled' \in Seq(Sample)
    BY <2>1 DEF Add
  <2> QED
    BY <2>2 DEF Add, durability, tx
<1>3. CASE FlushBegin
  BY <1>3 DEF FlushBegin, Begin, durability, tx, clock
<1>4. CASE FlushInsert
  <2>1. buf[pos + 1] \in Sample
    BY <1>4 DEF FlushInsert
  <2>2. work' \in Tables
    BY <1>4, <2>1, InsertedType DEF FlushInsert
  <2> QED
    BY <1>4, <2>2 DEF FlushInsert, durability, clock
<1>5. CASE FlushConflict \/ FlushError \/ PruneError
  BY <1>5 DEF FlushConflict, FlushError, PruneError, Rollback, durability, clock
<1>6. CASE FlushCommit \/ PruneCommit
  <2>1. Commit /\ (buf' = buf \/ buf' = <<>>) /\ UNCHANGED <<clock, polled>>
    BY <1>6 DEF FlushCommit, PruneCommit
  <2>2. recoverable' \subseteq Tables
    <3>1. CASE recoverable' = {work}
      BY <3>1
    <3>2. CASE recoverable' = recoverable \cup {work}
      BY <3>2
    <3> QED
      BY <2>1, <3>1, <3>2 DEF Commit
  <2>3. buf' \in Seq(Sample)
    <3>1. CASE buf' = buf
      BY <3>1
    <3>2. CASE buf' = <<>>
      BY <3>2
    <3> QED
      BY <2>1, <3>1, <3>2
  <2> QED
    BY <2>1, <2>2, <2>3 DEF Commit, clock
<1>7. CASE PruneBegin
  BY <1>7, RetentionAssumption DEF PruneBegin, Begin, durability, clock
<1>8. CASE PruneTable
  <2>1. work' \in Tables
    BY <1>8 DEF PruneTable, Kept, Tables
  <2> QED
    BY <1>8, <2>1 DEF PruneTable, durability, clock
<1>9. CASE Close
  BY <1>9 DEF Close, tx, clock
<1>10. CASE Die \/ PowerLoss
  <2>1. CASE Die
    BY <2>1 DEF Die, durability, clock
  <2>2. CASE PowerLoss
    <3>1. disk' \in Tables /\ work' \in Tables /\ recoverable' \subseteq Tables
      BY <2>2 DEF PowerLoss
    <3> QED
      BY <2>2, <3>1 DEF PowerLoss, clock
  <2> QED
    BY <1>10, <2>1, <2>2
<1>11. CASE Tick
  BY <1>11 DEF Tick, durability, tx
<1>12. CASE StepBack
  BY <1>12, BoundsAssumption DEF StepBack, durability, tx
<1>13. CASE UNCHANGED vars
  BY <1>13 DEF vars, durability, tx, clock
<1> QED
  BY <1>1, <1>2, <1>3, <1>4, <1>5, <1>6, <1>7, <1>8, <1>9, <1>10, <1>11,
     <1>12, <1>13 DEF Next, Healthy, FlushStep, PruneStep

\* TypeOK is an invariant.
THEOREM TypeCorrect == Spec => []TypeOK
<1>1. Init => TypeOK
  BY BoundsAssumption DEF Init, TypeOK, NoRows, Tables
<1>2. TypeOK /\ [Next]_vars => TypeOK'
  BY TypeStep
<1> QED
  BY <1>1, <1>2, PTL DEF Spec

-----------------------------------------------------------------------------
(* Whole polls *)

\* Tables that agree with the history agree with every extension of it.
LEMMA AgreeWithLongerHistory ==
  ASSUME \A i \in DOMAIN polled : i \in DOMAIN polled' /\ polled'[i] = polled[i],
         NEW t, TablesAgree(t)
  PROVE  TablesAgree(t)'
<1>1. \A i \in Ids(t.samples) : i \in DOMAIN polled
  BY DEF TablesAgree, Ids
<1> QED
  BY <1>1 DEF TablesAgree, Ids

\* Inserting a polled sample keeps the three tables in agreement.
LEMMA InsertAgrees ==
  ASSUME NEW t, TablesAgree(t),
         NEW i \in DOMAIN polled, polled[i].id = i
  PROVE  /\ TablesAgree(Inserted(t, polled[i]))
         /\ Ids(Inserted(t, polled[i]).samples) = Ids(t.samples) \cup {i}
<1> DEFINE u == Inserted(t, polled[i])
<1>1. /\ u.samples = t.samples \cup {RowOf(polled[i])}
      /\ u.cell_samples = t.cell_samples \cup CellRowsOf(polled[i])
      /\ u.temp_samples = t.temp_samples \cup TempRowsOf(polled[i])
  BY DEF Inserted
<1>2. RowOf(polled[i]).id = i
  BY DEF RowOf
<1>3. Ids(u.samples) = Ids(t.samples) \cup {i}
  BY <1>1, <1>2 DEF Ids
<1>4. \A r \in u.samples : r.id \in DOMAIN polled /\ r = RowOf(polled[r.id])
  BY <1>1, <1>2 DEF TablesAgree
<1>5. u.cell_samples = UNION {CellRowsOf(polled[j]) : j \in Ids(u.samples)}
  <2>1. \A r : r \in t.cell_samples <=> \E j \in Ids(t.samples) : r \in CellRowsOf(polled[j])
    BY DEF TablesAgree
  <2>2. \A r : r \in u.cell_samples <=> \E j \in Ids(u.samples) : r \in CellRowsOf(polled[j])
    BY <1>1, <1>3, <2>1
  <2> QED
    BY <2>2
<1>6. u.temp_samples = UNION {TempRowsOf(polled[j]) : j \in Ids(u.samples)}
  <2>1. \A r : r \in t.temp_samples <=> \E j \in Ids(t.samples) : r \in TempRowsOf(polled[j])
    BY DEF TablesAgree
  <2>2. \A r : r \in u.temp_samples <=> \E j \in Ids(u.samples) : r \in TempRowsOf(polled[j])
    BY <1>1, <1>3, <2>1
  <2> QED
    BY <2>2
<1> QED
  BY <1>3, <1>4, <1>5, <1>6 DEF TablesAgree

\* Pruning the three tables at one cutoff keeps them in agreement.
LEMMA PruneAgrees ==
  ASSUME NEW t, TablesAgree(t), NEW limit
  PROVE  TablesAgree([samples      |-> Kept(t.samples, limit),
                      cell_samples |-> Kept(t.cell_samples, limit),
                      temp_samples |-> Kept(t.temp_samples, limit)])
<1> DEFINE kept == Kept(t.samples, limit)
<1>1. \A r \in t.samples : r.ts = polled[r.id].ts
  BY DEF TablesAgree, RowOf
<1>2. \A j \in Ids(t.samples) : j \in Ids(kept) <=> polled[j].ts >= limit
  <2>1. ASSUME NEW j \in Ids(t.samples)
        PROVE  j \in Ids(kept) <=> polled[j].ts >= limit
    BY <1>1 DEF Ids, Kept
  <2> QED
    BY <2>1
<1>3. Ids(kept) \subseteq Ids(t.samples)
  BY DEF Ids, Kept
<1>4. Kept(t.cell_samples, limit) = UNION {CellRowsOf(polled[j]) : j \in Ids(kept)}
  <2>1. \A j : \A r \in CellRowsOf(polled[j]) : r.ts = polled[j].ts
    BY DEF CellRowsOf
  <2>2. \A r : r \in t.cell_samples <=> \E j \in Ids(t.samples) : r \in CellRowsOf(polled[j])
    BY DEF TablesAgree
  <2>3. \A r : r \in Kept(t.cell_samples, limit) <=> r \in t.cell_samples /\ r.ts >= limit
    BY DEF Kept
  <2>4. \A r : r \in Kept(t.cell_samples, limit)
                 <=> \E j \in Ids(kept) : r \in CellRowsOf(polled[j])
    BY <1>2, <1>3, <2>1, <2>2, <2>3
  <2> QED
    BY <2>4
<1>5. Kept(t.temp_samples, limit) = UNION {TempRowsOf(polled[j]) : j \in Ids(kept)}
  <2>1. \A j : \A r \in TempRowsOf(polled[j]) : r.ts = polled[j].ts
    BY DEF TempRowsOf
  <2>2. \A r : r \in t.temp_samples <=> \E j \in Ids(t.samples) : r \in TempRowsOf(polled[j])
    BY DEF TablesAgree
  <2>3. \A r : r \in Kept(t.temp_samples, limit) <=> r \in t.temp_samples /\ r.ts >= limit
    BY DEF Kept
  <2>4. \A r : r \in Kept(t.temp_samples, limit)
                 <=> \E j \in Ids(kept) : r \in TempRowsOf(polled[j])
    BY <1>2, <1>3, <2>1, <2>2, <2>3
  <2> QED
    BY <2>4
<1>6. \A r \in kept : r.id \in DOMAIN polled /\ r = RowOf(polled[r.id])
  BY DEF TablesAgree, Kept
<1> QED
  BY <1>4, <1>5, <1>6 DEF TablesAgree

-----------------------------------------------------------------------------
(* The inductive invariant *)

\* A step that touches neither the buffer nor the committed tables.
LEMMA DataUnchanged ==
  ASSUME DataInv, UNCHANGED <<buf, disk, recoverable, polled>>
  PROVE  DataInv'
BY DEF DataInv, PollsAreWhole, TablesAgree, NeverTwice, Buffered, PolledInOrder,
       BufferIsPolled

\* A rollback leaves nothing of the transaction.
LEMMA RollbackStep ==
  ASSUME IInv, Rollback, op \in {"flush", "prune"},
         UNCHANGED <<buf, disk, recoverable, polled>>
  PROVE  DataInv' /\ TxInv'
<1>1. DataInv'
  BY DataUnchanged DEF IInv
<1>2. TxInv'
  BY DEF Rollback, TxInv, WorkInFlush, WorkInPrune, WorkOutside, BufferGone
<1> QED
  BY <1>1, <1>2

\* Inserting one more buffered sample.
LEMMA FlushInsertStep ==
  ASSUME IInv, TypeOK', FlushInsert
  PROVE  DataInv' /\ TxInv'
<1> USE DEF FlushInsert
<1>1. DataInv'
  BY DataUnchanged DEF IInv, durability
<1> DEFINE i == buf[pos + 1].id
<1>2. pos + 1 \in DOMAIN buf /\ pos \in Nat
  BY DEF IInv, TypeOK
<1>3. i \in DOMAIN polled /\ buf[pos + 1] = polled[i] /\ polled[i].id = i
  BY <1>2 DEF IInv, DataInv, BufferIsPolled
<1>4. TablesAgree(work) /\ Ids(work.samples) = Ids(disk.samples) \cup InsertedIds(pos)
  BY DEF IInv, TxInv, WorkInFlush
<1>5. TablesAgree(work')
  BY <1>3, <1>4, InsertAgrees
<1>6. TablesAgree(work)'
  BY <1>5, AgreeWithLongerHistory DEF TablesAgree
<1>7. Ids(work'.samples) = Ids(work.samples) \cup {i}
  BY <1>3, <1>4, InsertAgrees
<1>8. InsertedIds(pos + 1) = InsertedIds(pos) \cup {i}
  BY <1>2 DEF InsertedIds
<1>9. WorkInFlush'
  BY <1>2, <1>4, <1>6, <1>7, <1>8 DEF WorkInFlush, InsertedIds, IInv, TypeOK, TxInv, durability
<1> QED
  BY <1>1, <1>9 DEF TxInv, WorkInPrune, WorkOutside, BufferGone

\* The ids of the buffer, once every sample is inserted.
LEMMA AllInserted ==
  ASSUME TypeOK, pos = Len(buf)
  PROVE  InsertedIds(pos) = Buffered
BY DEF TypeOK, InsertedIds, Buffered

\* Committing a flush.
LEMMA FlushCommitStep ==
  ASSUME IInv, FlushCommit
  PROVE  DataInv' /\ TxInv'
<1> USE DEF FlushCommit, Commit
<1>1. polled' = polled
  OBVIOUS
<1>2. \A t : TablesAgree(t) => TablesAgree(t)'
  BY <1>1 DEF TablesAgree
<1>3. TablesAgree(work)
  BY DEF IInv, TxInv, WorkInFlush
<1>4. \A t \in recoverable' \cup {disk'} : TablesAgree(t)
  BY <1>3 DEF IInv, DataInv, PollsAreWhole
<1>5. PollsAreWhole'
  BY <1>2, <1>4 DEF PollsAreWhole
<1>6. NeverTwice'
  BY DEF NeverTwice, Buffered
<1>7. DataInv'
  BY <1>1, <1>5, <1>6 DEF DataInv, IInv, PolledInOrder, BufferIsPolled
<1>8. TxInv'
  BY DEF TxInv, WorkInFlush, WorkInPrune, WorkOutside, BufferGone
<1> QED
  BY <1>7, <1>8

\* Deleting the expired rows of one more table.
LEMMA PruneTableStep ==
  ASSUME IInv, PruneTable
  PROVE  DataInv' /\ TxInv'
<1> USE DEF PruneTable
<1>1. DataInv'
  BY DataUnchanged DEF IInv, durability
<1>2. /\ pos <= 3
      /\ work = [samples      |-> PrunedTo(disk.samples, 1),
                 cell_samples |-> PrunedTo(disk.cell_samples, 2),
                 temp_samples |-> PrunedTo(disk.temp_samples, 3)]
  BY DEF IInv, TxInv, WorkInPrune
<1>3. WorkInPrune'
  BY <1>2 DEF WorkInPrune, PrunedTo, Kept, durability, clock, IInv, TxInv
<1> QED
  BY <1>1, <1>3 DEF TxInv, WorkInFlush, WorkOutside, BufferGone, Kept

\* Committing a prune: a sample that was not in the database does not get there.
LEMMA PruneCommitStep ==
  ASSUME IInv, PruneCommit
  PROVE  DataInv' /\ TxInv' /\ Ids(disk'.samples) \subseteq Ids(disk.samples)
<1> USE DEF PruneCommit, Commit
<1>1. polled' = polled
  OBVIOUS
<1>2. \A t : TablesAgree(t) => TablesAgree(t)'
  BY <1>1 DEF TablesAgree
<1>3. work = [samples      |-> Kept(disk.samples, cutoff),
              cell_samples |-> Kept(disk.cell_samples, cutoff),
              temp_samples |-> Kept(disk.temp_samples, cutoff)]
  BY DEF IInv, TxInv, WorkInPrune, PrunedTo
<1>4. TablesAgree(disk)
  BY DEF IInv, DataInv, PollsAreWhole
<1>5. TablesAgree(work)
  BY <1>3, <1>4, PruneAgrees
<1>6. PollsAreWhole'
  BY <1>2, <1>5 DEF IInv, DataInv, PollsAreWhole
<1>7. Ids(work.samples) \subseteq Ids(disk.samples)
  BY <1>3 DEF Ids, Kept
<1>8. NeverTwice'
  BY <1>7 DEF IInv, DataInv, NeverTwice, Buffered
<1>9. DataInv'
  BY <1>1, <1>6, <1>8 DEF DataInv, IInv, PolledInOrder, BufferIsPolled
<1>10. TxInv'
  BY DEF TxInv, WorkInFlush, WorkInPrune, WorkOutside, BufferGone
<1> QED
  BY <1>7, <1>9, <1>10

\* The buffer after a poll.
LEMMA AddBuffers ==
  ASSUME IInv, NEW sh \in Shapes, Add(sh)
  PROVE  /\ Buffered' = Buffered \cup {Len(polled) + 1}
         /\ Len(polled') = Len(polled) + 1
<1>1. NewSample(sh) \in Sample /\ NewSample(sh).id = Len(polled) + 1
  BY NewSampleType DEF IInv, NewSample
<1>2. Len(buf) \in Nat /\ DOMAIN buf = 1..Len(buf)
  BY DEF IInv, TypeOK
<1>3. /\ DOMAIN buf' = DOMAIN buf \cup {Len(buf) + 1}
      /\ \A i \in DOMAIN buf : buf'[i] = buf[i]
      /\ buf'[Len(buf) + 1] = NewSample(sh)
  BY <1>1, <1>2 DEF IInv, TypeOK, Add
<1>4. Buffered' = Buffered \cup {Len(polled) + 1}
  BY <1>1, <1>3 DEF Buffered
<1>5. Len(polled') = Len(polled) + 1
  BY <1>1 DEF Add, IInv, TypeOK
<1> QED
  BY <1>4, <1>5

\* A poll adds a sample that was nowhere before.
LEMMA AddStep ==
  ASSUME IInv, TypeOK', NEW sh \in Shapes, Add(sh)
  PROVE  DataInv' /\ TxInv'
<1> DEFINE s == NewSample(sh)
           new == Len(polled) + 1
<1> USE DEF Add
<1>1. s \in Sample /\ s.id = new
  BY NewSampleType DEF IInv, NewSample
<1>2. buf \in Seq(Sample) /\ polled \in Seq(Sample)
  BY DEF IInv, TypeOK
<1>3. /\ DOMAIN polled = 1..Len(polled) /\ Len(polled) \in Nat
      /\ DOMAIN polled' = DOMAIN polled \cup {new}
      /\ \A i \in DOMAIN polled : polled'[i] = polled[i]
      /\ polled'[new] = s
  BY <1>1, <1>2
<1>4. /\ DOMAIN buf' = DOMAIN buf \cup {Len(buf) + 1}
      /\ \A i \in DOMAIN buf : buf'[i] = buf[i]
      /\ buf'[Len(buf) + 1] = s
      /\ Len(buf) + 1 \notin DOMAIN buf
  BY <1>1, <1>2
<1>5. \A t : TablesAgree(t) => TablesAgree(t)'
  BY <1>3, AgreeWithLongerHistory
<1>6. PollsAreWhole'
  BY <1>5 DEF IInv, DataInv, PollsAreWhole, durability
<1>7. PolledInOrder'
  BY <1>1, <1>3 DEF IInv, DataInv, PolledInOrder
<1>8. BufferIsPolled'
  BY <1>1, <1>3, <1>4 DEF IInv, DataInv, BufferIsPolled
<1>9. \A i \in DOMAIN buf : buf[i].id # new
  BY <1>3 DEF IInv, DataInv, BufferIsPolled
<1>10. \A t \in recoverable \cup {disk} : new \notin Ids(t.samples)
  BY <1>3 DEF IInv, DataInv, PollsAreWhole, TablesAgree, Ids
<1>11. Buffered' = Buffered \cup {new}
  BY AddBuffers
<1>12. NeverTwice'
  <2>1. \A i, j \in DOMAIN buf' : buf'[i].id = buf'[j].id => i = j
    BY <1>1, <1>4, <1>9 DEF IInv, DataInv, NeverTwice
  <2>2. \A t \in recoverable \cup {disk} : Buffered' \cap Ids(t.samples) = {}
    BY <1>10, <1>11 DEF IInv, DataInv, NeverTwice
  <2> QED
    BY <2>1, <2>2 DEF NeverTwice, durability
<1>13. DataInv'
  BY <1>6, <1>7, <1>8, <1>12 DEF IInv, DataInv, durability
<1>14. TxInv'
  BY DEF IInv, TxInv, WorkInFlush, WorkInPrune, WorkOutside, BufferGone, durability, tx
<1> QED
  BY <1>13, <1>14

\* A stop of the process or of the machine: the buffer is gone, and the tables
\* are some committed ones.
LEMMA StopStep ==
  ASSUME IInv, Die \/ PowerLoss
  PROVE  DataInv' /\ TxInv'
<1>1. /\ buf' = <<>> /\ polled' = polled /\ op' = "none" /\ work' = disk' /\ pos' = 0
      /\ disk' \in recoverable /\ disk' \in recoverable'
      /\ recoverable' \subseteq recoverable
  BY DEF Die, PowerLoss, IInv, DataInv, durability
<1>2. \A t : TablesAgree(t) => TablesAgree(t)'
  BY <1>1 DEF TablesAgree
<1>3. PollsAreWhole'
  BY <1>1, <1>2 DEF IInv, DataInv, PollsAreWhole
<1>4. NeverTwice' /\ BufferIsPolled'
  BY <1>1 DEF NeverTwice, Buffered, BufferIsPolled
<1>5. DataInv'
  BY <1>1, <1>3, <1>4 DEF IInv, DataInv, PolledInOrder
<1>6. TxInv'
  BY <1>1 DEF TxInv, WorkInFlush, WorkInPrune, WorkOutside, BufferGone
<1> QED
  BY <1>5, <1>6

\* Closing may checkpoint.
LEMMA CloseStep ==
  ASSUME IInv, Close
  PROVE  DataInv' /\ TxInv'
<1> USE DEF Close
<1>1. /\ disk \in recoverable /\ disk' = disk
      /\ recoverable' = {disk} \/ recoverable' = recoverable
      /\ buf' = buf /\ polled' = polled
  BY DEF IInv, DataInv
<1>2. \A t : TablesAgree(t) => TablesAgree(t)'
  BY <1>1 DEF TablesAgree
<1>3. PollsAreWhole'
  BY <1>1, <1>2 DEF IInv, DataInv, PollsAreWhole
<1>4. DataInv'
  BY <1>1, <1>3 DEF IInv, DataInv, NeverTwice, Buffered, PolledInOrder, BufferIsPolled
<1>5. TxInv'
  BY DEF IInv, TxInv, WorkInFlush, WorkInPrune, WorkOutside, BufferGone, tx
<1> QED
  BY <1>4, <1>5

\* IInv holds at the start.
LEMMA InvInit == Init => IInv
<1> SUFFICES ASSUME Init PROVE IInv
  OBVIOUS
<1>1. TypeOK
  BY BoundsAssumption DEF Init, TypeOK, NoRows, Tables
<1>2. DataInv
  BY DEF Init, DataInv, PollsAreWhole, TablesAgree, NeverTwice, Buffered, PolledInOrder,
         BufferIsPolled, NoRows, Ids
<1>3. TxInv
  BY DEF Init, TxInv, WorkInFlush, WorkInPrune, WorkOutside, BufferGone
<1> QED
  BY <1>1, <1>2, <1>3 DEF IInv

\* Every step preserves IInv.
LEMMA InvStep ==
  ASSUME IInv, [Next]_vars
  PROVE  IInv'
<1>1. TypeOK'
  BY TypeStep DEF IInv
<1> SUFFICES DataInv' /\ TxInv'
  BY <1>1 DEF IInv
<1>2. CASE /\ UNCHANGED <<buf, disk, recoverable, polled, op, work, pos, cutoff>>
           /\ Tick \/ StepBack \/ UNCHANGED vars
  <2>1. DataInv'
    BY <1>2, DataUnchanged DEF IInv
  <2>2. stepsBack' = 0 => stepsBack = 0 /\ now' >= now
    <3>1. now \in Int /\ stepsBack \in Nat
      BY DEF IInv, TypeOK
    <3>2. CASE Tick
      BY <3>1, <3>2 DEF Tick
    <3>3. CASE StepBack
      BY <3>1, <3>3 DEF StepBack
    <3>4. CASE UNCHANGED vars
      BY <3>1, <3>4 DEF vars, clock
    <3> QED
      BY <1>2, <3>2, <3>3, <3>4
  <2>3. WorkInPrune'
    <3> SUFFICES ASSUME op' = "prune"
                 PROVE  (WorkInPrune!2)'
      BY DEF WorkInPrune
    <3>1. WorkInPrune!2
      BY <1>2 DEF IInv, TxInv, WorkInPrune
    <3>2. stepsBack' = 0 => cutoff' <= now' - Retention
      <4>1. now \in Int /\ now' \in Int /\ cutoff \in Int /\ Retention \in Int
        BY <1>1, RetentionAssumption DEF IInv, TypeOK
      <4>2. cutoff' = cutoff
        BY <1>2
      <4>3. stepsBack = 0 => cutoff <= now - Retention
        BY <3>1
      <4>4. \A a, b, c, d \in Int : a <= b - c /\ d >= b => a <= d - c
        OBVIOUS
      <4> QED
        BY <2>2, <4>1, <4>2, <4>3, <4>4
    <3> QED
      BY <1>2, <3>1, <3>2 DEF PrunedTo
  <2>4. (WorkInFlush /\ WorkOutside /\ BufferGone)'
    BY <1>2 DEF IInv, TxInv, WorkInFlush, TablesAgree, InsertedIds, WorkOutside, BufferGone
  <2> QED
    BY <2>1, <2>3, <2>4 DEF TxInv
<1>3. CASE Open \/ FlushBegin \/ PruneBegin
  <2>1. UNCHANGED <<buf, disk, recoverable, polled, work, pos, now, stepsBack>>
    BY <1>3 DEF Open, FlushBegin, PruneBegin, durability, tx, clock
  <2>2. DataInv'
    BY <2>1, DataUnchanged DEF IInv
  <2>3. work = disk /\ pos = 0 /\ TablesAgree(disk)
    BY <1>3 DEF IInv, TxInv, WorkOutside, Open, FlushBegin, PruneBegin, Begin, DataInv, PollsAreWhole
  <2>4. InsertedIds(0) = {}
    BY DEF InsertedIds
  <2>5. WorkInFlush'
    <3>1. CASE FlushBegin
      <4>1. TablesAgree(work)'
        BY <2>1, <2>3 DEF TablesAgree
      <4> QED
        BY <2>1, <2>3, <2>4, <3>1, <4>1 DEF FlushBegin, WorkInFlush, InsertedIds, IInv, TypeOK
    <3>2. CASE ~FlushBegin
      BY <1>3, <3>2 DEF Open, PruneBegin, Begin, WorkInFlush
    <3> QED
      BY <3>1, <3>2
  <2>6. WorkInPrune'
    <3>1. CASE PruneBegin
      <4>1. disk \in Tables
        BY DEF IInv, TypeOK
      <4>2. work' = [samples      |-> PrunedTo(disk.samples, 1),
                     cell_samples |-> PrunedTo(disk.cell_samples, 2),
                     temp_samples |-> PrunedTo(disk.temp_samples, 3)]'
        BY <2>1, <2>3, <4>1 DEF PrunedTo, Tables
      <4> QED
        BY <2>1, <2>3, <3>1, <4>2, RetentionAssumption DEF PruneBegin, WorkInPrune, IInv, TypeOK
    <3>2. CASE ~PruneBegin
      BY <1>3, <3>2 DEF Open, FlushBegin, Begin, WorkInPrune
    <3> QED
      BY <3>1, <3>2
  <2>7. WorkOutside' /\ BufferGone'
    BY <1>3, <2>1, <2>3 DEF Open, FlushBegin, PruneBegin, Begin, WorkOutside, BufferGone
  <2> QED
    BY <2>2, <2>5, <2>6, <2>7 DEF TxInv
<1>4. CASE FlushConflict \/ FlushError \/ PruneError
  BY <1>4, RollbackStep DEF FlushConflict, FlushError, PruneError, durability
<1>5. CASE \E sh \in Shapes : Add(sh)
  BY <1>1, <1>5, AddStep
<1>6. CASE FlushInsert
  BY <1>1, <1>6, FlushInsertStep
<1>7. CASE FlushCommit
  BY <1>7, FlushCommitStep
<1>8. CASE PruneTable
  BY <1>8, PruneTableStep
<1>9. CASE PruneCommit
  BY <1>9, PruneCommitStep
<1>10. CASE Close
  BY <1>10, CloseStep
<1>11. CASE Die \/ PowerLoss
  BY <1>11, StopStep
<1>12. CASE Tick \/ StepBack \/ UNCHANGED vars
  BY <1>2, <1>12 DEF Tick, StepBack, vars, durability, tx
<1> QED
  BY <1>3, <1>4, <1>5, <1>6, <1>7, <1>8, <1>9, <1>10, <1>11, <1>12
     DEF Next, Healthy, FlushStep, PruneStep

\* IInv is an invariant.
THEOREM Inductive == Spec => []IInv
BY InvInit, InvStep, PTL DEF Spec

\* What a reader sees and what a power loss leaves are whole polls.
THEOREM WholePolls == Spec => []PollsAreWhole
<1>1. IInv => PollsAreWhole
  BY DEF IInv, DataInv
<1> QED
  BY <1>1, Inductive, PTL

\* No poll is stored while it still waits in the buffer.
THEOREM NoPollTwice == Spec => []NeverTwice
<1>1. IInv => NeverTwice
  BY DEF IInv, DataInv
<1> QED
  BY <1>1, Inductive, PTL

\* Rows leave only by a prune, and only behind its cutoff.
LEMMA OnlyPruneDeletes ==
  ASSUME IInv, [Next]_vars, op' # "none",
         NEW r \in disk.samples \ disk'.samples
  PROVE  op = "prune" /\ r.ts < cutoff
<1>1. disk' # disk
  OBVIOUS
<1>2. CASE FlushCommit
  <2>1. work.samples = disk'.samples /\ TablesAgree(work) /\ TablesAgree(disk)
    BY <1>2 DEF FlushCommit, Commit, IInv, TxInv, WorkInFlush, DataInv, PollsAreWhole
  <2>2. Ids(disk.samples) \subseteq Ids(work.samples)
    BY <1>2 DEF FlushCommit, IInv, TxInv, WorkInFlush
  <2>3. PICK q \in work.samples : q.id = r.id
    BY <2>2 DEF Ids
  <2>4. q = RowOf(polled[q.id]) /\ r = RowOf(polled[r.id])
    BY <2>1 DEF TablesAgree
  <2> QED
    BY <2>1, <2>3, <2>4
<1>3. CASE PruneCommit
  <2>1. disk'.samples = Kept(disk.samples, cutoff)
    BY <1>3 DEF PruneCommit, Commit, IInv, TxInv, WorkInPrune, PrunedTo
  <2>2. r.ts \in Int /\ cutoff \in Int
    BY DEF IInv, TypeOK, Tables, SampleRow
  <2> QED
    BY <1>3, <2>1, <2>2 DEF PruneCommit, Kept
<1>4. CASE ~FlushCommit /\ ~PruneCommit
  BY <1>1, <1>4 DEF Next, Healthy, FlushStep, PruneStep, Open, Add, FlushBegin, FlushInsert,
     FlushConflict, FlushError, PruneBegin, PruneTable, PruneError, Close, Die, PowerLoss,
     Tick, StepBack, Rollback, durability, vars
<1> QED
  BY <1>2, <1>3, <1>4

\* Nothing inside the retention window is deleted while the clock only moves
\* forward.
THEOREM Retains == Spec => RetentionHonoured
<1>1. ASSUME IInv, [Next]_vars
      PROVE  [\A r \in disk.samples \ disk'.samples :
                op' # "none" /\ stepsBack = 0 => Retention > 0 /\ r.ts < now - Retention]_vars
  <2> SUFFICES ASSUME NEW r \in disk.samples \ disk'.samples, op' # "none", stepsBack = 0
               PROVE  Retention > 0 /\ r.ts < now - Retention
    OBVIOUS
  <2>1. op = "prune" /\ r.ts < cutoff
    BY <1>1, OnlyPruneDeletes
  <2>2. Retention > 0 /\ cutoff <= now - Retention
    BY <1>1, <2>1 DEF IInv, TxInv, WorkInPrune
  <2>3. r.ts \in Int /\ cutoff \in Int /\ now \in Int /\ Retention \in Int
    BY <1>1, RetentionAssumption DEF IInv, TypeOK, Tables, SampleRow
  <2>4. \A a, b, c \in Int : a < b /\ b <= c => a < c
    OBVIOUS
  <2>5. now - Retention \in Int
    BY <2>3
  <2> QED
    BY <2>1, <2>2, <2>3, <2>4, <2>5
<1> QED
  BY <1>1, Inductive, PTL DEF Spec, RetentionHonoured

-----------------------------------------------------------------------------
(* Store implements SampleLog *)

\* What a commit does to the sets of samples that may be restored.
LEMMA CommitMaps ==
  ASSUME Commit
  PROVE  Log!Commit(Ids(disk'.samples))
<1> DEFINE rec == {Ids(t.samples) : t \in recoverable}
<1>1. disk' = work
  BY DEF Commit
<1>2. CASE recoverable' = {work}
  BY <1>1, <1>2 DEF Log!Commit
<1>3. CASE recoverable' = recoverable \cup {work}
  <2>1. {Ids(t.samples) : t \in recoverable'} = rec \cup {Ids(disk'.samples)}
    BY <1>1, <1>3
  <2> QED
    BY <2>1 DEF Log!Commit
<1> QED
  BY <1>2, <1>3 DEF Commit

\* Every step of the store is a step of the log or leaves it unchanged.
LEMMA StepMaps ==
  ASSUME IInv, [Next]_vars
  PROVE  [Log!Next]_Log!vars
<1> USE DEF Log!Next, Log!vars
<1>1. CASE Open
  BY <1>1 DEF Open, Log!Start, Buffered, durability
<1>2. CASE \E sh \in Shapes : Add(sh)
  <2> PICK sh \in Shapes : Add(sh)
    BY <1>2
  <2>1. Buffered' = Buffered \cup {Len(polled) + 1} /\ Len(polled') = Len(polled) + 1
    BY AddBuffers
  <2> QED
    BY <2>1 DEF Add, Log!Accept, durability
<1>3. CASE FlushCommit
  <2>1. Ids(disk'.samples) = Ids(disk.samples) \cup Buffered
    BY <1>3, AllInserted DEF FlushCommit, Commit, IInv, TxInv, WorkInFlush
  <2>2. Buffered # {} /\ Buffered' = {}
    <3>1. buf \in Seq(Sample) /\ buf # <<>>
      BY <1>3 DEF FlushCommit, IInv, TypeOK, TxInv, WorkInFlush
    <3>2. 1 \in DOMAIN buf
      BY <3>1
    <3> QED
      BY <1>3, <3>2 DEF FlushCommit, Buffered
  <2>3. Log!Commit(Ids(disk'.samples))
    BY <1>3, CommitMaps DEF FlushCommit
  <2> QED
    BY <1>3, <2>1, <2>2, <2>3 DEF FlushCommit, Commit, Log!Persist
<1>4. CASE PruneCommit
  <2>1. Ids(disk'.samples) \subseteq Ids(disk.samples)
    BY <1>4, PruneCommitStep
  <2>2. Log!Commit(Ids(disk'.samples))
    BY <1>4, CommitMaps DEF PruneCommit
  <2>3. \E gone \in SUBSET Ids(disk.samples) : Log!Commit(Ids(disk.samples) \ gone)
    <3> DEFINE gone == Ids(disk.samples) \ Ids(disk'.samples)
    <3>1. gone \in SUBSET Ids(disk.samples) /\ Ids(disk.samples) \ gone = Ids(disk'.samples)
      BY <2>1
    <3> QED
      BY <2>2, <3>1
  <2> QED
    BY <1>4, <2>3 DEF PruneCommit, Commit, Log!Expire, Buffered
<1>5. CASE Close
  <2>1. disk' = disk /\ UNCHANGED <<buf, polled>> /\ op = "idle" /\ op' = "closed"
    BY <1>5 DEF Close
  <2>2. CASE recoverable' = {disk}
    BY <2>1, <2>2 DEF Log!Checkpoint, Buffered
  <2>3. CASE recoverable' = recoverable
    BY <2>1, <2>3 DEF Buffered
  <2> QED
    BY <1>5, <2>2, <2>3 DEF Close
<1>6. CASE Die
  BY <1>6 DEF Die, Log!Stop, Buffered, durability
<1>7. CASE PowerLoss
  <2>1. /\ disk' \in recoverable /\ recoverable' = {disk'} /\ buf' = <<>> /\ op' = "none"
        /\ polled' = polled
    BY <1>7 DEF PowerLoss
  <2>2. Buffered' = {}
    BY <2>1 DEF Buffered
  <2> QED
    BY <2>1, <2>2 DEF Log!PowerLoss
<1>8. ASSUME UNCHANGED <<buf, polled, disk, recoverable>>, (op = "none") = (op' = "none")
      PROVE  UNCHANGED Log!vars
  BY <1>8 DEF Buffered
<1>9. CASE \/ FlushBegin \/ FlushInsert \/ FlushConflict \/ FlushError
           \/ PruneBegin \/ PruneTable \/ PruneError \/ Tick \/ StepBack \/ UNCHANGED vars
  BY <1>8, <1>9 DEF FlushBegin, FlushInsert, FlushConflict, FlushError, PruneBegin, PruneTable,
     PruneError, Tick, StepBack, Begin, Rollback, durability, vars
<1> QED
  BY <1>1, <1>2, <1>3, <1>4, <1>5, <1>6, <1>7, <1>9 DEF Next, Healthy, FlushStep, PruneStep

\* The store keeps the promise of the sample log.
THEOREM Implementation == Spec => ImplementsSampleLog
<1>1. Init => Log!Init
  BY DEF Init, Log!Init, NoRows, Ids, Buffered
<1>2. IInv /\ [Next]_vars => [Log!Next]_Log!vars
  BY StepMaps
<1> QED
  BY <1>1, <1>2, Inductive, PTL DEF Spec, Log!Spec, ImplementsSampleLog
=============================================================================
