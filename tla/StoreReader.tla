----------------------------- MODULE StoreReader -----------------------------
(***************************************************************************)
(* The HTTP side of the store: /api/latest and /api/range read through     *)
(* their own read-only handle, one query after the other and outside any   *)
(* transaction, so a flush or a prune may commit between two queries of    *)
(* one request.                                                            *)
(*                                                                         *)
(* The database is reduced to the set of whole polls it holds, which is    *)
(* what Store shows the committed tables to be; a flush commits the buffer *)
(* at once and a prune drops what is older than its cutoff.  A query sees  *)
(* one such set.  Requests do not touch each other, so one is enough.  A   *)
(* value in a response is the set of polls it is taken from: one in raw    *)
(* form, those averaged in a bucket, none for null.                        *)
(*                                                                         *)
(* An operator whose name says how it departs from the one that follows it *)
(* is a faulty variant, used by no action.                                 *)
(***************************************************************************)
EXTENDS Integers, Sequences, FiniteSets

CONSTANTS
  NumCells,           \* numCells
  Probe,              \* temperature probe labels
  Shapes,             \* which cells and probes one poll may report
  RangeRawThreshold,  \* rangeRawThreshold
  RangeRawCap,        \* rangeRawCap
  RangeBuckets,       \* rangeBuckets
  Windows,            \* the windows [from, to] that requests ask for
  Found,              \* what an earlier process may have left in the database
  MaxPolls,           \* bound: samples, found or polled
  MaxNow,             \* bound: the host clock
  MaxStepsBack        \* bound: corrections that set the host clock back

CellIdx == 0..NumCells - 1

ASSUME CellsAssumption ==
  /\ NumCells \in Nat
  /\ Shapes \subseteq [cells : SUBSET CellIdx, temps : SUBSET Probe]
ASSUME LimitsAssumption ==
  /\ RangeRawThreshold \in Nat
  /\ RangeRawCap \in Nat \ {0}
  /\ RangeBuckets \in Nat \ {0}
\* handleRange answers 400 unless from < to.
ASSUME WindowsAssumption ==
  Windows \subseteq {w \in [from : Int, to : Int] : w.from < w.to}
ASSUME ReaderBoundsAssumption ==
  MaxPolls \in Nat /\ MaxNow \in Nat /\ MaxStepsBack \in Nat

VARIABLES
  db,         \* the committed polls
  buf,        \* the polls that wait for the next flush
  now,        \* the host clock
  stepsBack,  \* corrections of the clock so far
  nextId,     \* the next poll's number
  req,        \* the request in flight: its parameters and what it has read
  seen,       \* history: polls that some query of this request could have read
  lasting     \* history: polls that every query of this request could have read

data == <<db, buf, now, stepsBack, nextId>>
history == <<seen, lasting>>
vars == <<data, req, history>>

-----------------------------------------------------------------------------
(* The database *)

Poll == [id : Nat, ts : Int, cells : SUBSET CellIdx, temps : SUBSET Probe]

Reading == req.stage \notin {"idle", "done"}

DbBecomes(d) ==
  /\ db' = d
  /\ seen' = IF Reading THEN seen \cup d ELSE seen
  /\ lasting' = IF Reading THEN lasting \cap d ELSE lasting

\* A later poll is stamped with a later time, unless the clock was set back.
AddPoll(sh) ==
  /\ nextId <= MaxPolls
  /\ now' \in now + 1..MaxNow
  /\ nextId' = nextId + 1
  /\ buf' = buf \cup {[id |-> nextId, ts |-> now', cells |-> sh.cells, temps |-> sh.temps]}
  /\ UNCHANGED <<db, stepsBack, req, history>>

\* Two rows of one poll's cells or probes may not share their ts and index.
KeysAreFree(polls) ==
  \A p, q \in polls :
    p.ts = q.ts /\ p # q => p.cells \cap q.cells = {} /\ p.temps \cap q.temps = {}

\* The polls of an earlier process are numbered, and their rows have free keys.
ASSUME FoundAssumption ==
  \A F \in Found :
    /\ IsFiniteSet(F) /\ F \subseteq Poll /\ KeysAreFree(F)
    /\ \A p \in F : p.id <= Cardinality(F)
    /\ \A p, q \in F : p.id = q.id => p = q

FlushCommits ==
  /\ buf # {}
  /\ KeysAreFree(db \cup buf)
  /\ DbBecomes(db \cup buf)
  /\ buf' = {}
  /\ UNCHANGED <<now, stepsBack, nextId, req>>

PruneCommits ==
  /\ \E cutoff \in 1..now : DbBecomes({p \in db : p.ts >= cutoff})
  /\ UNCHANGED <<buf, now, stepsBack, nextId, req>>

StepBack ==
  /\ stepsBack < MaxStepsBack
  /\ stepsBack' = stepsBack + 1
  /\ now' \in 0..now
  /\ UNCHANGED <<db, buf, nextId, req, history>>

-----------------------------------------------------------------------------
(* Requests *)

NoRequest ==
  [stage |-> "idle", form |-> "none", from |-> 0, to |-> 0,
   pack |-> FALSE, cells |-> FALSE,          \* the series asked for
   truncated |-> FALSE, axis |-> <<>>,       \* rangeRaw's Truncated and tsList
   head |-> {},                              \* Latest's row of samples
   packRows |-> {}, tempRows |-> {},         \* rows read so far
   cellRows |-> [i \in CellIdx |-> {}],
   nextCell |-> 0]                           \* rangeBucketed's loop

Init ==
  /\ db \in Found
  /\ buf = {}
  /\ now \in 0..MaxNow /\ \A p \in db : p.ts <= now
  /\ stepsBack = 0
  /\ nextId = Cardinality(db) + 1
  /\ req = NoRequest
  /\ seen = {}
  /\ lasting = {}

Begins(r) ==
  /\ req.stage = "idle"
  /\ req' = r
  /\ seen' = db
  /\ lasting' = db
  /\ UNCHANGED data

Continues(r) ==
  /\ req' = r
  /\ UNCHANGED <<data, history>>

InWindow(lo, hi) == {p \in db : lo <= p.ts /\ p.ts <= hi}

\* Latest's first query; on an empty database it is the only one.
LatestSample ==
  \E head \in {{p} : p \in db} \cup {{}} :
    /\ IF head = {} THEN db = {} ELSE \A p \in head, q \in db : q.ts <= p.ts
    /\ Begins([NoRequest EXCEPT !.stage = IF head = {} THEN "done" ELSE "latestcells",
                                !.form = "latest", !.head = head])

HeadTs == (CHOOSE p \in req.head : TRUE).ts

LatestCellsOfNewest ==
  /\ req.stage = "latestcells"
  /\ Continues([req EXCEPT
       !.stage = "latesttemps",
       !.cellRows = [i \in CellIdx |->
          {p \in db : i \in p.cells /\ \A q \in db : q.ts <= p.ts}]])

LatestCells ==
  /\ req.stage = "latestcells"
  /\ Continues([req EXCEPT
       !.stage = "latesttemps",
       !.cellRows = [i \in CellIdx |-> {p \in db : p.ts = HeadTs /\ i \in p.cells}]])

LatestTemps ==
  /\ req.stage = "latesttemps"
  /\ Continues([req EXCEPT
       !.stage = "done",
       !.tempRows = {p \in db : p.ts = HeadTs /\ p.temps # {}}])

\* Range counts the rows in the window and decides on the form by that count,
\* and rangeRaw decides by it whether to cut.
RangeCount ==
  \E w \in Windows, raw, pack, cells \in BOOLEAN :
    LET count == Cardinality(InWindow(w.from, w.to))
        form == IF raw \/ count <= RangeRawThreshold THEN "raw" ELSE "buckets"
    IN /\ pack \/ cells
       /\ Begins([NoRequest EXCEPT
            !.stage = IF form = "raw" THEN "axis" ELSE "pack",
            !.form = form, !.from = w.from, !.to = w.to, !.pack = pack, !.cells = cells,
            !.truncated = form = "raw" /\ count > RangeRawCap])

\* A finite set as a sequence.  It is said by the order alone, not with the
\* SortSeq of module TLC, whose definition the provers do not have.
InOrder(S, Before(_, _)) ==
  CHOOSE s \in [1..Cardinality(S) -> S] :
    \A i, j \in 1..Cardinality(S) : i < j => Before(s[i], s[j])

Earlier(p, q) == p.ts < q.ts \/ (p.ts = q.ts /\ p.id < q.id)

OldestRows(rows) ==
  IF Len(rows) > RangeRawCap THEN SubSeq(rows, 1, RangeRawCap) ELSE rows

\* ORDER BY ts DESC LIMIT rangeRawCap, turned round again.
NewestRows(rows) ==
  IF Len(rows) > RangeRawCap
  THEN SubSeq(rows, Len(rows) - RangeRawCap + 1, Len(rows))
  ELSE rows

RawAxis ==
  /\ req.stage = "axis"
  /\ LET rows == InOrder(InWindow(req.from, req.to), Earlier)
         kept == IF req.truncated THEN NewestRows(rows) ELSE rows
     IN Continues([req EXCEPT !.stage = "pack",
                              !.axis = [i \in DOMAIN kept |-> kept[i].ts]])

\* The rows that the later queries of rangeRaw keep: from the first timestamp of
\* the axis on, and only at timestamps of the axis.
OnAxis ==
  {p \in db : /\ req.axis # <<>>
              /\ req.axis[1] <= p.ts /\ p.ts <= req.to
              /\ \E i \in DOMAIN req.axis : req.axis[i] = p.ts}

RowsToRead == IF req.form = "raw" THEN OnAxis ELSE InWindow(req.from, req.to)

\* One query for voltage and current, left out when neither is asked for.
PackRows ==
  /\ req.stage = "pack"
  /\ Continues([req EXCEPT !.stage = "cells",
                           !.packRows = IF req.pack THEN RowsToRead ELSE {}])

CellRowsAt(i) == {p \in RowsToRead : i \in p.cells}

\* All cells at once.
RawCells ==
  /\ req.stage = "cells"
  /\ req.form = "raw"
  /\ Continues([req EXCEPT
       !.stage = "done",
       !.cellRows = [i \in CellIdx |-> IF req.cells THEN CellRowsAt(i) ELSE {}]])

BucketCellOneMore ==
  /\ req.stage = "cells"
  /\ req.form = "buckets"
  /\ req.cells
  /\ req.nextCell <= NumCells
  /\ Continues([req EXCEPT !.nextCell = @ + 1])

\* One query per cell.
BucketCell ==
  /\ req.stage = "cells"
  /\ req.form = "buckets"
  /\ req.cells
  /\ req.nextCell < NumCells
  /\ Continues([req EXCEPT !.cellRows[req.nextCell] = CellRowsAt(req.nextCell),
                           !.nextCell = @ + 1])

BucketCellsDone ==
  /\ req.stage = "cells"
  /\ req.form = "buckets"
  /\ req.cells => req.nextCell = NumCells
  /\ Continues([req EXCEPT !.stage = "done"])

\* A query fails, or the client goes away and cancels the request's context.
QueryFails ==
  /\ Reading
  /\ req' = NoRequest
  /\ seen' = {}
  /\ lasting' = {}
  /\ UNCHANGED data

Respond ==
  /\ req.stage = "done"
  /\ req' = NoRequest
  /\ seen' = {}
  /\ lasting' = {}
  /\ UNCHANGED data

Next ==
  \/ \E sh \in Shapes : AddPoll(sh)
  \/ FlushCommits
  \/ PruneCommits
  \/ StepBack
  \/ LatestSample \/ LatestCells \/ LatestTemps
  \/ RangeCount \/ RawAxis \/ PackRows \/ RawCells \/ BucketCell \/ BucketCellsDone
  \/ QueryFails
  \/ Respond

Spec == Init /\ [][Next]_vars

-----------------------------------------------------------------------------
(* The response of Range *)

BucketMSOfOne == 1

\* Go and SQLite divide without remainder towards zero; all operands are >= 0.
BucketMS ==
  LET ms == (req.to - req.from) \div RangeBuckets IN IF ms < 1 THEN 1 ELSE ms
BucketOf(ts) == (ts - req.from) \div BucketMS
BucketTS(k) == req.from + k * BucketMS + BucketMS \div 2

AllRows == req.packRows \cup UNION {req.cellRows[i] : i \in CellIdx}

\* The sorted union of the buckets that any series has a row in.
Buckets == InOrder({BucketOf(p.ts) : p \in AllRows}, <)

TS ==
  IF req.form = "raw" THEN req.axis
  ELSE [i \in DOMAIN Buckets |-> BucketTS(Buckets[i])]

\* The map pos: of two equal timestamps the later position wins, and of two rows
\* with one timestamp the later row overwrites.
RawValue(rows, i) ==
  IF \E j \in DOMAIN req.axis : j > i /\ req.axis[j] = req.axis[i] THEN {}
  ELSE {p \in rows : /\ p.ts = req.axis[i]
                     /\ \A q \in rows : q.ts = p.ts => q.id <= p.id}

BucketValueInOrder(rows, i) ==
  LET ks == InOrder({BucketOf(p.ts) : p \in rows}, <)
  IN IF i \in DOMAIN ks THEN {p \in rows : BucketOf(p.ts) = ks[i]} ELSE {}

BucketValue(rows, i) == {p \in rows : BucketOf(p.ts) = Buckets[i]}

Value(rows, i) == IF req.form = "raw" THEN RawValue(rows, i) ELSE BucketValue(rows, i)

PackValue(i) == Value(req.packRows, i)
CellValue(c, i) == Value(req.cellRows[c], i)

-----------------------------------------------------------------------------
(* Correctness *)

\* Type invariant.
TypeOK ==
  /\ db \subseteq Poll /\ buf \subseteq Poll
  /\ now \in Nat /\ stepsBack \in 0..MaxStepsBack /\ nextId \in Nat
  /\ req.stage \in {"idle", "latestcells", "latesttemps", "axis", "pack", "cells", "done"}
  /\ req.form \in {"none", "latest", "raw", "buckets"}
  /\ req.axis \in Seq(Int)
  /\ req.nextCell \in 0..NumCells
  /\ seen \subseteq Poll /\ lasting \subseteq seen

RangeDone == req.stage = "done" /\ req.form \in {"raw", "buckets"}

\* A poll is shown under its own timestamp, or under the middle of its bucket.
Near(ts, i) ==
  IF req.form = "raw" THEN ts = TS[i]
  ELSE 2 * (ts - TS[i]) \in -BucketMS .. BucketMS

\* What /api/range shows was in the database while the request ran, lies in the
\* window, and stands under its own timestamp or that of its bucket, however the
\* queries of the request and the commits of the writer interleave; the axis
\* ascends.
RangeShowsWhatWas ==
  RangeDone =>
    /\ \A i, j \in DOMAIN TS :
         i < j => IF req.form = "raw" THEN TS[i] <= TS[j] ELSE TS[i] < TS[j]
    /\ \A i \in DOMAIN TS :
         /\ \A p \in PackValue(i) :
              p \in seen /\ req.from <= p.ts /\ p.ts <= req.to /\ Near(p.ts, i)
         /\ \A c \in CellIdx : \A p \in CellValue(c, i) :
              /\ p \in seen /\ req.from <= p.ts /\ p.ts <= req.to /\ Near(p.ts, i)
              /\ c \in p.cells

\* A poll that Truncated stands for: older than everything shown.
CutOff(p) == req.truncated /\ \A i \in DOMAIN TS : p.ts < TS[i]

\* Does the poll have a value in a series that was asked for?
HasValue(p) == req.pack \/ p.cells # {}

\* A null in a response of /api/range is a gap in the data: a poll of the window
\* that no flush added and no prune removed meanwhile has its values in the
\* response, at one position, unless the response says that it was truncated.
RangeOmitsNothing ==
  RangeDone =>
    \A p \in lasting :
      req.from <= p.ts /\ p.ts <= req.to /\ HasValue(p) =>
        \/ CutOff(p)
        \/ \E i \in DOMAIN TS :
             /\ Near(p.ts, i)
             /\ req.pack => PackValue(i) # {}
             /\ req.cells => \A c \in p.cells : p \in CellValue(c, i)

\* How many points a downsampled response may have.
MostPoints ==
  IF req.to - req.from >= RangeBuckets * RangeBuckets THEN RangeBuckets + 1
  ELSE 2 * RangeBuckets

\* Downsampling bounds the response.  The width of a bucket is rounded down, so
\* that the grid overshoots the target: by one bucket, the one that `to' itself
\* begins, if a bucket is at least as many ms wide as there are buckets (with
\* the real target, in windows of seven hours and more), and never to more than
\* twice the target.  (TestRangeBucketed demands no more points than the target,
\* of a window that divides evenly and has no row at its end.)
BucketsAreBounded ==
  RangeDone /\ req.form = "buckets" => Len(TS) <= MostPoints

Alone(p) == \A q \in seen : q.ts = p.ts => q = p

\* /api/latest answers with the newest poll, and its cells and probes are those
\* of that same poll, not of one that was flushed meanwhile, unless another poll
\* has its ts or a prune removed it before the request was done.
LatestIsOnePoll ==
  req.stage = "done" /\ req.form = "latest" =>
    /\ \A p \in req.head, q \in lasting : q.ts <= p.ts
    /\ req.head = {} => lasting = {}
    /\ \A p \in req.head :
         p \in lasting /\ Alone(p) =>
           /\ \A c \in CellIdx : req.cellRows[c] = IF c \in p.cells THEN {p} ELSE {}
           /\ req.tempRows = IF p.temps # {} THEN {p} ELSE {}

\* rangeRawCap is documented as the hard cap on raw points.
RawWithinCap == RangeDone /\ req.form = "raw" => Len(TS) <= RangeRawCap
=============================================================================
