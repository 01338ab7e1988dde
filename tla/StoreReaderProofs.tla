-------------------------- MODULE StoreReaderProofs --------------------------
(***************************************************************************)
(* What a response of the readers shows, for every schedule of flushes,    *)
(* prunes and clock corrections between its queries.  The invariant        *)
(* follows a request from query to query: every row that it holds was in   *)
(* the database at some query (seen), and every poll that was there at all *)
(* of them (lasting) is among the rows read so far.  A commit only makes   *)
(* seen larger and lasting smaller, so it disturbs neither.                *)
(***************************************************************************)
EXTENDS StoreReader, FunctionTheorems, FiniteSetTheorems, TLAPS

Stages == {"idle", "latestcells", "latesttemps", "axis", "pack", "cells", "done"}
Forms == {"none", "latest", "raw", "buckets"}

Request ==
  [stage : Stages, form : Forms, from : Int, to : Int, pack : BOOLEAN, cells : BOOLEAN,
   truncated : BOOLEAN, axis : Seq(Int), head : SUBSET Poll, packRows : SUBSET Poll,
   tempRows : SUBSET Poll, cellRows : [CellIdx -> SUBSET Poll], nextCell : 0..NumCells]

Types ==
  /\ db \subseteq Poll /\ buf \subseteq Poll
  /\ now \in Nat /\ stepsBack \in 0..MaxStepsBack /\ nextId \in Nat
  /\ req \in Request
  /\ seen \subseteq Poll /\ lasting \subseteq seen

\* Every poll has a number of its own, and those committed have keys of their own.
DataInv ==
  /\ IsFiniteSet(db) /\ IsFiniteSet(buf)
  /\ \A p \in db \cup buf : p.id < nextId
  /\ \A p, q \in db \cup buf : p.id = q.id => p = q
  /\ KeysAreFree(db)

HistoryInv ==
  /\ \A p \in seen : p.id < nextId
  /\ Reading => lasting \subseteq db /\ db \subseteq seen

RangeForm == req.form \in {"raw", "buckets"}

StageInv ==
  /\ req.stage \in {"latestcells", "latesttemps"} => req.form = "latest"
  /\ req.stage = "axis" => req.form = "raw"
  /\ req.stage \in {"pack", "cells"} => RangeForm
  /\ req.stage \in {"axis", "pack"} => req.nextCell = 0
  /\ RangeForm => req.from < req.to /\ (req.pack \/ req.cells)

InRange(p) == req.from <= p.ts /\ p.ts <= req.to
Stamped(p) == \E i \in DOMAIN req.axis : req.axis[i] = p.ts

\* Rows of a range were read from the database, and no cell has two at one time.
RowsInv ==
  RangeForm =>
    /\ IsFiniteSet(req.packRows)
    /\ \A p \in req.packRows : p \in seen /\ InRange(p)
    /\ \A c \in CellIdx : IsFiniteSet(req.cellRows[c])
    /\ \A c \in CellIdx : \A p \in req.cellRows[c] : p \in seen /\ InRange(p) /\ c \in p.cells
    /\ \A c \in CellIdx : \A p, q \in req.cellRows[c] : p.ts = q.ts => p = q

\* The axis of a raw range ascends and misses what Truncated stands for only.
AxisInv ==
  req.form = "raw" /\ req.stage # "axis" =>
    /\ \A i, j \in DOMAIN req.axis : i < j => req.axis[i] <= req.axis[j]
    /\ \A i \in DOMAIN req.axis : req.from <= req.axis[i]
    /\ \A p \in lasting :
         InRange(p) =>
           Stamped(p) \/ (req.truncated /\ \A i \in DOMAIN req.axis : p.ts < req.axis[i])

\* A poll that a query of the series had to return.
Wanted(p) == InRange(p) /\ (req.form = "raw" => Stamped(p))

PackInv ==
  RangeForm /\ req.stage \in {"cells", "done"} /\ req.pack =>
    \A p \in lasting : Wanted(p) => p \in req.packRows

CellInv ==
  /\ req.form = "raw" /\ req.stage = "done" /\ req.cells =>
       \A c \in CellIdx : \A p \in lasting : Wanted(p) /\ c \in p.cells => p \in req.cellRows[c]
  /\ req.form = "buckets" /\ req.stage \in {"cells", "done"} /\ req.cells =>
       /\ \A c \in CellIdx : c < req.nextCell =>
            \A p \in lasting : Wanted(p) /\ c \in p.cells => p \in req.cellRows[c]
       /\ req.stage = "done" => req.nextCell = NumCells

HeadInv ==
  req.form = "latest" =>
    /\ req.head = {} => lasting = {} /\ req.stage = "done"
    /\ req.head # {} => \E p \in seen : req.head = {p}
    /\ \A p \in req.head, q \in lasting : q.ts <= p.ts

\* The rows that Latest reads have the time of its head, and its head is among
\* them if it is there still.
LatestInv ==
  req.form = "latest" =>
    \A p \in req.head :
      /\ req.stage \in {"latesttemps", "done"} =>
           \A c \in CellIdx :
             /\ \A q \in req.cellRows[c] : q \in seen /\ q.ts = p.ts /\ c \in q.cells
             /\ p \in lasting /\ c \in p.cells => p \in req.cellRows[c]
      /\ req.stage = "done" =>
           /\ \A q \in req.tempRows : q \in seen /\ q.ts = p.ts /\ q.temps # {}
           /\ p \in lasting /\ p.temps # {} => p \in req.tempRows

RequestInv == StageInv /\ RowsInv /\ AxisInv /\ PackInv /\ CellInv /\ HeadInv /\ LatestInv

IInv == Types /\ DataInv /\ HistoryInv /\ RequestInv

-----------------------------------------------------------------------------
(* Sorting *)

\* A strict total order on a finite set puts it into a sequence: an element's
\* place is the number of elements up to it.
LEMMA SortExists ==
  ASSUME NEW S, IsFiniteSet(S), NEW R,
         \A p \in S : <<p, p>> \notin R,
         \A p, q, r \in S : <<p, q>> \in R /\ <<q, r>> \in R => <<p, r>> \in R,
         \A p, q \in S : p # q => <<p, q>> \in R \/ <<q, p>> \in R
  PROVE  \E s \in [1..Cardinality(S) -> S] :
           \A i, j \in 1..Cardinality(S) : i < j => <<s[i], s[j]>> \in R
<1> DEFINE n == Cardinality(S)
           Down(p) == {q \in S : q = p \/ <<q, p>> \in R}
           rank == [p \in S |-> Cardinality(Down(p))]
<1>1. n \in Nat
  BY FS_CardinalityType
<1>2. ASSUME NEW p \in S PROVE rank[p] \in 1..n /\ IsFiniteSet(Down(p))
  <2>1. Down(p) \in SUBSET S /\ p \in Down(p)
    OBVIOUS
  <2>2. IsFiniteSet(Down(p)) /\ Cardinality(Down(p)) <= n
    BY <2>1, FS_Subset
  <2>3. Cardinality(Down(p)) \in Nat /\ Cardinality(Down(p)) # 0
    BY <2>1, <2>2, FS_CardinalityType, FS_EmptySet
  <2> QED
    BY <1>1, <2>2, <2>3
<1>3. ASSUME NEW p \in S, NEW q \in S, <<p, q>> \in R PROVE rank[p] < rank[q]
  <2>1. Down(p) \in SUBSET Down(q)
    BY <1>3
  <2>2. q \in Down(q) /\ q \notin Down(p)
    BY <1>3
  <2>3. Cardinality(Down(p)) <= Cardinality(Down(q))
        /\ Cardinality(Down(p)) # Cardinality(Down(q))
    <3>1. IsFiniteSet(Down(q))
      BY <1>2
    <3> HIDE DEF Down
    <3> QED
      BY <2>1, <2>2, <3>1, FS_Subset
  <2>4. rank[p] \in 1..n /\ rank[q] \in 1..n
    BY <1>2
  <2>5. rank[p] = Cardinality(Down(p)) /\ rank[q] = Cardinality(Down(q))
    OBVIOUS
  <2> HIDE DEF rank, Down, n
  <2> QED
    BY <1>1, <2>3, <2>4, <2>5
<1>4. \A p, q \in S : rank[p] = rank[q] => p = q
  <2> SUFFICES ASSUME NEW p \in S, NEW q \in S, rank[p] = rank[q], p # q PROVE FALSE
    OBVIOUS
  <2>1. rank[p] \in 1..n /\ rank[q] \in 1..n
    BY <1>2
  <2>2. rank[p] < rank[q] \/ rank[q] < rank[p]
    BY <1>3
  <2> HIDE DEF rank, Down, n
  <2> QED
    BY <1>1, <2>1, <2>2
<1>5. rank \in Injection(S, 1..n)
  <2>1. rank \in [S -> 1..n]
    BY <1>2
  <2> HIDE DEF rank, Down, n
  <2> QED
    BY <1>4, <2>1 DEF Injection, IsInjective
<1>6. IsFiniteSet(1..n) /\ Cardinality(1..n) = n
  <2> HIDE DEF n, rank, Down
  <2>1. 1 \in Int /\ n \in Int
    BY <1>1
  <2>2. IsFiniteSet(1..n) /\ Cardinality(1..n) = IF 1 > n THEN 0 ELSE n - 1 + 1
    BY <2>1, FS_Interval
  <2> QED
    BY <1>1, <2>2
<1>7. rank \in Surjection(S, 1..n)
  <2> HIDE DEF rank, Down
  <2> QED
    BY <1>5, <1>6, FS_Injection
<1>8. \A i \in 1..n : \E p \in S : rank[p] = i
  <2> HIDE DEF rank, Down, n
  <2> QED
    BY <1>7 DEF Surjection
<1> DEFINE s == [i \in 1..n |-> CHOOSE p \in S : rank[p] = i]
<1>9. ASSUME NEW i \in 1..n PROVE s[i] \in S /\ rank[s[i]] = i
  <2> HIDE DEF rank, Down, n
  <2>1. \E p \in S : rank[p] = i
    BY <1>8
  <2>2. s[i] = CHOOSE p \in S : rank[p] = i
    OBVIOUS
  <2> QED
    BY <2>1, <2>2
<1>10. s \in [1..n -> S]
  <2> HIDE DEF rank, Down, n
  <2> QED
    BY <1>9
<1>11. ASSUME NEW i \in 1..n, NEW j \in 1..n, i < j PROVE <<s[i], s[j]>> \in R
  <2>1. s[i] \in S /\ s[j] \in S /\ rank[s[i]] = i /\ rank[s[j]] = j
    BY <1>9
  <2> HIDE DEF rank, Down, n, s
  <2>2. s[i] # s[j] /\ ~ (rank[s[j]] < rank[s[i]])
    BY <1>1, <1>11, <2>1
  <2> QED
    BY <1>3, <2>1, <2>2
<1> HIDE DEF s, rank, Down
<1> QED
  BY <1>10, <1>11

\* A sequence without repetition that is as long as its set has every element.
LEMMA CountIsOnto ==
  ASSUME NEW S, IsFiniteSet(S), NEW s \in [1..Cardinality(S) -> S], IsInjective(s)
  PROVE  \A p \in S : \E i \in 1..Cardinality(S) : s[i] = p
<1> DEFINE n == Cardinality(S)
<1>1. n \in Nat
  BY FS_CardinalityType
<1>2. IsFiniteSet(1..n) /\ Cardinality(1..n) = n
  <2> HIDE DEF n
  <2>1. 1 \in Int /\ n \in Int
    BY <1>1
  <2>2. IsFiniteSet(1..n) /\ Cardinality(1..n) = IF 1 > n THEN 0 ELSE n - 1 + 1
    BY <2>1, FS_Interval
  <2> QED
    BY <1>1, <2>2
<1>3. s \in Injection(1..n, S)
  BY DEF Injection
<1>4. s \in Surjection(1..n, S)
  BY <1>2, <1>3, FS_Injection
<1> QED
  BY <1>4 DEF Surjection

\* A finite set of numbers in order: each of them once, ascending.
LEMMA NumbersInOrder ==
  ASSUME NEW S, IsFiniteSet(S), S \subseteq Int
  PROVE  LET s == InOrder(S, <) IN
         /\ s \in [1..Cardinality(S) -> S]
         /\ \A i, j \in 1..Cardinality(S) : i < j => s[i] < s[j]
         /\ \A k \in S : \E i \in 1..Cardinality(S) : s[i] = k
<1> DEFINE R == {p \in S \X S : p[1] < p[2]}
           T == [1..Cardinality(S) -> S]
           Sorted(s) == \A i, j \in 1..Cardinality(S) : i < j => s[i] < s[j]
           o == InOrder(S, <)
<1>1. /\ \A p \in S : <<p, p>> \notin R
      /\ \A p, q, r \in S : <<p, q>> \in R /\ <<q, r>> \in R => <<p, r>> \in R
      /\ \A p, q \in S : p # q => <<p, q>> \in R \/ <<q, p>> \in R
  OBVIOUS
<1>2. \A p, q \in S : <<p, q>> \in R <=> p < q
  OBVIOUS
<1>3. \E s \in T : \A i, j \in 1..Cardinality(S) : i < j => <<s[i], s[j]>> \in R
  <2> HIDE DEF R
  <2> QED
    BY <1>1, SortExists
<1>4. \E s \in T : Sorted(s)
  <2> HIDE DEF R
  <2> QED
    BY <1>2, <1>3
<1>5. o = CHOOSE s \in T : Sorted(s)
  BY DEF InOrder
<1>6. o \in T /\ Sorted(o)
  <2> HIDE DEF T, Sorted, o
  <2> QED
    BY <1>4, <1>5
<1>7. \A k \in S : \E i \in 1..Cardinality(S) : o[i] = k
  <2> HIDE DEF o, R
  <2>1. Cardinality(S) \in Nat
    BY FS_CardinalityType
  <2>2. o \in [1..Cardinality(S) -> S]
    BY <1>6
  <2>3. ASSUME NEW i \in 1..Cardinality(S), NEW j \in 1..Cardinality(S), o[i] = o[j], i # j
        PROVE FALSE
    <3>1. i < j \/ j < i
      BY <2>1, <2>3
    <3>2. o[i] < o[j] \/ o[j] < o[i]
      BY <1>6, <3>1
    <3>3. o[i] \in Int /\ o[j] \in Int
      BY <2>2
    <3> QED
      BY <2>3, <3>2, <3>3
  <2>4. IsInjective(o)
    BY <2>2, <2>3 DEF IsInjective
  <2> QED
    BY <2>2, <2>4, CountIsOnto
<1> QED
  BY <1>6, <1>7

\* Polls with numbers of their own in order: each of them once, by ascending time.
LEMMA PollsInOrder ==
  ASSUME NEW S, IsFiniteSet(S), S \subseteq Poll, \A p, q \in S : p.id = q.id => p = q
  PROVE  LET s == InOrder(S, Earlier) IN
         /\ s \in [1..Cardinality(S) -> S]
         /\ \A i, j \in 1..Cardinality(S) : i < j => s[i].ts <= s[j].ts
         /\ \A p \in S : \E i \in 1..Cardinality(S) : s[i] = p
<1> DEFINE R == {p \in S \X S : Earlier(p[1], p[2])}
           T == [1..Cardinality(S) -> S]
           Sorted(s) == \A i, j \in 1..Cardinality(S) : i < j => Earlier(s[i], s[j])
           o == InOrder(S, Earlier)
<1>1. \A p \in S : p.ts \in Int /\ p.id \in Nat
  BY DEF Poll
<1>2. \A p, q \in S : <<p, q>> \in R <=> Earlier(p, q)
  OBVIOUS
<1>3. /\ \A p \in S : ~ Earlier(p, p)
      /\ \A p, q, r \in S : Earlier(p, q) /\ Earlier(q, r) => Earlier(p, r)
      /\ \A p, q \in S : p # q => Earlier(p, q) \/ Earlier(q, p)
      /\ \A p, q \in S : Earlier(p, q) => p.ts <= q.ts
  BY <1>1 DEF Earlier
<1>4. /\ \A p \in S : <<p, p>> \notin R
      /\ \A p, q, r \in S : <<p, q>> \in R /\ <<q, r>> \in R => <<p, r>> \in R
      /\ \A p, q \in S : p # q => <<p, q>> \in R \/ <<q, p>> \in R
  <2> HIDE DEF R
  <2> QED
    BY <1>2, <1>3
<1>5. \E s \in T : \A i, j \in 1..Cardinality(S) : i < j => <<s[i], s[j]>> \in R
  <2> HIDE DEF R
  <2> QED
    BY <1>4, SortExists
<1>6. \E s \in T : Sorted(s)
  <2> HIDE DEF R
  <2> QED
    BY <1>2, <1>5
<1>7. o = CHOOSE s \in T : Sorted(s)
  BY DEF InOrder
<1>8. o \in T /\ Sorted(o)
  <2> HIDE DEF T, Sorted, o
  <2> QED
    BY <1>6, <1>7
<1>9. \A p \in S : \E i \in 1..Cardinality(S) : o[i] = p
  <2> HIDE DEF o, R
  <2>1. Cardinality(S) \in Nat
    BY FS_CardinalityType
  <2>2. o \in [1..Cardinality(S) -> S]
    BY <1>8
  <2>3. ASSUME NEW i \in 1..Cardinality(S), NEW j \in 1..Cardinality(S), o[i] = o[j], i # j
        PROVE FALSE
    <3>1. i < j \/ j < i
      BY <2>1, <2>3
    <3>2. Earlier(o[i], o[j]) \/ Earlier(o[j], o[i])
      BY <1>8, <3>1
    <3> QED
      BY <1>3, <2>2, <2>3, <3>2
  <2>4. IsInjective(o)
    BY <2>2, <2>3 DEF IsInjective
  <2> QED
    BY <2>2, <2>4, CountIsOnto
<1>10. \A i, j \in 1..Cardinality(S) : i < j => o[i].ts <= o[j].ts
  <2> HIDE DEF R, o
  <2> QED
    BY <1>3, <1>8
<1> QED
  BY <1>8, <1>9, <1>10

-----------------------------------------------------------------------------
(* Initial states *)

LEMMA NoRequestIsRequest == NoRequest \in Request
<1>1. <<>> \in Seq(Int) /\ 0 \in 0..NumCells
  BY CellsAssumption
<1>2. [i \in CellIdx |-> {}] \in [CellIdx -> SUBSET Poll]
  OBVIOUS
<1> QED
  BY <1>1, <1>2 DEF NoRequest, Request, Stages, Forms

LEMMA NoRequestIsIdle == NoRequest.stage = "idle" /\ NoRequest.form = "none"
BY DEF NoRequest

\* Without a request nothing is claimed of one.
LEMMA IdleIsFine ==
  ASSUME req.stage = "idle", req.form = "none"
  PROVE  RequestInv
BY DEF RequestInv, StageInv, RowsInv, AxisInv, PackInv, CellInv, HeadInv, LatestInv, RangeForm

LEMMA InitIInv == Init => IInv
<1> SUFFICES ASSUME Init PROVE IInv
  OBVIOUS
<1>1. Types
  <2>1. IsFiniteSet(db) /\ db \subseteq Poll /\ nextId = Cardinality(db) + 1
    BY FoundAssumption DEF Init
  <2>2. nextId \in Nat
    BY <2>1, FS_CardinalityType
  <2> QED
    BY <2>1, <2>2, NoRequestIsRequest, ReaderBoundsAssumption DEF Init, Types
<1>2. DataInv
  <2>1. /\ IsFiniteSet(db) /\ db \subseteq Poll /\ KeysAreFree(db)
        /\ \A p \in db : p.id <= Cardinality(db)
        /\ \A p, q \in db : p.id = q.id => p = q
    BY FoundAssumption DEF Init
  <2>2. Cardinality(db) \in Nat /\ \A p \in db : p.id \in Nat
    BY <2>1, FS_CardinalityType DEF Poll
  <2>3. buf = {} /\ nextId = Cardinality(db) + 1
    BY DEF Init
  <2>4. \A p \in db : p.id < nextId
    BY <2>1, <2>2, <2>3
  <2> QED
    BY <2>1, <2>3, <2>4, FS_EmptySet DEF DataInv
<1>3. HistoryInv
  BY NoRequestIsIdle DEF Init, HistoryInv, Reading, NoRequest
<1>4. RequestInv
  BY NoRequestIsIdle, IdleIsFine DEF Init
<1> QED
  BY <1>1, <1>2, <1>3, <1>4 DEF IInv

-----------------------------------------------------------------------------
(* The writer *)

\* What a request holds stays true when more was seen and less is lasting.
LEMMA RequestKept ==
  ASSUME RequestInv, UNCHANGED req, seen \subseteq seen', lasting' \subseteq lasting
  PROVE  RequestInv'
<1>1. StageInv'
  BY DEF RequestInv, StageInv, RangeForm
<1>2. RowsInv'
  BY DEF RequestInv, RowsInv, RangeForm, InRange
<1>3. AxisInv'
  BY DEF RequestInv, AxisInv, InRange, Stamped
<1>4. PackInv'
  BY DEF RequestInv, PackInv, RangeForm, Wanted, InRange, Stamped
<1>5. CellInv'
  BY DEF RequestInv, CellInv, Wanted, InRange, Stamped
<1>6. HeadInv'
  BY DEF RequestInv, HeadInv
<1>7. LatestInv'
  BY DEF RequestInv, LatestInv
<1> QED
  BY <1>1, <1>2, <1>3, <1>4, <1>5, <1>6, <1>7 DEF RequestInv

\* A commit of polls with keys of their own.
LEMMA CommitKept ==
  ASSUME IInv, NEW d, DbBecomes(d), d \subseteq db \cup buf, UNCHANGED <<req, nextId>>
  PROVE  /\ db' = d /\ seen' \subseteq Poll /\ lasting' \subseteq seen'
         /\ HistoryInv' /\ RequestInv'
<1>1. db' = d
  BY DEF DbBecomes
<1>2. seen \subseteq seen' /\ lasting' \subseteq lasting
  BY DEF DbBecomes
<1>3. seen' \subseteq Poll /\ lasting' \subseteq seen'
  BY <1>2 DEF DbBecomes, IInv, Types
<1>4. HistoryInv'
  BY DEF DbBecomes, IInv, DataInv, HistoryInv, Reading
<1> QED
  BY <1>1, <1>2, <1>3, <1>4, RequestKept DEF IInv

LEMMA AddPollStep ==
  ASSUME IInv, NEW sh \in Shapes, AddPoll(sh)
  PROVE  IInv'
<1> DEFINE p == [id |-> nextId, ts |-> now', cells |-> sh.cells, temps |-> sh.temps]
<1>1. /\ db' = db /\ stepsBack' = stepsBack /\ req' = req
      /\ seen' = seen /\ lasting' = lasting /\ buf' = buf \cup {p}
  BY DEF AddPoll, history
<1>2. now \in Nat /\ nextId \in Nat /\ nextId <= MaxPolls /\ nextId' = nextId + 1
  BY ReaderBoundsAssumption DEF IInv, Types, AddPoll
<1>3. now' \in Nat
  <2>1. now' \in (now + 1)..MaxNow
    BY DEF AddPoll
  <2> QED
    BY <1>2, <2>1, ReaderBoundsAssumption
<1>4. p \in Poll
  <2>1. sh.cells \in SUBSET CellIdx /\ sh.temps \in SUBSET Probe
    BY CellsAssumption
  <2> QED
    BY <1>2, <1>3, <2>1 DEF Poll
<1>5. Types'
  <2>1. nextId' \in Nat
    BY <1>2, ReaderBoundsAssumption DEF IInv, Types
  <2> QED
    BY <1>1, <1>3, <1>4, <2>1 DEF IInv, Types
<1>6. DataInv'
  <2>1. IsFiniteSet(db') /\ IsFiniteSet(buf')
    BY <1>1, FS_AddElement DEF IInv, DataInv
  <2>2. p.id = nextId
    OBVIOUS
  <2>3. \A q \in db \cup buf : q.id \in Nat /\ q.id < nextId
    BY DEF IInv, DataInv, Types, Poll
  <2> HIDE DEF p
  <2>4. \A q \in db' \cup buf' : q.id < nextId'
    BY <1>1, <1>2, <2>2, <2>3
  <2>5. \A q, r \in db' \cup buf' : q.id = r.id => q = r
    BY <1>1, <1>2, <2>2, <2>3 DEF IInv, DataInv
  <2>6. KeysAreFree(db)'
    BY <1>1 DEF IInv, DataInv, KeysAreFree
  <2> QED
    BY <2>1, <2>4, <2>5, <2>6 DEF DataInv
<1>7. HistoryInv'
  <2>1. \A q \in seen : q.id \in Nat /\ q.id < nextId
    BY DEF IInv, Types, Poll, HistoryInv
  <2>2. \A q \in seen' : q.id < nextId'
    BY <1>1, <1>2, <2>1
  <2> QED
    BY <1>1, <2>2 DEF IInv, HistoryInv, Reading
<1>8. RequestInv'
  BY <1>1, RequestKept DEF IInv
<1> QED
  BY <1>5, <1>6, <1>7, <1>8 DEF IInv

LEMMA FlushStep ==
  ASSUME IInv, FlushCommits
  PROVE  IInv'
<1>1. /\ UNCHANGED <<now, stepsBack, nextId, req>> /\ buf' = {}
      /\ DbBecomes(db \cup buf) /\ KeysAreFree(db \cup buf)
  BY DEF FlushCommits
<1>2. db \cup buf \subseteq Poll
  BY DEF IInv, Types
<1>3. /\ db' = db \cup buf /\ seen' \subseteq Poll /\ lasting' \subseteq seen'
      /\ HistoryInv' /\ RequestInv'
  BY <1>1, CommitKept
<1>4. Types'
  BY <1>1, <1>2, <1>3 DEF IInv, Types
<1>5. DataInv'
  <2>1. IsFiniteSet(db') /\ IsFiniteSet(buf')
    BY <1>1, <1>3, FS_Union, FS_EmptySet DEF IInv, DataInv
  <2>2. KeysAreFree(db)'
    BY <1>1, <1>3 DEF KeysAreFree
  <2> QED
    BY <1>1, <1>3, <2>1, <2>2 DEF IInv, DataInv
<1> QED
  BY <1>3, <1>4, <1>5 DEF IInv

LEMMA PruneStep ==
  ASSUME IInv, PruneCommits
  PROVE  IInv'
<1>1. PICK cutoff \in 1..now : DbBecomes({p \in db : p.ts >= cutoff})
  BY DEF PruneCommits
<1> DEFINE d == {p \in db : p.ts >= cutoff}
<1>2. UNCHANGED <<buf, now, stepsBack, nextId, req>>
  BY DEF PruneCommits
<1>3. d \subseteq db /\ d \subseteq Poll
  BY DEF IInv, Types
<1>4. DbBecomes(d)
  BY <1>1
<1> HIDE DEF d
<1>5. /\ db' = d /\ seen' \subseteq Poll /\ lasting' \subseteq seen'
      /\ HistoryInv' /\ RequestInv'
  BY <1>2, <1>3, <1>4, CommitKept
<1>6. Types'
  BY <1>2, <1>3, <1>5 DEF IInv, Types
<1>7. DataInv'
  <2>1. IsFiniteSet(db') /\ IsFiniteSet(buf')
    BY <1>2, <1>3, <1>5, FS_Subset DEF IInv, DataInv
  <2>2. KeysAreFree(db)'
    BY <1>3, <1>5 DEF IInv, DataInv, KeysAreFree
  <2> QED
    BY <1>2, <1>3, <1>5, <2>1, <2>2 DEF IInv, DataInv
<1> QED
  BY <1>5, <1>6, <1>7 DEF IInv

LEMMA StepBackStep ==
  ASSUME IInv, StepBack
  PROVE  IInv'
<1>1. UNCHANGED <<db, buf, nextId, req, seen, lasting>>
  BY DEF StepBack, history
<1>2. now' \in Nat /\ stepsBack' \in 0..MaxStepsBack
  BY ReaderBoundsAssumption DEF StepBack, IInv, Types
<1>3. Types'
  BY <1>1, <1>2 DEF IInv, Types
<1>4. DataInv'
  BY <1>1 DEF IInv, DataInv, KeysAreFree
<1>5. HistoryInv'
  BY <1>1 DEF IInv, HistoryInv, Reading
<1>6. RequestInv'
  BY <1>1, RequestKept DEF IInv
<1> QED
  BY <1>3, <1>4, <1>5, <1>6 DEF IInv

-----------------------------------------------------------------------------
(* Requests *)

\* A query leaves the data alone.
LEMMA DataKept ==
  ASSUME IInv, UNCHANGED data
  PROVE  DataInv'
BY DEF IInv, DataInv, KeysAreFree, data

\* The first query of a request.
LEMMA BeginStep ==
  ASSUME IInv, NEW r \in Request, Begins(r), r.stage # "idle",
         RequestInv'
  PROVE  IInv'
<1>1. UNCHANGED data /\ req' = r /\ seen' = db /\ lasting' = db
  BY DEF Begins
<1>2. Types'
  BY <1>1 DEF IInv, Types, data
<1>3. HistoryInv'
  BY <1>1 DEF IInv, DataInv, HistoryInv, data
<1> QED
  BY <1>1, <1>2, <1>3, DataKept DEF IInv

\* A later one.
LEMMA ContinueStep ==
  ASSUME IInv, NEW r \in Request, Continues(r), Reading, RequestInv'
  PROVE  IInv'
<1>1. UNCHANGED data /\ req' = r /\ seen' = seen /\ lasting' = lasting
  BY DEF Continues, history
<1>2. Types'
  BY <1>1 DEF IInv, Types, data
<1>3. HistoryInv'
  BY <1>1 DEF IInv, HistoryInv, data
<1> QED
  BY <1>1, <1>2, <1>3, DataKept DEF IInv

LEMMA EndStep ==
  ASSUME IInv, req' = NoRequest, seen' = {}, lasting' = {}, UNCHANGED data
  PROVE  IInv'
<1>1. Types'
  BY NoRequestIsRequest DEF IInv, Types, data
<1>2. req'.stage = "idle" /\ req'.form = "none"
  BY NoRequestIsIdle
<1>3. HistoryInv'
  BY <1>2 DEF HistoryInv, Reading
<1>4. RequestInv'
  BY <1>2 DEF RequestInv, StageInv, RowsInv, AxisInv, PackInv, CellInv, HeadInv, LatestInv, RangeForm
<1> QED
  BY <1>1, <1>3, <1>4, DataKept DEF IInv

LEMMA LatestSampleStep ==
  ASSUME IInv, LatestSample
  PROVE  IInv'
<1>1. PICK head \in {{p} : p \in db} \cup {{}} :
        /\ IF head = {} THEN db = {} ELSE \A p \in head, q \in db : q.ts <= p.ts
        /\ Begins([NoRequest EXCEPT !.stage = IF head = {} THEN "done" ELSE "latestcells",
                                    !.form = "latest", !.head = head])
  BY DEF LatestSample
<1> DEFINE r == [NoRequest EXCEPT !.stage = IF head = {} THEN "done" ELSE "latestcells",
                                  !.form = "latest", !.head = head]
<1>2. /\ r.stage = IF head = {} THEN "done" ELSE "latestcells"
      /\ r.form = "latest" /\ r.head = head
  BY DEF NoRequest
<1>3. r \in Request
  <2>1. head \in SUBSET Poll
    BY DEF IInv, Types
  <2> QED
    BY <2>1, NoRequestIsRequest DEF Request, Stages, Forms
<1>4. Begins(r)
  BY <1>1
<1> HIDE DEF r
<1>5. req' = r /\ seen' = db /\ lasting' = db
  BY <1>4 DEF Begins
<1>6. HeadInv'
  BY <1>1, <1>2, <1>5 DEF HeadInv
<1>7. LatestInv'
  BY <1>2, <1>5 DEF LatestInv
<1>8. StageInv' /\ RowsInv' /\ AxisInv' /\ PackInv' /\ CellInv'
  BY <1>2, <1>5 DEF StageInv, RowsInv, AxisInv, PackInv, CellInv, RangeForm
<1>9. RequestInv'
  BY <1>6, <1>7, <1>8 DEF RequestInv
<1> QED
  BY <1>2, <1>3, <1>4, <1>9, BeginStep

\* The head's time.
LEMMA TimeOfHead ==
  ASSUME NEW p, req.head = {p}
  PROVE  HeadTs = p.ts
BY DEF HeadTs

LEMMA LatestCellsStep ==
  ASSUME IInv, LatestCells
  PROVE  IInv'
<1> DEFINE rows == [i \in CellIdx |-> {p \in db : p.ts = HeadTs /\ i \in p.cells}]
           r == [req EXCEPT !.stage = "latesttemps", !.cellRows = rows]
<1>1. req.stage = "latestcells" /\ Continues(r)
  BY DEF LatestCells
<1>2. req \in Request /\ req.form = "latest" /\ Reading
  BY <1>1 DEF IInv, Types, RequestInv, StageInv, Reading
<1>3. /\ r.stage = "latesttemps" /\ r.form = "latest" /\ r.head = req.head
      /\ r.cellRows = rows
  BY <1>2 DEF Request
<1>4. rows \in [CellIdx -> SUBSET Poll]
  BY DEF IInv, Types
<1>5. r \in Request
  <2> HIDE DEF rows
  <2> QED
    BY <1>2, <1>4 DEF Request, Stages
<1> HIDE DEF r
<1>6. req' = r /\ seen' = seen /\ lasting' = lasting
  BY <1>1 DEF Continues, history
<1>7. PICK p \in seen : req.head = {p}
  BY <1>1, <1>2 DEF IInv, RequestInv, HeadInv
<1>8. HeadInv'
  BY <1>1, <1>2, <1>3, <1>6, <1>7 DEF IInv, RequestInv, HeadInv
<1>9. LatestInv'
  <2>1. lasting \subseteq db /\ db \subseteq seen
    BY <1>2 DEF IInv, HistoryInv
  <2>2. ASSUME NEW c \in CellIdx
        PROVE  /\ \A q \in rows[c] : q \in seen /\ q.ts = p.ts /\ c \in q.cells
               /\ p \in lasting /\ c \in p.cells => p \in rows[c]
    BY <1>7, <2>1, TimeOfHead
  <2> HIDE DEF rows
  <2> QED
    BY <1>3, <1>6, <1>7, <2>2 DEF LatestInv
<1>10. StageInv' /\ RowsInv' /\ AxisInv' /\ PackInv' /\ CellInv'
  BY <1>3, <1>6 DEF StageInv, RowsInv, AxisInv, PackInv, CellInv, RangeForm
<1>11. RequestInv'
  BY <1>8, <1>9, <1>10 DEF RequestInv
<1> QED
  BY <1>1, <1>2, <1>5, <1>11, ContinueStep

LEMMA LatestTempsStep ==
  ASSUME IInv, LatestTemps
  PROVE  IInv'
<1> DEFINE rows == {p \in db : p.ts = HeadTs /\ p.temps # {}}
           r == [req EXCEPT !.stage = "done", !.tempRows = rows]
<1>1. req.stage = "latesttemps" /\ Continues(r)
  BY DEF LatestTemps
<1>2. req \in Request /\ req.form = "latest" /\ Reading
  BY <1>1 DEF IInv, Types, RequestInv, StageInv, Reading
<1>3. /\ r.stage = "done" /\ r.form = "latest" /\ r.head = req.head
      /\ r.cellRows = req.cellRows /\ r.tempRows = rows
  BY <1>2 DEF Request
<1>4. rows \in SUBSET Poll
  BY DEF IInv, Types
<1>5. r \in Request
  <2> HIDE DEF rows
  <2> QED
    BY <1>2, <1>4 DEF Request, Stages
<1> HIDE DEF r
<1>6. req' = r /\ seen' = seen /\ lasting' = lasting
  BY <1>1 DEF Continues, history
<1>7. PICK p \in seen : req.head = {p}
  BY <1>1, <1>2 DEF IInv, RequestInv, HeadInv
<1>8. HeadInv'
  BY <1>1, <1>2, <1>3, <1>6, <1>7 DEF IInv, RequestInv, HeadInv
<1>9. LatestInv'
  <2>1. lasting \subseteq db /\ db \subseteq seen
    BY <1>2 DEF IInv, HistoryInv
  <2>2. /\ \A q \in rows : q \in seen /\ q.ts = p.ts /\ q.temps # {}
        /\ p \in lasting /\ p.temps # {} => p \in rows
    BY <1>7, <2>1, TimeOfHead
  <2>3. \A c \in CellIdx :
          /\ \A q \in req.cellRows[c] : q \in seen /\ q.ts = p.ts /\ c \in q.cells
          /\ p \in lasting /\ c \in p.cells => p \in req.cellRows[c]
    BY <1>1, <1>2, <1>7 DEF IInv, RequestInv, LatestInv
  <2> HIDE DEF rows
  <2> QED
    BY <1>3, <1>6, <1>7, <2>2, <2>3 DEF LatestInv
<1>10. StageInv' /\ RowsInv' /\ AxisInv' /\ PackInv' /\ CellInv'
  BY <1>3, <1>6 DEF StageInv, RowsInv, AxisInv, PackInv, CellInv, RangeForm
<1>11. RequestInv'
  BY <1>8, <1>9, <1>10 DEF RequestInv
<1> QED
  BY <1>1, <1>2, <1>5, <1>11, ContinueStep

LEMMA RangeCountStep ==
  ASSUME IInv, RangeCount
  PROVE  IInv'
<1>1. PICK w \in Windows, raw \in BOOLEAN, pack \in BOOLEAN, cells \in BOOLEAN :
        LET count == Cardinality(InWindow(w.from, w.to))
            form == IF raw \/ count <= RangeRawThreshold THEN "raw" ELSE "buckets"
        IN /\ pack \/ cells
           /\ Begins([NoRequest EXCEPT
                !.stage = IF form = "raw" THEN "axis" ELSE "pack",
                !.form = form, !.from = w.from, !.to = w.to, !.pack = pack, !.cells = cells,
                !.truncated = form = "raw" /\ count > RangeRawCap])
  BY DEF RangeCount
<1> DEFINE count == Cardinality(InWindow(w.from, w.to))
           form == IF raw \/ count <= RangeRawThreshold THEN "raw" ELSE "buckets"
           cut == form = "raw" /\ count > RangeRawCap
<1>2. form \in {"raw", "buckets"} /\ cut \in BOOLEAN
  OBVIOUS
<1>3. w.from \in Int /\ w.to \in Int /\ w.from < w.to
  BY WindowsAssumption
<1> HIDE DEF form, cut
<1> DEFINE r == [NoRequest EXCEPT
                   !.stage = IF form = "raw" THEN "axis" ELSE "pack",
                   !.form = form, !.from = w.from, !.to = w.to, !.pack = pack, !.cells = cells,
                   !.truncated = cut]
<1>4. (pack \/ cells) /\ Begins(r)
  BY <1>1 DEF form, cut
<1>5. /\ r.stage = IF form = "raw" THEN "axis" ELSE "pack"
      /\ r.form = form /\ r.from = w.from /\ r.to = w.to
      /\ r.packRows = {} /\ r.cellRows = [i \in CellIdx |-> {}] /\ r.nextCell = 0
  BY DEF NoRequest
<1>6. r.pack = pack /\ r.cells = cells
  BY DEF NoRequest
<1>7. r \in Request
  BY <1>2, <1>3, NoRequestIsRequest DEF Request, Stages, Forms
<1> HIDE DEF r
<1>8. req' = r /\ seen' = db /\ lasting' = db
  BY <1>4 DEF Begins
<1>9. RowsInv'
  <2>1. \A c \in CellIdx : r.cellRows[c] = {}
    BY <1>5
  <2> QED
    BY <1>5, <1>8, <2>1, FS_EmptySet DEF RowsInv
<1>10. StageInv'
  <2>1. r.pack \/ r.cells
    BY <1>4, <1>6
  <2> QED
    BY <1>2, <1>3, <1>5, <1>8, <2>1 DEF StageInv, RangeForm
<1>11. AxisInv' /\ PackInv' /\ CellInv' /\ HeadInv' /\ LatestInv'
  BY <1>2, <1>5, <1>8 DEF AxisInv, PackInv, CellInv, HeadInv, LatestInv
<1>12. RequestInv'
  BY <1>9, <1>10, <1>11 DEF RequestInv
<1>13. r.stage # "idle"
  BY <1>5
<1> QED
  BY <1>4, <1>7, <1>12, <1>13, BeginStep

\* The axis of rangeRaw, made of the polls of its window in order, or the end of
\* them if the answer is truncated: it ascends, and what it leaves out is older.
LEMMA AxisOfPolls ==
  ASSUME NEW S, IsFiniteSet(S), S \subseteq Poll, \A p, q \in S : p.id = q.id => p = q
  PROVE  LET s == InOrder(S, Earlier)
             kept == IF req.truncated THEN NewestRows(s) ELSE s
             ax == [i \in DOMAIN kept |-> kept[i].ts]
         IN /\ ax \in Seq(Int)
            /\ \A i, j \in DOMAIN ax : i < j => ax[i] <= ax[j]
            /\ \A i \in DOMAIN ax : \E p \in S : ax[i] = p.ts
            /\ \A p \in S : \/ \E i \in DOMAIN ax : ax[i] = p.ts
                            \/ req.truncated /\ \A i \in DOMAIN ax : p.ts < ax[i]
<1> DEFINE n == Cardinality(S)
           s == InOrder(S, Earlier)
           kept == IF req.truncated THEN NewestRows(s) ELSE s
           ax == [i \in DOMAIN kept |-> kept[i].ts]
<1>1. n \in Nat
  BY FS_CardinalityType
<1>2. /\ s \in [1..n -> S]
      /\ \A i, j \in 1..n : i < j => s[i].ts <= s[j].ts
      /\ \A p \in S : \E i \in 1..n : s[i] = p
  BY PollsInOrder
<1> HIDE DEF n, s
<1>3. \E k \in 0..n :
        /\ k > 0 => req.truncated
        /\ ax = [i \in 1..n - k |-> s[i + k].ts]
  <2>1. Len(s) = n /\ DOMAIN s = 1..n
    BY <1>1, <1>2
  <2>2. CASE req.truncated /\ n > RangeRawCap
    <3> DEFINE k == n - RangeRawCap
    <3>1. k \in 0..n /\ n - k = RangeRawCap /\ RangeRawCap \in Nat
      BY <1>1, <2>2, LimitsAssumption
    <3>2. kept = SubSeq(s, n - RangeRawCap + 1, n)
      BY <2>1, <2>2 DEF NewestRows
    <3>3. DOMAIN kept = 1..n - k /\ \A i \in 1..n - k : kept[i] = s[i + k]
      BY <1>1, <1>2, <3>1, <3>2
    <3> HIDE DEF k
    <3>4. [i \in DOMAIN kept |-> kept[i].ts] = [i \in 1..n - k |-> s[i + k].ts]
      BY <3>3
    <3> QED
      BY <2>2, <3>1, <3>4
  <2>3. CASE ~(req.truncated /\ n > RangeRawCap)
    <3>1. kept = s
      BY <2>1, <2>3 DEF NewestRows
    <3> DEFINE k == 0
    <3>2. k \in 0..n /\ ~(k > 0) /\ n - k = n /\ \A i \in 1..n : i + k = i
      BY <1>1
    <3> HIDE DEF k
    <3>3. [i \in DOMAIN kept |-> kept[i].ts] = [i \in 1..n - k |-> s[i + k].ts]
      BY <2>1, <3>1, <3>2
    <3> QED
      BY <3>2, <3>3
  <2> QED
    BY <2>2, <2>3
<1>4. PICK k \in 0..n : /\ k > 0 => req.truncated
                        /\ ax = [i \in 1..n - k |-> s[i + k].ts]
  BY <1>3
<1> HIDE DEF kept, ax
<1>5. \A i \in 1..n - k : i + k \in 1..n
  BY <1>1
<1>6. \A i \in 1..n : s[i] \in S /\ s[i].ts \in Int
  BY <1>2 DEF Poll
<1>7. \A i \in 1..n - k : ax[i] = s[i + k].ts /\ ax[i] \in Int
  BY <1>4, <1>5, <1>6
<1>8. ax \in Seq(Int) /\ DOMAIN ax = 1..n - k
  <2>1. n - k \in Nat
    BY <1>1
  <2>2. ax \in [1..n - k -> Int]
    BY <1>4, <1>7
  <2> DEFINE m == n - k
  <2>3. m \in Nat /\ ax \in [1..m -> Int]
    BY <2>1, <2>2
  <2> HIDE DEF m
  <2>4. ax \in Seq(Int) /\ DOMAIN ax = 1..m
    BY ONLY <2>3
  <2> QED
    BY <2>4 DEF m
<1>9. ASSUME NEW i \in 1..n - k, NEW j \in 1..n - k, i < j PROVE ax[i] <= ax[j]
  <2>1. i + k < j + k
    BY <1>1, <1>9
  <2> QED
    BY <1>2, <1>5, <1>7, <2>1
<1>10. ASSUME NEW p \in S
      PROVE  \/ \E i \in 1..n - k : ax[i] = p.ts
             \/ k > 0 /\ \A i \in 1..n - k : p.ts < ax[i]
  <2>1. PICK j \in 1..n : s[j] = p
    BY <1>2
  <2>2. CASE j > k
    <3>1. j - k \in 1..n - k /\ (j - k) + k = j
      BY <1>1, <2>2
    <3>2. ax[j - k] = p.ts
      BY <1>7, <2>1, <3>1
    <3> QED
      BY <3>1, <3>2
  <2>3. CASE j <= k
    <3>1. ASSUME NEW i \in 1..n - k PROVE p.ts <= ax[i]
      <4>1. j < i + k \/ j = i + k
        BY <1>1, <2>3
      <4> DEFINE h == i + k
      <4>2. h \in 1..n /\ s[h].ts \in Int /\ s[j].ts \in Int
        BY <1>5, <1>6
      <4>3. ax[i] = s[h].ts
        BY <1>7
      <4>4. j < h \/ j = h
        BY <4>1
      <4> HIDE DEF h
      <4>5. s[j].ts <= s[h].ts
        BY <1>2, <4>2, <4>4
      <4> QED
        BY <2>1, <4>3, <4>5
    <3>2. k > 0
      BY <1>1, <2>3
    <3>3. p.ts \in Int
      BY <1>6, <2>1
    <3>4. ASSUME NEW i \in 1..n - k, ax[i] # p.ts PROVE p.ts < ax[i]
      <4>1. ax[i] \in Int /\ p.ts <= ax[i]
        BY <1>7, <3>1
      <4> QED
        BY <3>3, <3>4, <4>1
    <3> QED
      BY <3>2, <3>4
  <2> QED
    BY <2>2, <2>3
<1>11. \A i \in 1..n - k : \E p \in S : ax[i] = p.ts
  BY <1>5, <1>6, <1>7
<1> QED
  BY <1>4, <1>8, <1>9, <1>10, <1>11 DEF kept, ax, s

LEMMA RawAxisStep ==
  ASSUME IInv, RawAxis
  PROVE  IInv'
<1> DEFINE S == InWindow(req.from, req.to)
           rows == InOrder(S, Earlier)
           kept == IF req.truncated THEN NewestRows(rows) ELSE rows
           ax == [i \in DOMAIN kept |-> kept[i].ts]
           r == [req EXCEPT !.stage = "pack", !.axis = ax]
<1>1. req.stage = "axis" /\ Continues(r)
  BY DEF RawAxis
<1>2. req \in Request /\ req.form = "raw" /\ Reading
  BY <1>1 DEF IInv, Types, RequestInv, StageInv, Reading
<1>3. /\ S \subseteq db /\ S \subseteq Poll
      /\ \A p \in db : p \in S <=> InRange(p)
  BY DEF InWindow, InRange, IInv, Types
<1>4. IsFiniteSet(S) /\ \A p, q \in S : p.id = q.id => p = q
  <2> HIDE DEF S
  <2> QED
    BY <1>3, FS_Subset DEF IInv, DataInv
<1>5. /\ ax \in Seq(Int)
      /\ \A i, j \in DOMAIN ax : i < j => ax[i] <= ax[j]
      /\ \A i \in DOMAIN ax : \E p \in S : ax[i] = p.ts
      /\ \A p \in S : \/ \E i \in DOMAIN ax : ax[i] = p.ts
                      \/ req.truncated /\ \A i \in DOMAIN ax : p.ts < ax[i]
  <2> HIDE DEF S
  <2> QED
    BY <1>3, <1>4, AxisOfPolls
<1> HIDE DEF S, rows, kept, ax
<1>6. /\ r.stage = "pack" /\ r.form = "raw" /\ r.axis = ax /\ r.from = req.from /\ r.to = req.to
      /\ r.packRows = req.packRows /\ r.cellRows = req.cellRows
      /\ r.nextCell = req.nextCell
  BY <1>2 DEF Request
<1>7. r.pack = req.pack /\ r.cells = req.cells /\ r.truncated = req.truncated
  BY <1>2 DEF Request
<1>8. r \in Request
  BY <1>2, <1>5 DEF Request, Stages
<1> HIDE DEF r
<1>9. req' = r /\ seen' = seen /\ lasting' = lasting
  BY <1>1 DEF Continues, history
<1>10. StageInv'
  <2>1. req.from < req.to /\ (req.pack \/ req.cells)
    BY <1>2 DEF IInv, RequestInv, StageInv, RangeForm
  <2>2. req.nextCell = 0
    BY <1>1 DEF IInv, RequestInv, StageInv
  <2> QED
    BY <1>6, <1>7, <1>9, <2>1, <2>2 DEF StageInv, RangeForm
<1>11. RowsInv'
  BY <1>2, <1>6, <1>9 DEF IInv, RequestInv, RowsInv, RangeForm, InRange
<1>12. AxisInv'
  <2>1. \A i \in DOMAIN ax : req.from <= ax[i]
    BY <1>3, <1>5 DEF InRange
  <2>2. ASSUME NEW p \in lasting, InRange(p)
        PROVE  \/ \E i \in DOMAIN ax : ax[i] = p.ts
               \/ req.truncated /\ \A i \in DOMAIN ax : p.ts < ax[i]
    <3>1. p \in S
      BY <1>2, <1>3, <2>2 DEF IInv, HistoryInv
    <3> QED
      BY <1>5, <3>1
  <2> QED
    BY <1>5, <1>6, <1>7, <1>9, <2>1, <2>2 DEF AxisInv, InRange, Stamped
<1>13. PackInv' /\ CellInv' /\ HeadInv' /\ LatestInv'
  BY <1>6, <1>9 DEF PackInv, CellInv, HeadInv, LatestInv
<1>14. RequestInv'
  BY <1>10, <1>11, <1>12, <1>13 DEF RequestInv
<1> QED
  BY <1>1, <1>2, <1>8, <1>14, ContinueStep

\* A query of a series reads rows of the window, and every row that it has to.
LEMMA RowsRead ==
  ASSUME IInv, req.stage \in {"pack", "cells"}
  PROVE  /\ IsFiniteSet(RowsToRead)
         /\ RowsToRead \subseteq db
         /\ \A p \in RowsToRead : p \in seen /\ InRange(p)
         /\ \A p \in lasting : Wanted(p) => p \in RowsToRead
<1>1. RangeForm /\ Reading
  BY DEF IInv, RequestInv, StageInv, Reading
<1>2. lasting \subseteq db /\ db \subseteq seen
  BY <1>1 DEF IInv, HistoryInv
<1>3. RowsToRead \subseteq db
  BY DEF RowsToRead, OnAxis, InWindow
<1>4. IsFiniteSet(RowsToRead)
  BY <1>3, FS_Subset DEF IInv, DataInv
<1>5. CASE req.form = "raw"
  <2>1. /\ \A i, j \in DOMAIN req.axis : i < j => req.axis[i] <= req.axis[j]
        /\ \A i \in DOMAIN req.axis : req.from <= req.axis[i]
    BY <1>5 DEF IInv, RequestInv, AxisInv
  <2>2. req.axis \in Seq(Int)
    BY DEF IInv, Types, Request
  <2>3. RowsToRead = OnAxis
    BY <1>5 DEF RowsToRead
  <2>4. \A p \in OnAxis : InRange(p)
    BY <2>1 DEF OnAxis, InRange
  <2>5. ASSUME NEW p \in lasting, Wanted(p) PROVE p \in OnAxis
    <3>1. p.ts <= req.to
      BY <2>5 DEF Wanted, InRange
    <3>2. PICK i \in DOMAIN req.axis : req.axis[i] = p.ts
      BY <1>5, <2>5 DEF Wanted, Stamped
    <3>3. req.axis # <<>> /\ 1 \in DOMAIN req.axis /\ (1 < i \/ 1 = i)
      BY <2>2, <3>2
    <3>4. req.axis[1] <= req.axis[i]
      <4>1. req.axis[1] \in Int
        BY <2>2, <3>3
      <4> QED
        BY <2>1, <3>3, <4>1
    <3> QED
      BY <1>2, <3>1, <3>2, <3>3, <3>4 DEF OnAxis
  <2> QED
    BY <1>2, <1>3, <1>4, <2>3, <2>4, <2>5
<1>6. CASE req.form = "buckets"
  <2>1. RowsToRead = {p \in db : InRange(p)}
    BY <1>6 DEF RowsToRead, InWindow, InRange
  <2> QED
    BY <1>2, <1>3, <1>4, <2>1 DEF Wanted
<1> QED
  BY <1>1, <1>5, <1>6 DEF RangeForm

\* No cell has two rows at one time, for the rows of one query have free keys.
LEMMA CellRowsRead ==
  ASSUME IInv, req.stage = "cells", NEW c \in CellIdx
  PROVE  /\ IsFiniteSet(CellRowsAt(c))
         /\ CellRowsAt(c) \in SUBSET Poll
         /\ \A p \in CellRowsAt(c) : p \in seen /\ InRange(p) /\ c \in p.cells
         /\ \A p, q \in CellRowsAt(c) : p.ts = q.ts => p = q
         /\ \A p \in lasting : Wanted(p) /\ c \in p.cells => p \in CellRowsAt(c)
<1>1. /\ IsFiniteSet(RowsToRead)
      /\ RowsToRead \subseteq db
      /\ \A p \in RowsToRead : p \in seen /\ InRange(p)
      /\ \A p \in lasting : Wanted(p) => p \in RowsToRead
  BY RowsRead
<1>2. CellRowsAt(c) \in SUBSET RowsToRead /\ \A p \in CellRowsAt(c) : c \in p.cells
  BY DEF CellRowsAt
<1>3. IsFiniteSet(CellRowsAt(c))
  BY <1>1, <1>2, FS_Subset
<1>4. CellRowsAt(c) \in SUBSET Poll
  BY <1>1, <1>2 DEF IInv, Types
<1>5. \A p, q \in CellRowsAt(c) : p.ts = q.ts => p = q
  BY <1>1, <1>2 DEF IInv, DataInv, KeysAreFree
<1> QED
  BY <1>1, <1>2, <1>3, <1>4, <1>5 DEF CellRowsAt

LEMMA PackRowsStep ==
  ASSUME IInv, PackRows
  PROVE  IInv'
<1> DEFINE rows == IF req.pack THEN RowsToRead ELSE {}
           r == [req EXCEPT !.stage = "cells", !.packRows = rows]
<1>1. req.stage = "pack" /\ Continues(r)
  BY DEF PackRows
<1>2. req \in Request /\ RangeForm /\ Reading
  BY <1>1 DEF IInv, Types, RequestInv, StageInv, Reading
<1>3. /\ IsFiniteSet(rows) /\ rows \in SUBSET Poll
      /\ \A p \in rows : p \in seen /\ InRange(p)
      /\ req.pack => \A p \in lasting : Wanted(p) => p \in rows
  BY <1>1, RowsRead, FS_EmptySet DEF IInv, Types
<1> HIDE DEF rows
<1>4. /\ r.stage = "cells" /\ r.form = req.form /\ r.axis = req.axis
      /\ r.from = req.from /\ r.to = req.to /\ r.packRows = rows /\ r.cellRows = req.cellRows
      /\ r.nextCell = req.nextCell
  BY <1>2 DEF Request
<1>5. r.pack = req.pack /\ r.cells = req.cells /\ r.truncated = req.truncated
  BY <1>2 DEF Request
<1>6. r \in Request
  BY <1>2, <1>3 DEF Request, Stages
<1> HIDE DEF r
<1>7. req' = r /\ seen' = seen /\ lasting' = lasting
  BY <1>1 DEF Continues, history
<1>8. StageInv'
  <2>1. req.from < req.to /\ (req.pack \/ req.cells)
    BY <1>2 DEF IInv, RequestInv, StageInv
  <2> QED
    BY <1>2, <1>4, <1>5, <1>7, <2>1 DEF StageInv, RangeForm
<1>9. RowsInv'
  BY <1>2, <1>3, <1>4, <1>7 DEF IInv, RequestInv, RowsInv, RangeForm, InRange
<1>10. AxisInv'
  BY <1>1, <1>4, <1>5, <1>7 DEF IInv, RequestInv, AxisInv, InRange, Stamped
<1>11. PackInv'
  BY <1>3, <1>4, <1>5, <1>7 DEF PackInv, Wanted, InRange, Stamped
<1>12. CellInv'
  <2>1. req.nextCell = 0
    BY <1>1 DEF IInv, RequestInv, StageInv
  <2> QED
    BY <1>4, <1>7, <2>1 DEF CellInv, CellIdx
<1>13. HeadInv' /\ LatestInv'
  BY <1>2, <1>4, <1>7 DEF HeadInv, LatestInv, RangeForm
<1>14. RequestInv'
  BY <1>8, <1>9, <1>10, <1>11, <1>12, <1>13 DEF RequestInv
<1> QED
  BY <1>1, <1>2, <1>6, <1>14, ContinueStep

LEMMA RawCellsStep ==
  ASSUME IInv, RawCells
  PROVE  IInv'
<1> DEFINE rows == [i \in CellIdx |-> IF req.cells THEN CellRowsAt(i) ELSE {}]
           r == [req EXCEPT !.stage = "done", !.cellRows = rows]
<1>1. req.stage = "cells" /\ req.form = "raw" /\ Continues(r)
  BY DEF RawCells
<1>2. req \in Request /\ RangeForm /\ Reading
  BY <1>1 DEF IInv, Types, RequestInv, StageInv, Reading
<1>3. ASSUME NEW c \in CellIdx
      PROVE  /\ IsFiniteSet(rows[c]) /\ rows[c] \in SUBSET Poll
             /\ \A p \in rows[c] : p \in seen /\ InRange(p) /\ c \in p.cells
             /\ \A p, q \in rows[c] : p.ts = q.ts => p = q
             /\ req.cells => \A p \in lasting : Wanted(p) /\ c \in p.cells => p \in rows[c]
  <2>1. CASE req.cells
    <3>1. rows[c] = CellRowsAt(c)
      BY <2>1
    <3> HIDE DEF rows
    <3> QED
      BY <1>1, <3>1, CellRowsRead
  <2>2. CASE ~ req.cells
    <3>1. rows[c] = {}
      BY <2>2
    <3> HIDE DEF rows
    <3> QED
      BY <2>2, <3>1, FS_EmptySet
  <2> QED
    BY <2>1, <2>2
<1>4. rows \in [CellIdx -> SUBSET Poll]
  <2>1. rows = [i \in CellIdx |-> rows[i]]
    OBVIOUS
  <2> HIDE DEF rows
  <2> QED
    BY <1>3, <2>1
<1> HIDE DEF rows
<1>5. /\ r.stage = "done" /\ r.form = req.form /\ r.axis = req.axis
      /\ r.from = req.from /\ r.to = req.to /\ r.packRows = req.packRows /\ r.cellRows = rows
  BY <1>2 DEF Request
<1>6. r.pack = req.pack /\ r.cells = req.cells /\ r.truncated = req.truncated
  BY <1>2 DEF Request
<1>7. r \in Request
  BY <1>2, <1>4 DEF Request, Stages
<1> HIDE DEF r
<1>8. req' = r /\ seen' = seen /\ lasting' = lasting
  BY <1>1 DEF Continues, history
<1>9. StageInv'
  <2>1. req.from < req.to /\ (req.pack \/ req.cells)
    BY <1>2 DEF IInv, RequestInv, StageInv
  <2> QED
    BY <1>2, <1>5, <1>6, <1>8, <2>1 DEF StageInv, RangeForm
<1>10. RowsInv'
  <2>1. IsFiniteSet(req.packRows) /\ \A p \in req.packRows : p \in seen /\ InRange(p)
    BY <1>2 DEF IInv, RequestInv, RowsInv
  <2> QED
    BY <1>3, <1>5, <1>8, <2>1 DEF RowsInv, InRange
<1>11. AxisInv'
  BY <1>1, <1>5, <1>6, <1>8 DEF IInv, RequestInv, AxisInv, InRange, Stamped
<1>12. PackInv'
  BY <1>1, <1>2, <1>5, <1>6, <1>8 DEF IInv, RequestInv, PackInv, Wanted, InRange, Stamped
<1>13. CellInv'
  BY <1>1, <1>3, <1>5, <1>6, <1>8 DEF CellInv, Wanted, InRange, Stamped
<1>14. HeadInv' /\ LatestInv'
  BY <1>1, <1>5, <1>8 DEF HeadInv, LatestInv
<1>15. RequestInv'
  BY <1>9, <1>10, <1>11, <1>12, <1>13, <1>14 DEF RequestInv
<1> QED
  BY <1>1, <1>2, <1>7, <1>15, ContinueStep

LEMMA BucketCellStep ==
  ASSUME IInv, BucketCell
  PROVE  IInv'
<1> DEFINE n == req.nextCell
           rows == [req.cellRows EXCEPT ![n] = CellRowsAt(n)]
           r == [req EXCEPT !.cellRows = rows, !.nextCell = n + 1]
<1>1. /\ req.stage = "cells" /\ req.form = "buckets" /\ req.cells /\ n < NumCells
      /\ Continues([req EXCEPT !.cellRows[n] = CellRowsAt(n), !.nextCell = @ + 1])
  BY DEF BucketCell
<1>2. req \in Request /\ RangeForm /\ Reading
  BY <1>1 DEF IInv, Types, RequestInv, StageInv, Reading
<1>3. n \in CellIdx /\ n + 1 \in 0..NumCells /\ NumCells \in Nat /\ n \in Nat
  BY <1>1, <1>2, CellsAssumption DEF Request, CellIdx
<1>4. Continues(r)
  <2>1. r = [req EXCEPT !.cellRows[n] = CellRowsAt(n), !.nextCell = @ + 1]
    BY <1>2 DEF Request
  <2> QED
    BY <1>1, <2>1
<1>5. /\ IsFiniteSet(CellRowsAt(n)) /\ CellRowsAt(n) \in SUBSET Poll
      /\ \A p \in CellRowsAt(n) : p \in seen /\ InRange(p) /\ n \in p.cells
      /\ \A p, q \in CellRowsAt(n) : p.ts = q.ts => p = q
      /\ \A p \in lasting : Wanted(p) /\ n \in p.cells => p \in CellRowsAt(n)
  BY <1>1, <1>3, CellRowsRead
<1>6. /\ rows[n] = CellRowsAt(n)
      /\ \A c \in CellIdx : c # n => rows[c] = req.cellRows[c]
      /\ rows \in [CellIdx -> SUBSET Poll]
  BY <1>2, <1>3, <1>5 DEF Request
<1> HIDE DEF n, rows
<1>7. /\ r.stage = "cells" /\ r.form = "buckets" /\ r.axis = req.axis
      /\ r.from = req.from /\ r.to = req.to /\ r.packRows = req.packRows /\ r.cellRows = rows
      /\ r.nextCell = n + 1
  BY <1>1, <1>2 DEF Request
<1>8. r.pack = req.pack /\ r.cells = req.cells /\ r.truncated = req.truncated
  BY <1>2 DEF Request
<1>9. r \in Request
  BY <1>2, <1>3, <1>6 DEF Request, Stages
<1> HIDE DEF r
<1>10. req' = r /\ seen' = seen /\ lasting' = lasting
  BY <1>4 DEF Continues, history
<1>11. StageInv'
  <2>1. req.from < req.to /\ (req.pack \/ req.cells)
    BY <1>2 DEF IInv, RequestInv, StageInv
  <2> QED
    BY <1>2, <1>7, <1>8, <1>10, <2>1 DEF StageInv, RangeForm
<1>12. RowsInv'
  <2>1. IsFiniteSet(req.packRows) /\ \A p \in req.packRows : p \in seen /\ InRange(p)
    BY <1>2 DEF IInv, RequestInv, RowsInv
  <2>2. ASSUME NEW c \in CellIdx
        PROVE  /\ IsFiniteSet(rows[c])
               /\ \A p \in rows[c] : p \in seen /\ InRange(p) /\ c \in p.cells
               /\ \A p, q \in rows[c] : p.ts = q.ts => p = q
    <3>1. CASE c = n
      BY <1>5, <1>6, <3>1
    <3>2. CASE c # n
      BY <1>2, <1>6, <3>2 DEF IInv, RequestInv, RowsInv
    <3> QED
      BY <3>1, <3>2
  <2> QED
    BY <1>7, <1>10, <2>1, <2>2 DEF RowsInv, InRange
<1>13. PackInv'
  BY <1>1, <1>2, <1>7, <1>8, <1>10 DEF IInv, RequestInv, PackInv, Wanted, InRange, Stamped
<1>14. CellInv'
  <2>1. ASSUME NEW c \in CellIdx, c < n + 1, NEW p \in lasting, Wanted(p), c \in p.cells
        PROVE  p \in rows[c]
    <3>1. CASE c = n
      BY <1>5, <1>6, <2>1, <3>1
    <3>2. CASE c # n
      <4>1. c < n
        BY <1>3, <2>1, <3>2 DEF CellIdx
      <4> QED
        BY <1>1, <1>6, <2>1, <3>2, <4>1 DEF IInv, RequestInv, CellInv, n
    <3> QED
      BY <3>1, <3>2
  <2>2. \A p \in lasting : Wanted(p)' <=> Wanted(p)
    BY <1>1, <1>7, <1>10 DEF Wanted, InRange, Stamped
  <2>3. req'.form # "raw" /\ req'.stage # "done" /\ req'.nextCell = n + 1 /\ req'.cellRows = rows
    BY <1>7, <1>10
  <2>4. ASSUME NEW c \in CellIdx, c < req'.nextCell, NEW p \in lasting', Wanted(p)', c \in p.cells
        PROVE  p \in req'.cellRows[c]
    BY <1>10, <2>1, <2>2, <2>3, <2>4
  <2> QED
    BY <2>3, <2>4 DEF CellInv
<1>15. AxisInv' /\ HeadInv' /\ LatestInv'
  BY <1>7, <1>10 DEF AxisInv, HeadInv, LatestInv
<1>16. RequestInv'
  BY <1>11, <1>12, <1>13, <1>14, <1>15 DEF RequestInv
<1> QED
  BY <1>2, <1>4, <1>9, <1>16, ContinueStep

LEMMA BucketCellsDoneStep ==
  ASSUME IInv, BucketCellsDone
  PROVE  IInv'
<1> DEFINE r == [req EXCEPT !.stage = "done"]
<1>1. /\ req.stage = "cells" /\ req.form = "buckets" /\ Continues(r)
      /\ req.cells => req.nextCell = NumCells
  BY DEF BucketCellsDone
<1>2. req \in Request /\ RangeForm /\ Reading
  BY <1>1 DEF IInv, Types, RequestInv, StageInv, Reading
<1>3. /\ r.stage = "done" /\ r.form = "buckets" /\ r.axis = req.axis
      /\ r.from = req.from /\ r.to = req.to /\ r.packRows = req.packRows
      /\ r.cellRows = req.cellRows /\ r.nextCell = req.nextCell
  BY <1>1, <1>2 DEF Request
<1>4. r.pack = req.pack /\ r.cells = req.cells
  BY <1>2 DEF Request
<1>5. r \in Request
  BY <1>2 DEF Request, Stages
<1> HIDE DEF r
<1>6. req' = r /\ seen' = seen /\ lasting' = lasting
  BY <1>1 DEF Continues, history
<1>7. StageInv'
  <2>1. req.from < req.to /\ (req.pack \/ req.cells)
    BY <1>2 DEF IInv, RequestInv, StageInv
  <2> QED
    BY <1>2, <1>3, <1>4, <1>6, <2>1 DEF StageInv, RangeForm
<1>8. RowsInv'
  BY <1>2, <1>3, <1>6 DEF IInv, RequestInv, RowsInv, RangeForm, InRange
<1>9. PackInv'
  BY <1>1, <1>2, <1>3, <1>4, <1>6 DEF IInv, RequestInv, PackInv, Wanted, InRange, Stamped
<1>10. CellInv'
  BY <1>1, <1>3, <1>4, <1>6 DEF IInv, RequestInv, CellInv, Wanted, InRange, Stamped
<1>11. AxisInv' /\ HeadInv' /\ LatestInv'
  BY <1>3, <1>6 DEF AxisInv, HeadInv, LatestInv
<1>12. RequestInv'
  BY <1>7, <1>8, <1>9, <1>10, <1>11 DEF RequestInv
<1> QED
  BY <1>1, <1>2, <1>5, <1>12, ContinueStep

-----------------------------------------------------------------------------
(* The invariant *)

LEMMA InvStep == IInv /\ [Next]_vars => IInv'
<1> SUFFICES ASSUME IInv, [Next]_vars PROVE IInv'
  OBVIOUS
<1>1. CASE UNCHANGED vars
  <2>1. UNCHANGED <<db, buf, now, stepsBack, nextId, req, seen, lasting>>
    BY <1>1 DEF vars, data, history
  <2>2. Types' /\ DataInv' /\ HistoryInv'
    BY <2>1 DEF IInv, Types, DataInv, KeysAreFree, HistoryInv, Reading
  <2>3. RequestInv'
    BY <2>1, RequestKept DEF IInv
  <2> QED
    BY <2>2, <2>3 DEF IInv
<1>2. CASE \E sh \in Shapes : AddPoll(sh)
  BY <1>2, AddPollStep
<1>3. CASE FlushCommits \/ PruneCommits \/ StepBack
  BY <1>3, FlushStep, PruneStep, StepBackStep
<1>4. CASE LatestSample \/ LatestCells \/ LatestTemps
  BY <1>4, LatestSampleStep, LatestCellsStep, LatestTempsStep
<1>5. CASE RangeCount \/ RawAxis \/ PackRows
  BY <1>5, RangeCountStep, RawAxisStep, PackRowsStep
<1>6. CASE RawCells \/ BucketCell \/ BucketCellsDone
  BY <1>6, RawCellsStep, BucketCellStep, BucketCellsDoneStep
<1>7. CASE QueryFails \/ Respond
  BY <1>7, EndStep DEF QueryFails, Respond
<1> QED
  BY <1>1, <1>2, <1>3, <1>4, <1>5, <1>6, <1>7 DEF Next

\* In every reachable state a request holds what its queries had to read.
THEOREM Inductive == Spec => []IInv
BY InitIInv, InvStep, PTL DEF Spec

\* The type invariant.
THEOREM TypeCorrect == Spec => []TypeOK
<1>1. IInv => TypeOK
  BY DEF IInv, Types, TypeOK, Request, Stages, Forms
<1> QED
  BY <1>1, Inductive, PTL

-----------------------------------------------------------------------------
(* Latest *)

\* /api/latest shows one poll, the newest of those that were there all along.
THEOREM LatestShowsOnePoll == Spec => []LatestIsOnePoll
<1>1. ASSUME IInv, req.stage = "done", req.form = "latest" PROVE LatestIsOnePoll
  <2>1. /\ \A p \in req.head, q \in lasting : q.ts <= p.ts
        /\ req.head = {} => lasting = {}
    BY <1>1 DEF IInv, RequestInv, HeadInv
  <2>2. ASSUME NEW p \in req.head, p \in lasting, Alone(p)
        PROVE  /\ \A c \in CellIdx : req.cellRows[c] = IF c \in p.cells THEN {p} ELSE {}
               /\ req.tempRows = IF p.temps # {} THEN {p} ELSE {}
    <3>1. \A c \in CellIdx :
            /\ \A q \in req.cellRows[c] : q \in seen /\ q.ts = p.ts /\ c \in q.cells
            /\ c \in p.cells => p \in req.cellRows[c]
      BY <1>1, <2>2 DEF IInv, RequestInv, LatestInv
    <3>2. /\ \A q \in req.tempRows : q \in seen /\ q.ts = p.ts /\ q.temps # {}
          /\ p.temps # {} => p \in req.tempRows
      BY <1>1, <2>2 DEF IInv, RequestInv, LatestInv
    <3>3. \A q \in seen : q.ts = p.ts => q = p
      BY <2>2 DEF Alone
    <3>4. ASSUME NEW c \in CellIdx
          PROVE  req.cellRows[c] = IF c \in p.cells THEN {p} ELSE {}
      <4>1. \A q \in req.cellRows[c] : q = p /\ c \in p.cells
        BY <3>1, <3>3
      <4>2. CASE c \in p.cells
        <5>1. req.cellRows[c] = {p}
          BY <3>1, <4>1, <4>2
        <5> QED
          BY <4>2, <5>1
      <4>3. CASE c \notin p.cells
        BY <4>1, <4>3
      <4> QED
        BY <4>2, <4>3
    <3>5. req.tempRows = IF p.temps # {} THEN {p} ELSE {}
      <4>1. \A q \in req.tempRows : q = p /\ p.temps # {}
        BY <3>2, <3>3
      <4>2. CASE p.temps # {}
        <5>1. req.tempRows = {p}
          BY <3>2, <4>1, <4>2
        <5> QED
          BY <4>2, <5>1
      <4>3. CASE p.temps = {}
        BY <4>1, <4>3
      <4> QED
        BY <4>2, <4>3
    <3> QED
      BY <3>4, <3>5
  <2> QED
    BY <2>1, <2>2 DEF LatestIsOnePoll
<1>2. IInv => LatestIsOnePoll
  BY <1>1 DEF LatestIsOnePoll
<1> QED
  BY <1>2, Inductive, PTL

-----------------------------------------------------------------------------
(* Buckets *)

\* Multiplying keeps an order.
LEMMA ProductsAscend ==
  \A a, b, m \in Nat : a <= b => a * m <= b * m
OBVIOUS

\* A quotient and what remains.
LEMMA Quotient ==
  ASSUME NEW t \in Nat, NEW m \in Nat, m > 0
  PROVE  t \div m \in Nat /\ (t \div m) * m <= t /\ t < (t \div m) * m + m
OBVIOUS

\* A bucket's width, the buckets of a window, and the times of one bucket.
LEMMA BucketArithmetic ==
  ASSUME NEW span \in Nat, span > 0, NEW t \in 0..span, NEW target \in Nat, target > 0,
         NEW ms, ms = IF span \div target < 1 THEN 1 ELSE span \div target,
         NEW k, k = t \div ms
  PROVE  /\ ms \in Nat /\ ms > 0 /\ k \in Nat
         /\ k * ms <= t /\ t < k * ms + ms
         /\ k <= 2 * target - 1
<1> DEFINE q == span \div target
<1>1. q \in Nat /\ q * target <= span /\ span < q * target + target
  BY Quotient
<1>2. ms \in Nat /\ ms > 0 /\ (ms = q \/ (ms = 1 /\ q = 0))
  <2>1. ms = IF q < 1 THEN 1 ELSE q
    OBVIOUS
  <2> HIDE DEF q
  <2> QED
    BY <1>1, <2>1
<1> HIDE DEF q
<1>3. k \in Nat /\ k * ms <= t /\ t < k * ms + ms
  <2>1. t \in Nat
    OBVIOUS
  <2> QED
    BY ONLY <1>2, <2>1, k = t \div ms, Quotient
<1>4. k <= 2 * target - 1
  <2> SUFFICES ASSUME 2 * target <= k PROVE FALSE
    BY <1>3
  <2>1. (2 * target) * ms <= k * ms
    <3>1. 2 * target \in Nat
      OBVIOUS
    <3> QED
      BY <1>2, <1>3, <3>1, ProductsAscend
  <2>2. (2 * target) * ms = target * ms + target * ms
    BY <1>2
  <2> DEFINE y == target * ms
  <2>3. y \in Nat /\ k * ms \in Nat
    BY <1>2, <1>3
  <2>4. y >= target
    <3>1. 1 * target <= ms * target
      BY <1>2, ProductsAscend
    <3>2. ms * target = target * ms /\ 1 * target = target
      BY <1>2
    <3> QED
      BY <3>1, <3>2
  <2>5. CASE ms = q
    <3>1. span < y + target
      <4>1. q * target = y
        BY <1>1, <2>5
      <4> QED
        BY <1>1, <4>1
    <3>2. y + y <= k * ms
      BY <2>1, <2>2
    <3> HIDE DEF y
    <3> QED
      BY <1>3, <2>3, <2>4, <3>1, <3>2
  <2>6. CASE ms = 1 /\ q = 0
    <3>1. span < target
      BY <1>1, <2>6
    <3>2. k * ms = k
      BY <1>3, <2>6
    <3> QED
      BY <1>3, <3>1, <3>2
  <2> QED
    BY <1>2, <2>5, <2>6
<1> QED
  BY <1>2, <1>3, <1>4

\* In a wide window the buckets are wide, so that no more than one of them begins
\* in what the division leaves over.
LEMMA WideBuckets ==
  \A span, target, q, k, square \in Nat :
    /\ target > 0
    /\ span < q * target + target
    /\ square = target * target
    /\ square <= span
    /\ k * q <= span
    => k <= target
<1> SUFFICES ASSUME NEW span \in Nat, NEW target \in Nat, NEW q \in Nat, NEW k \in Nat,
                    target > 0, span < q * target + target, target * target <= span,
                    k * q <= span, target + 1 <= k
             PROVE  FALSE
  OBVIOUS
<1>1. target <= q
  <2> SUFFICES ASSUME q + 1 <= target PROVE FALSE
    OBVIOUS
  <2>1. (q + 1) * target <= target * target
    BY ProductsAscend
  <2>2. (q + 1) * target = q * target + target
    OBVIOUS
  <2> QED
    BY <2>1, <2>2
<1>2. (target + 1) * q <= k * q
  BY ProductsAscend
<1>3. (target + 1) * q = q * target + q
  OBVIOUS
<1> QED
  BY <1>1, <1>2, <1>3

\* Every row of a downsampled answer lies in the bucket that it is counted to.
LEMMA RowsInBuckets ==
  ASSUME IInv, RangeDone, req.form = "buckets"
  PROVE  /\ BucketMS \in Nat /\ BucketMS > 0
         /\ \A p \in AllRows :
              /\ p \in seen /\ InRange(p) /\ p.ts \in Int
              /\ BucketOf(p.ts) \in Nat /\ BucketOf(p.ts) <= MostPoints - 1
              /\ BucketOf(p.ts) * BucketMS <= p.ts - req.from
              /\ p.ts - req.from < BucketOf(p.ts) * BucketMS + BucketMS
<1> DEFINE span == req.to - req.from
<1>1. req \in Request /\ RangeForm
  BY DEF IInv, Types, RangeForm
<1>2. req.from \in Int /\ req.to \in Int /\ req.from < req.to
  BY <1>1 DEF Request, IInv, RequestInv, StageInv
<1>3. span \in Nat /\ span > 0
  BY <1>2
<1>4. BucketMS = IF span \div RangeBuckets < 1 THEN 1 ELSE span \div RangeBuckets
  BY DEF BucketMS
<1>5. RangeBuckets \in Nat /\ RangeBuckets > 0
  BY LimitsAssumption
<1>6. ASSUME NEW p \in AllRows
      PROVE  p \in seen /\ InRange(p) /\ p.ts \in Int /\ p.ts - req.from \in 0..span
  <2>1. p \in seen /\ InRange(p)
    BY <1>1 DEF AllRows, IInv, RequestInv, RowsInv
  <2>2. p.ts \in Int
    BY <2>1 DEF IInv, Types, Poll
  <2> QED
    BY <1>2, <2>1, <2>2 DEF InRange
<1> HIDE DEF span
<1>7. ASSUME NEW t \in 0..span
      PROVE  /\ BucketMS \in Nat /\ BucketMS > 0 /\ t \div BucketMS \in Nat
             /\ (t \div BucketMS) * BucketMS <= t
             /\ t < (t \div BucketMS) * BucketMS + BucketMS
             /\ t \div BucketMS <= 2 * RangeBuckets - 1
  BY <1>3, <1>4, <1>5, BucketArithmetic
<1>8. ASSUME NEW t \in 0..span, span >= RangeBuckets * RangeBuckets
       PROVE  t \div BucketMS <= RangeBuckets
  <2> DEFINE k == t \div BucketMS
             q == span \div RangeBuckets
             square == RangeBuckets * RangeBuckets
  <2>1. q \in Nat /\ span < q * RangeBuckets + RangeBuckets
    BY <1>3, <1>5, Quotient
  <2>2. BucketMS = IF q < 1 THEN 1 ELSE q
    BY <1>4
  <2>3. k \in Nat /\ k * BucketMS <= t /\ square \in Nat /\ square <= span
    BY <1>5, <1>7, <1>8
  <2> HIDE DEF k, q, square
  <2>4. k * q <= span
    <3>1. CASE q < 1
      <4>1. q = 0 /\ k * q = 0
        BY <2>1, <2>3, <3>1
      <4> QED
        BY <1>3, <4>1
    <3>2. CASE ~(q < 1)
      BY <1>3, <2>2, <2>3, <3>2
    <3> QED
      BY <3>1, <3>2
  <2>5. k <= RangeBuckets
    BY <1>3, <1>5, <2>1, <2>3, <2>4, WideBuckets DEF square
  <2> QED
    BY <2>5 DEF k
<1>9. BucketMS \in Nat /\ BucketMS > 0
  BY <1>3, <1>7
<1>10. ASSUME NEW p \in AllRows
      PROVE  /\ BucketOf(p.ts) \in Nat /\ BucketOf(p.ts) <= MostPoints - 1
             /\ BucketOf(p.ts) * BucketMS <= p.ts - req.from
             /\ p.ts - req.from < BucketOf(p.ts) * BucketMS + BucketMS
  <2>1. MostPoints = IF span >= RangeBuckets * RangeBuckets THEN RangeBuckets + 1
                     ELSE 2 * RangeBuckets
    BY DEF MostPoints, span
  <2>2. p.ts - req.from \in 0..span /\ BucketOf(p.ts) = (p.ts - req.from) \div BucketMS
    BY <1>6 DEF BucketOf
  <2> DEFINE k == BucketOf(p.ts)
  <2>3. /\ k \in Nat /\ k <= 2 * RangeBuckets - 1
        /\ span >= RangeBuckets * RangeBuckets => k <= RangeBuckets
        /\ k * BucketMS <= p.ts - req.from
        /\ p.ts - req.from < k * BucketMS + BucketMS
    BY <1>7, <1>8, <2>2
  <2> HIDE DEF k
  <2>4. k <= MostPoints - 1
    BY <1>5, <2>1, <2>3
  <2> QED
    BY <2>3, <2>4 DEF k
<1> QED
  BY <1>6, <1>9, <1>10

\* The buckets of an answer: each once, ascending, and few.
LEMMA BucketsInOrder ==
  ASSUME IInv, RangeDone, req.form = "buckets"
  PROVE  \E n \in Nat :
           /\ n <= MostPoints
           /\ Len(Buckets) = n /\ DOMAIN Buckets = 1..n
           /\ \A i \in 1..n : Buckets[i] \in Nat
           /\ \A i, j \in 1..n : i < j => Buckets[i] < Buckets[j]
           /\ \A p \in AllRows : \E i \in 1..n : Buckets[i] = BucketOf(p.ts)
<1> DEFINE B == {BucketOf(p.ts) : p \in AllRows}
           n == Cardinality(B)
           all == 0..MostPoints - 1
<1>1. MostPoints \in Nat /\ MostPoints > 0 /\ MostPoints - 1 \in Int
  BY LimitsAssumption DEF MostPoints
<1>2. B \in SUBSET all /\ \A k \in B : k \in Nat
  BY <1>1, RowsInBuckets
<1>3. IsFiniteSet(all) /\ Cardinality(all) = MostPoints
  <2> DEFINE m == MostPoints - 1
  <2>1. m \in Int /\ 0 \in Int /\ ~(0 > m) /\ m - 0 + 1 = MostPoints
    BY <1>1
  <2> HIDE DEF m
  <2>2. IsFiniteSet(0..m) /\ Cardinality(0..m) = IF 0 > m THEN 0 ELSE m - 0 + 1
    BY <2>1, FS_Interval
  <2>3. IsFiniteSet(0..m) /\ Cardinality(0..m) = MostPoints
    BY <2>1, <2>2
  <2> QED
    BY <2>3 DEF m
<1> HIDE DEF B, all
<1>4. IsFiniteSet(B) /\ n \in Nat /\ n <= MostPoints
  BY <1>2, <1>3, FS_Subset, FS_CardinalityType
<1>5. B \subseteq Int
  BY <1>2
<1>6. /\ Buckets \in [1..n -> B]
      /\ \A i, j \in 1..n : i < j => Buckets[i] < Buckets[j]
      /\ \A k \in B : \E i \in 1..n : Buckets[i] = k
  <2>1. Buckets = InOrder(B, <)
    BY DEF Buckets, B
  <2> QED
    BY <1>4, <1>5, <2>1, NumbersInOrder
<1>7. Len(Buckets) = n /\ DOMAIN Buckets = 1..n
  <2> HIDE DEF n
  <2> QED
    BY <1>4, <1>6
<1>8. \A p \in AllRows : \E i \in 1..n : Buckets[i] = BucketOf(p.ts)
  BY <1>6 DEF B
<1>9. \A i \in 1..n : Buckets[i] \in Nat
  BY <1>2, <1>6
<1> HIDE DEF n
<1> QED
  BY <1>4, <1>6, <1>7, <1>8, <1>9

\* A downsampled answer has at most one bucket more than the target in a wide
\* window, and at most twice the target in any, however many rows there are.
THEOREM FewBuckets == Spec => []BucketsAreBounded
<1>1. ASSUME IInv, RangeDone, req.form = "buckets" PROVE Len(TS) <= MostPoints
  <2>1. PICK n \in Nat : n <= MostPoints /\ DOMAIN Buckets = 1..n
    BY <1>1, BucketsInOrder
  <2>2. TS = [i \in 1..n |-> BucketTS(Buckets[i])]
    BY <1>1, <2>1 DEF TS
  <2>3. Len(TS) = n
    BY <2>2
  <2> QED
    BY <2>1, <2>3
<1>2. IInv => BucketsAreBounded
  BY <1>1 DEF BucketsAreBounded
<1> QED
  BY <1>2, Inductive, PTL

-----------------------------------------------------------------------------
(* Nothing wrong is shown *)

\* The middle of a bucket is at most half its width away.
LEMMA NearMiddle ==
  ASSUME NEW from \in Int, NEW ts \in Int, NEW ms \in Nat, ms > 0, NEW y \in Nat,
         y <= ts - from, ts - from < y + ms
  PROVE  2 * (ts - (from + y + ms \div 2)) \in -ms .. ms
OBVIOUS

\* A row stands near the time of the bucket that it is counted to.
LEMMA NearBucket ==
  ASSUME IInv, RangeDone, req.form = "buckets", NEW p \in AllRows, NEW i \in DOMAIN Buckets,
         Buckets[i] = BucketOf(p.ts)
  PROVE  i \in DOMAIN TS /\ Near(p.ts, i)
<1>1. i \in DOMAIN TS /\ TS[i] = BucketTS(BucketOf(p.ts))
  BY DEF TS
<1> DEFINE y == BucketOf(p.ts) * BucketMS
           ms == BucketMS
<1>2. /\ ms \in Nat /\ ms > 0 /\ y \in Nat /\ p.ts \in Int
      /\ y <= p.ts - req.from /\ p.ts - req.from < y + ms
  BY RowsInBuckets
<1>3. req.from \in Int
  BY DEF IInv, Types, Request
<1>4. BucketTS(BucketOf(p.ts)) = req.from + y + ms \div 2
  BY DEF BucketTS
<1> HIDE DEF y, ms
<1>5. 2 * (p.ts - (req.from + y + ms \div 2)) \in -ms .. ms
  BY <1>2, <1>3, NearMiddle
<1>6. 2 * (p.ts - TS[i]) \in -ms .. ms
  BY <1>1, <1>4, <1>5
<1> QED
  BY <1>1, <1>6 DEF Near, ms

\* The times of ascending buckets ascend.
LEMMA BucketTimesAscend ==
  ASSUME IInv, RangeDone, req.form = "buckets"
  PROVE  \A i, j \in DOMAIN TS : i < j => TS[i] < TS[j]
<1>1. PICK n \in Nat :
        /\ DOMAIN Buckets = 1..n
        /\ \A i \in 1..n : Buckets[i] \in Nat
        /\ \A i, j \in 1..n : i < j => Buckets[i] < Buckets[j]
  BY BucketsInOrder
<1>2. DOMAIN TS = 1..n /\ \A i \in 1..n : TS[i] = BucketTS(Buckets[i])
  BY <1>1 DEF TS
<1>3. BucketMS \in Nat /\ BucketMS > 0 /\ req.from \in Int
  BY RowsInBuckets DEF IInv, Types, Request
<1>4. ASSUME NEW a \in Nat, NEW b \in Nat, a < b PROVE BucketTS(a) < BucketTS(b)
  <2> DEFINE ms == BucketMS
             half == ms \div 2
  <2>1. a + 1 \in Nat /\ a + 1 <= b
    BY <1>4
  <2>2. ms \in Nat /\ ms > 0 /\ half \in Int
    BY <1>3
  <2> HIDE DEF ms, half
  <2>3. (a + 1) * ms <= b * ms
    BY <2>1, <2>2, ProductsAscend
  <2>4. (a + 1) * ms = a * ms + ms
    BY <2>2
  <2> DEFINE x == a * ms
             y == b * ms
  <2>5. x \in Nat /\ y \in Nat /\ x + ms <= y
    BY <2>2, <2>3, <2>4
  <2> HIDE DEF x, y
  <2>6. req.from + x + half < req.from + y + half
    BY <1>3, <2>2, <2>5
  <2> QED
    BY <2>6 DEF BucketTS, x, y, ms, half
<1> QED
  BY <1>1, <1>2, <1>4

\* Every value of a range is a poll that some query read, in the window, at its
\* own time or near it.
THEOREM NothingWrongIsShown == Spec => []RangeShowsWhatWas
<1>1. ASSUME IInv, RangeDone
      PROVE  /\ \A p \in req.packRows : p \in seen /\ InRange(p)
             /\ \A c \in CellIdx : \A p \in req.cellRows[c] :
                  p \in seen /\ InRange(p) /\ c \in p.cells
  BY <1>1 DEF IInv, RequestInv, RowsInv, RangeForm, RangeDone
<1>2. ASSUME IInv, RangeDone, req.form = "raw" PROVE RangeShowsWhatWas
  <2>1. TS = req.axis
    BY <1>2 DEF TS
  <2>2. \A i, j \in DOMAIN TS : i < j => TS[i] <= TS[j]
    BY <1>2, <2>1 DEF IInv, RequestInv, AxisInv, RangeDone
  <2>3. ASSUME NEW rows, NEW i \in DOMAIN TS, NEW p \in Value(rows, i)
        PROVE  p \in rows /\ Near(p.ts, i)
    <3>1. p \in RawValue(rows, i)
      BY <1>2 DEF Value
    <3>2. p \in rows /\ p.ts = req.axis[i]
      BY <3>1 DEF RawValue
    <3> QED
      BY <1>2, <2>1, <3>2 DEF Near
  <2> QED
    BY <1>1, <1>2, <2>2, <2>3 DEF RangeShowsWhatWas, PackValue, CellValue, InRange
<1>3. ASSUME IInv, RangeDone, req.form = "buckets" PROVE RangeShowsWhatWas
  <2>1. DOMAIN TS = DOMAIN Buckets
    BY <1>3 DEF TS
  <2>2. \A i, j \in DOMAIN TS : i < j => TS[i] < TS[j]
    BY <1>3, BucketTimesAscend
  <2>3. ASSUME NEW rows, rows \subseteq AllRows, NEW i \in DOMAIN TS, NEW p \in Value(rows, i)
        PROVE  p \in rows /\ Near(p.ts, i)
    <3>1. p \in rows /\ BucketOf(p.ts) = Buckets[i]
      BY <1>3 DEF Value, BucketValue
    <3> QED
      BY <1>3, <2>1, <2>3, <3>1, NearBucket
  <2>4. req.packRows \subseteq AllRows /\ \A c \in CellIdx : req.cellRows[c] \subseteq AllRows
    BY DEF AllRows
  <2> QED
    BY <1>1, <1>3, <2>2, <2>3, <2>4 DEF RangeShowsWhatWas, PackValue, CellValue, InRange
<1>4. IInv => RangeShowsWhatWas
  BY <1>2, <1>3 DEF RangeShowsWhatWas, RangeDone
<1> QED
  BY <1>4, Inductive, PTL

-----------------------------------------------------------------------------
(* Nothing is left out *)

\* A set of natural numbers that has a bound has a greatest element.
LEMMA MaxExists ==
  ASSUME NEW n \in Nat, NEW T, T \subseteq 0..n, T # {}
  PROVE  \E x \in T : \A y \in T : y <= x
<1> DEFINE R == {p \in Nat \X Nat : p[1] < p[2]}
           Left == {m \in 0..n : n - m \in T}
<1>1. IsWellFoundedOn(R, Nat)
  BY NatLessThanWellFounded DEF OpToRel
<1>2. Left \subseteq Nat /\ Left # {}
  <2>1. PICK x \in T : TRUE
    OBVIOUS
  <2>2. n - x \in 0..n /\ n - (n - x) = x
    BY <2>1
  <2>3. n - x \in Left
    BY <2>1, <2>2
  <2>4. Left \subseteq Nat
    OBVIOUS
  <2> HIDE DEF Left
  <2> QED
    BY <2>3, <2>4
<1>3. PICK m \in Left : \A y \in Left : ~ (<<y, m>> \in R)
  <2> HIDE DEF R, Left
  <2> QED
    BY <1>1, <1>2, WFMin
<1>4. ASSUME NEW y \in T PROVE y <= n - m
  <2>1. y \in 0..n /\ n - y \in 0..n /\ n - (n - y) = y
    OBVIOUS
  <2>2. n - y \in Left /\ n - y \in Nat /\ m \in Nat
    BY <2>1
  <2>3. ~ (n - y < m)
    BY <1>3, <2>2
  <2> QED
    BY <2>1, <2>2, <2>3
<1>5. n - m \in T
  BY <1>3
<1> QED
  BY <1>4, <1>5

\* Of equal times on the axis, one is the last.
LEMMA LastPosition ==
  ASSUME NEW ax \in Seq(Int), NEW t, \E i \in DOMAIN ax : ax[i] = t
  PROVE  \E i \in DOMAIN ax : ax[i] = t /\ ~ \E j \in DOMAIN ax : j > i /\ ax[j] = t
<1> DEFINE T == {i \in DOMAIN ax : ax[i] = t}
           n == Len(ax)
<1>1. n \in Nat /\ T \subseteq 0..n /\ T # {}
  OBVIOUS
<1>2. PICK i \in T : \A j \in T : j <= i
  BY <1>1, MaxExists
<1>3. ASSUME NEW j \in DOMAIN ax, j > i, ax[j] = t PROVE FALSE
  <2>1. j \in T /\ i \in Int /\ j \in Int
    BY <1>3
  <2> QED
    BY <1>2, <1>3, <2>1
<1> QED
  BY <1>2, <1>3

\* A row at a time of the axis gives the last position of that time a value.
LEMMA RowGivesValue ==
  ASSUME IInv, NEW rows, rows \subseteq seen, NEW p \in rows, NEW i,
         req.axis[i] = p.ts, ~ \E j \in DOMAIN req.axis : j > i /\ req.axis[j] = req.axis[i]
  PROVE  RawValue(rows, i) # {}
<1> DEFINE T == {q.id : q \in {r \in rows : r.ts = p.ts}}
<1>1. nextId \in Nat
  BY ReaderBoundsAssumption DEF IInv, Types
<1>2. \A q \in rows : q.id \in Nat /\ q.id < nextId
  BY DEF IInv, Types, HistoryInv, Poll
<1>3. T \subseteq 0..nextId /\ T # {}
  BY <1>1, <1>2
<1>4. PICK x \in T : \A y \in T : y <= x
  BY <1>1, <1>3, MaxExists
<1>5. PICK q \in rows : q.ts = p.ts /\ q.id = x
  BY <1>4
<1>6. \A r \in rows : r.ts = q.ts => r.id <= q.id
  BY <1>4, <1>5
<1> QED
  BY <1>5, <1>6 DEF RawValue

\* A row that has its time to itself is the value of the last such position.
LEMMA RowIsValue ==
  ASSUME IInv, NEW rows, rows \subseteq seen, NEW p \in rows, NEW i,
         \A q, r \in rows : q.ts = r.ts => q = r,
         req.axis[i] = p.ts, ~ \E j \in DOMAIN req.axis : j > i /\ req.axis[j] = req.axis[i]
  PROVE  p \in RawValue(rows, i)
<1>1. p.id \in Nat
  BY DEF IInv, Types, Poll
<1>2. \A q \in rows : q.ts = p.ts => q.id <= p.id
  BY <1>1
<1> QED
  BY <1>2 DEF RawValue

\* A raw range shows a lasting poll at the last position of its time.
LEMMA RawOmitsNothing ==
  ASSUME IInv, RangeDone, req.form = "raw",
         NEW p \in lasting, InRange(p), HasValue(p), ~ CutOff(p)
  PROVE  \E i \in DOMAIN TS :
           /\ Near(p.ts, i)
           /\ req.pack => PackValue(i) # {}
           /\ req.cells => \A c \in p.cells : p \in CellValue(c, i)
<1>1. TS = req.axis /\ req.axis \in Seq(Int) /\ req.stage = "done" /\ RangeForm
  BY DEF TS, IInv, Types, Request, RangeDone, RangeForm
<1>2. Stamped(p)
  BY <1>1 DEF IInv, RequestInv, AxisInv, CutOff
<1>3. Wanted(p)
  BY <1>2 DEF Wanted
<1>4. PICK i \in DOMAIN req.axis :
        req.axis[i] = p.ts /\ ~ \E j \in DOMAIN req.axis : j > i /\ req.axis[j] = p.ts
  BY <1>1, <1>2, LastPosition DEF Stamped
<1>5. Near(p.ts, i)
  BY <1>1, <1>4 DEF Near
<1>6. ASSUME req.pack PROVE PackValue(i) # {}
  <2>1. p \in req.packRows /\ req.packRows \subseteq seen
    BY <1>1, <1>3, <1>6 DEF IInv, RequestInv, PackInv, RowsInv
  <2>2. RawValue(req.packRows, i) # {}
    BY <1>4, <2>1, RowGivesValue
  <2> QED
    BY <2>2 DEF PackValue, Value
<1>7. ASSUME req.cells, NEW c \in p.cells PROVE p \in CellValue(c, i)
  <2>1. c \in CellIdx
    BY DEF IInv, Types, Poll
  <2>2. /\ p \in req.cellRows[c] /\ req.cellRows[c] \subseteq seen
        /\ \A q, r \in req.cellRows[c] : q.ts = r.ts => q = r
    BY <1>1, <1>3, <1>7, <2>1 DEF IInv, RequestInv, CellInv, RowsInv
  <2>3. p \in RawValue(req.cellRows[c], i)
    BY <1>4, <2>2, RowIsValue
  <2> QED
    BY <2>3 DEF CellValue, Value
<1> QED
  BY <1>1, <1>4, <1>5, <1>6, <1>7

\* A downsampled range counts a lasting poll to its bucket in every series.
LEMMA BucketsOmitNothing ==
  ASSUME IInv, RangeDone, req.form = "buckets", NEW p \in lasting, InRange(p), HasValue(p)
  PROVE  \E i \in DOMAIN TS :
           /\ Near(p.ts, i)
           /\ req.pack => PackValue(i) # {}
           /\ req.cells => \A c \in p.cells : p \in CellValue(c, i)
<1>1. req.stage = "done" /\ RangeForm /\ Wanted(p)
  BY DEF RangeDone, RangeForm, Wanted
<1>2. req.pack => p \in req.packRows
  BY <1>1 DEF IInv, RequestInv, PackInv
<1>3. p.cells \subseteq CellIdx
  BY DEF IInv, Types, Poll
<1>4. ASSUME req.cells, NEW c \in p.cells PROVE p \in req.cellRows[c]
  <2>1. c \in CellIdx /\ c < NumCells
    BY <1>3, CellsAssumption DEF CellIdx
  <2>2. req.nextCell = NumCells
    BY <1>1, <1>4 DEF IInv, RequestInv, CellInv
  <2> QED
    BY <1>1, <1>4, <2>1, <2>2 DEF IInv, RequestInv, CellInv
<1>5. p \in AllRows
  <2>1. CASE req.pack
    BY <1>2, <2>1 DEF AllRows
  <2>2. CASE ~ req.pack
    <3>1. req.cells
      BY <1>1, <2>2 DEF IInv, RequestInv, StageInv
    <3>2. PICK c \in p.cells : TRUE
      BY <2>2 DEF HasValue
    <3> QED
      BY <1>3, <1>4, <3>1, <3>2 DEF AllRows
  <2> QED
    BY <2>1, <2>2
<1>6. PICK i \in DOMAIN Buckets : Buckets[i] = BucketOf(p.ts)
  BY <1>5, BucketsInOrder
<1>7. i \in DOMAIN TS /\ Near(p.ts, i)
  BY <1>5, <1>6, NearBucket
<1>8. req.pack => PackValue(i) # {}
  BY <1>2, <1>6 DEF PackValue, Value, BucketValue
<1>9. ASSUME req.cells, NEW c \in p.cells PROVE p \in CellValue(c, i)
  BY <1>4, <1>6, <1>9 DEF CellValue, Value, BucketValue
<1> QED
  BY <1>7, <1>8, <1>9

\* A poll that was in the database all along, in the window, is in the answer
\* with every series that was asked for, unless Truncated stands for it.
THEOREM NothingIsOmitted == Spec => []RangeOmitsNothing
<1>1. IInv => RangeOmitsNothing
  <2> SUFFICES ASSUME IInv, RangeDone, NEW p \in lasting,
                      req.from <= p.ts, p.ts <= req.to, HasValue(p), ~ CutOff(p)
               PROVE  \E i \in DOMAIN TS :
                        /\ Near(p.ts, i)
                        /\ req.pack => PackValue(i) # {}
                        /\ req.cells => \A c \in p.cells : p \in CellValue(c, i)
    BY DEF RangeOmitsNothing
  <2>1. InRange(p)
    BY DEF InRange
  <2>2. CASE req.form = "raw"
    BY <2>1, <2>2, RawOmitsNothing
  <2>3. CASE req.form = "buckets"
    BY <2>1, <2>3, BucketsOmitNothing
  <2> QED
    BY <2>2, <2>3 DEF RangeDone
<1> QED
  BY <1>1, Inductive, PTL
=============================================================================
