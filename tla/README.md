# bms-monitor: a verification development

`bms-monitor serve` polls a battery management system over a serial adapter,
buffers the samples, writes them to SQLite and serves them to a browser, in one
unattended process. This directory holds TLA+ modules translated from its Go
source (and from the script of its dashboard), the TLC configurations that check
them, and TLAPS proofs. Paths below are relative to the repository (`src/`).

## 1. The system

### Components

| Component | Code | State | Operations | Interacts with |
| --- | --- | --- | --- | --- |
| Store: buffer and writer | `internal/store/writer.go`, `retention.go`, `schema.go` | `buf`, one write connection, the tables `samples`, `cell_samples`, `temp_samples` | `Open`, `Add`, `Flush`, `Prune`, `Close` | called by the loop's goroutine only; read by the readers |
| Store: readers | `internal/store/reader.go` | a read-only connection pool | `Latest`, `Range` (raw or bucketed), `LastSampleAgeMS` | several queries per call, outside any transaction, beside the writer |
| Poll loop | `cmd/monitor/serve.go` `runLoop`, `attempt` | `client`, `consecutive`, the poll timer, two tickers | poll, flush, prune, leave | calls client and store; select over four channels |
| Service | `cmd/monitor/serve.go` `runServe` | how far start-up or shutdown has come, the signal context | start, shut down, exit code | composes everything |
| Serial client | `internal/bms/client.go` | the open port | `Open`, `Poll` (wake-up, two attempts, deadlines), `Close` | called by `attempt` |
| Frame codec, analog decoding | `internal/bms/frame.go`, `parse.go` | none | checksum, length field, `parseFrame`, `ParseAnalog` | called by `Poll` |
| HTTP server | `internal/web/server.go`, `api.go` | requests in progress | `/api/latest`, `/api/range`, `/api/health`, `Shutdown` | calls the readers from its own goroutines |
| Dashboard | `internal/web/assets/app.js` | chart data, range, watermark of the live append | range load, header tick, custom range | `/api/latest`, `/api/range` |
| Configuration | `internal/config/config.go` | none | defaults, YAML, overrides, `Validate` | read once by `main` |
| `poll` command | `cmd/monitor/main.go` | none | one poll, printed | serial client |
| systemd unit | `bms-monitor.service` | none | restart after a failure | the process |

### What is hard here

- **Two timers and a signal in one select.** `runLoop` serves polls, flushes,
  prunes and cancellation from one goroutine; a poll takes seconds, and meanwhile
  ticks wait or are dropped.
- **Retries of what may have been done.** A flush that fails keeps its buffer and
  is tried again with more in it; the signal cancels a flush in the middle, and
  the final flush must write what that one rolled back.
- **Crashes and power loss.** The database runs in WAL mode with
  `synchronous=NORMAL`: a process that dies loses its buffer, a machine that loses
  power may also lose the last commits.
- **The wall clock.** Stamps of the host clock are the join key of the tables,
  the measure of retention and of health, and the clock may be corrected.
- **Readers without transactions.** One HTTP answer is put together from up to
  eighteen queries, between any two of which a flush or a prune may commit.
- **An adapter that comes and goes**, with an exclusive port that must be closed
  before it can be opened again.
- **Answers that overtake each other.** The dashboard's timer does not wait for
  its requests, and a click loads a range while they are under way.
- **Numbers without a type.** Cursors, two's complement and offsets of a binary
  payload whose fields depend on two counts, behind a checksum that is computed
  but not enforced.
- **Boundaries**: the index into the backoff schedule, the width of a bucket, the
  oldest row that retention keeps, the cap on raw points, seconds and days that are
  multiplied in an int64.

### What makes each component correct

- Store: tables hold whole polls in every state that can be seen or recovered; no
  poll is stored twice; retention removes only what is old; every sample gets
  there in the end.
- Poll loop: no handle leaks; one whose adapter has gone costs one more poll at
  most; the wait climbs within a failure run; polling resumes when the cable is back.
- Service: an orderly stop keeps everything, and no sample is lost without a word;
  no read after the close; a signal ends it.
- Timers: a sample reaches the database within the flush interval; health calls a
  working service ok.
- Readers: an answer shows only what was there, under its own time, omits nothing
  that was there all along, and is bounded in size.
- Serial client and codec: a sample stems from this poll's request; numbers keep
  their sign and scale; what is damaged is refused or at least logged; no index
  leaves its slice.
- Process: the configuration is put together in the documented order, and no value
  that `Validate` passes makes a ticker panic or the startup prune delete what is
  not past, unless it overflows; the exit code of `poll` tells what failed.
- Dashboard: points ascend, belong to the selected range, and keep up with the
  samples.

The hazards these properties answer to are listed, line by line, in
`PROJECT.json`.

## 2. The modules

```
SampleLog   <-- refined by --  Store  ---------.
                                               +-- INSTANCE --> Serve
                            PollLoop ----------'
StoreReader     readers beside the commits of Store
Cadence         timers of runLoop and /api/health
SerialClient    one Poll after the other on a slow device
Codec   --.
          +-- EXTENDS --> Command   a process from its arguments to its exit code
Config  --'
Dashboard       the page in the browser and the answers it gets
StoreProofs, PollLoopProofs, ServeProofs, CadenceProofs, SerialClientProofs,
StoreReaderProofs, CommandProofs, DashboardProofs
MCStore, MCPollLoop, MCServe, MCStoreReader, MCCadence, MCSerialClient,
MCCommand, MCDashboard
```

Operators with a name such as `FlushErrorDropsBuffer` stand before the operator
they depart from. They are plausible faults, used by no action; substituted for
the operator that follows them they show that a property notices.

### SampleLog

What the store promises: a sample is pending, then durable together with all that
is pending beside it, then perhaps expired. A process that stops loses what is
pending; a power loss falls back to a state committed since the last checkpoint.

### Store

`op` is what the one writing goroutine is in the middle of, `buf` is `Store.buf`,
`disk` the committed tables, `work` the tables inside the open transaction, `pos`
how far the transaction has come, `recoverable` the states a power loss may leave,
`polled` the history of samples. `FlushBegin`, `FlushInsert` (one per sample),
`FlushCommit`, `FlushConflict` (primary key) and `FlushError` are `Flush`;
`PruneBegin`, `PruneTable` (one DELETE each), `PruneCommit` and `PruneError` are
`Prune`. `Die` and `PowerLoss` are enabled between any two of them, and `StepBack`
corrects the clock. A sample is its stamp and the set of cells and probes it
reports; the values are immaterial to every property.

### PollLoop

`stage` is where `runLoop` is, `client` the handle (nil, live, or dead after an
unplug), `consecutive` the failure run and `delay` the wait that follows. `Boot`
is the opening in `runServe`, where a failure is not fatal; `Fire`, `OpenOk`,
`OpenFails`, `PollOk` and `PollFails` are `attempt`, with the error categories
that `isPortError` tells apart. `Unplug` and `Replug` are the cable; `held` counts
the handles the operating system has open for the process, and `stale` the polls
that began on a handle whose adapter had gone. Such a poll ends in a port error and
in nothing else, which is an assumption about the operating system; a poll that
was running when the cable was pulled may still end in anything.

### Serve

`phase` follows `runServe` from `store.Open` to the exit code. Its actions take a
step of `Store` or `PollLoop`, or both (`PollSucceeds` is `PollOk` with `Add`),
or none, under the condition that the control flow puts there. `Signal` may come
at any time and makes transactions under the signal context fail with an error;
the final flush has a fresh context. `HttpStops` waits for the readers, and a
connection that was accepted before may still bring one (`reachable`);
`HttpTimesOut` is the five-second limit, which leaves such connections open. `Kill` and `PowerFails` end the process
between any two steps; `Start` is also the restart by systemd.

### StoreReader

One request of `/api/latest` or `/api/range`, query by query. `req` holds the
local variables of the Go functions; `FlushCommits`, `PruneCommits` and `StepBack`
happen between any two queries. The committed tables are a set of whole polls,
which `Store` shows them to be; `Found` has the databases that an earlier process
may have left. A shown value is the set of polls it was computed from, which is
what the properties ask about. `seen` and `lasting` are history: what could have
been read by some query, and by every query.

### Cadence

The poll timer, armed again only when an attempt has ended; the flush ticker,
whose channel holds one tick; polls that last up to `MaxPoll`; ages of the oldest
and newest buffered and the newest visible sample. `Pass` lets one unit of time go
by, and only when nothing is ready: the goroutine does not sleep through a ready
channel. `Ok` is what `/api/health` answers.

### SerialClient

`phase` is what `Poll` waits for: the wake-up reply, the settling or the flush of
the bus (`sleep`), an analog reply (`read`), or the next poll. `flight` is what the
device still owes, `input` the input buffer of the operating system, `rx` what
`readUntilEOI` has collected. A reply has a front with the SOI and a back with the
EOI, which may be delivered, read and thrown away separately. `WakeIsSent` and
`WakeFails` are the reset and the write in `wake`; `Exchange` and `ExchangeFails`
are `flushBus` and `exchange` up to the read; `ReadMore`, `ReadEOI`,
`ReadTimesOut` and `ReadFails` are the iterations of `readUntilEOI`, with
`cleanHexPayload` (`Clean`), `parseFrame` and `ParseAnalog` (`Verdicts`) after the
EOI. `Fails` is the `continue` of the attempts. What parses is decided by the
pieces that meet: any pieces may yield any result, since a wrong checksum is not an
error, except that an intact reply to the wake-up never passes for analog data (it
is too short). `own` and `fresh` are history: whether a piece answers a request of
the present poll. `trouble` is history, too: an analog reply of the present poll was
lost, late, refused, or cut by a reset, or the port failed during an attempt. What
becomes of the wake-up is no trouble: "Failures are non-fatal" (`client.go:128`).

### Codec

Pure operators with the names of `frame.go` and `parse.go`. A frame is the sequence
of its hex digits as `cleanHexPayload` leaves them, a payload a sequence of bytes.
`ParseFrame` and `ParseAnalog` give an error or a result; the cursor of the Go code
appears as the offsets `TempsAt`, `MainAt`, `FullAt` and `CountersAt`. `Truncated`
collects the early returns, whose order cannot be told apart from outside (they
all wrap `ErrFraming`).

### Config and Command

`Config` has the defaults, the document decoded over them, the overrides (a flag
with the zero value of its type is not set) and `Validate`. A document is a function from keys
to values. `Command` is one process: `Dispatch`, `ParseFlags`, then either
`CheckFormat`, `OpenPort`, up to `analogAttempts` reads (`ReadAnswer`,
`ReadFails`), `ReportError` or `PrintSample`; or `LoadConfig`, `ValidateConfig`,
`OpenStore`, `StartWeb`, `StartupPrune`, `OpenSerial`, `StartLoop` and the running
service, which `Serve` takes apart. `FlushInterval` and `CutoffAt` are what the
ticker and the prune make of the configuration, in the int64 of the code (`Int64`
wraps around); a ticker without a positive period panics, and the process ends with
everything open. An
answer of the BMS is encoded from a reading by operators that stand for the device
(`Payload`, `ReplyTo`), damaged in at most one character between SOI and EOI
(`OneCharacter`), and decoded by `Codec`. What the decoders should return is stated separately
(`Meaning`), from the reading and not from the digits. `last` is history: what
the last attempt met, and whether the line had touched it.

### Dashboard

`range`, `bounds`, `watermark` and `built` are the variables of `app.js`; `axis` is
the time axis that its three charts share. A script is not interrupted between two
awaits, so `LoadCharts` is the function of that name up to its fetch, `Build` what
follows it, and a tick is `TickIsDue`, its answer, and `AppendLive`. `loads` and
`ticks` hold the requests that are under way; their answers are computed at any
time in between, from the samples that are in the database then, with the buckets
of `rangeBucketed`. `newest` is history: the newest sample that the charts show or
average.

## 3. The runs

| Run | Instance | Shows |
| --- | --- | --- |
| `store` | 3 samples, clock up to 4, retention 2, one correction of the clock; a pack with a cell and a probe, or with neither | `PollsAreWhole`, `NeverTwice`, `RetentionHonoured`, `ImplementsSampleLog` |
| `poll_loop` | interval 15, escalation at 5, the real schedule, failure run up to 9 | `NoHandleLeak`, `StaleHandleFailsOnce`, `BackoffClimbs`, `CableBackMeansPolling` |
| `serve` | 2 samples, one request, one database error, one correction, with fairness | `PhasesAgree`, `GracefulStopKeepsEverything`, `NoReadAfterClose`, `NothingIsLostSilently`, `SignalStops`, `SamplesArePersisted` |
| `store_reader` | 2 cells, 3 polls, a database found empty or with 4 polls, raw threshold 1, cap 2, 2 target buckets; windows of 1, 3 and 4 ms | `RangeShowsWhatWas`, `RangeOmitsNothing`, `BucketsAreBounded`, `LatestIsOnePoll` |
| `cadence` | the default poll interval and schedule, in seconds; flush interval 4 s, polls up to 6 s: ticks are dropped, and the three bounds are different ones | `FlushIsTimely`, `ReadersAreCurrent`, `OkWhilePolling` |
| `serial_client` | units of half a second: wake-up 0.5 s, settling 0.5 s, reads of 1.5 s, replies after up to 2 s, polls 2.5 s apart | `SampleAnswersThisPoll`, `PollIsBounded`, `InTimeIsHeard` |
| `command` | files of up to two keys, one flag, every key with good, zero and bad values, two of them too large; an int64 of 16 bits; 5 readings, return codes 0 and 1, every change or loss of one digit; 2 attempts | `EndsClosedOrOverflowed`, `CutoffIsPastOrOverflowed`, `FlagBeatsFileBeatsDefault`, `SampleIsMeasuredOrWarned`, `ExitCodeTells` |
| `dashboard` | one bounded range, "all", one custom window; 2 requests of the header, 2 loads, time up to 3, more than one sample is bucketed | `AxisAscends`, `ShownIsSelected`, `ChartsCatchUp` |
| `store_stuck` | as `store`, healthy disk, with fairness | **violated**: see 1 below |
| `store_reader_cap` | as `store_reader` | **violated**: see 2 below |
| `cadence_stale` | interval 5 s, flush 10 s, polls up to 1 s | **violated**: see 3 below |
| `dashboard_watermark` | as `dashboard` | **violated**: see 4 below |

Each passing run also checks the type invariant of its module.

### What the violated runs show

1. `README.md:10-11` promises that every sample is persisted. After one correction
   of the host clock two samples can share a stamp. The second violates
   `PRIMARY KEY (ts, cell_idx)`, `Flush` rolls back the whole batch and keeps it,
   and every retry repeats that: nothing is stored any more until the process ends
   and loses the buffer. The README does ask for NTP; what it does not say is that
   one small step back stops the recording.
2. `rangeRawCap` is described as the hard cap on raw points (`reader.go:18-20`).
   The decision to limit is taken from a COUNT; a flush that commits before the
   SELECT makes the answer longer than the cap, and `Truncated` stays false.
3. `README.md:123` says that `/api/health` is 200 while polling. It measures the
   age of the newest *flushed* sample against twice the poll interval. With an
   interval of 5 s and the default flush interval of 10 s it answers 503 although
   every poll succeeds. The theorem `HealthIsOk` says when this cannot happen: if
   flush interval and poll together fit into the poll interval. The defaults (15,
   10) meet that for polls of up to 5 s; the longest poll that `BoundedPoll` admits
   with a read timeout of 2 s takes 5.6 s.
4. `app.js:10-11` says that each header tick pushes the latest sample onto every
   chart, and `app.js:425-426` that the watermark lets the next tick append
   genuinely newer samples. After a load of more than 5000 samples the watermark is
   the centre of the last bucket (`reader.go:309`), up to half a bucket ahead of
   the newest sample, and newer samples count as old until the clock passes it:
   up to 9 s for 24h, a minute for 7d, and two days for "all", whose window
   begins in 1970 so that its buckets are four days wide. `ChartsCatchUp` is what
   remains true: the axis comes to reach every sample.

### Also met while modelling

Each of the first three contradicts a line of the repository. They need no run of
their own: the passing runs reach them, and the properties name them as what
they allow.

- `reader.go:22` calls `rangeBuckets` the target number of buckets, and
  `reader_test.go:228` demands no more than 5000 points. The width of a bucket is
  rounded down, so that the grid has room for more: 5001 points in windows of seven
  hours and more, when a row is stamped `to` or falls into what the division leaves
  over (the test's window divides evenly, and has no row at its end), and up to
  10000 in a window just below ten seconds. `BucketsAreBounded` says how many there
  can be.
- `Validate` bounds `flush_interval_seconds` from below only (`config.go:184`), and
  `serve.go:220` multiplies it by a billion in an int64. From 9223372037 on the
  product can be negative, and `time.NewTicker` panics, although `config.go:171`
  says that `Validate` checks for consistency; the process dies with its database
  and port open and with code 2. `EndsClosedOrOverflowed` says that no other
  setting, and no combination of sources, can do that.
- The same for `retention_days` at `retention.go:25`: 110000000000 days, say, are a
  negative number of milliseconds, the cutoff lies in the future, and the prune at
  startup deletes every sample, where `retention.go:11` promises to delete those
  older than `retention_days`. `CutoffIsPastOrOverflowed` says that nothing but
  this overflow can do that. Both settings are absurd: this is where validation
  ends, not a case that is likely to occur. With an `int` of 32 bits neither product
  can overflow.
- `storage.max_batch` is documented as the number of buffered samples that forces
  a write (`config.example.yaml:17`). Nothing but `Validate` reads it, so the
  buffer grows as long as flushes fail. There is no run for it: a property could
  only restate that the field is not read.
- `PollLoop` waits 15 s after a failure and, once a run of failures has escalated,
  only 5 s at first: the default interval is longer than the first entry of
  `backoffSchedule`. `BackoffClimbs` speaks of the escalated run; nothing in the
  repository says how the two should compare.
- `cfg.Serial.Baud`, the flush interval and `max_batch` have no flags, and a flag
  with the value zero cannot override the file. `FlagBeatsFileBeatsDefault` is
  stated with that reading of "override", which `config.go:63-65` spells out.
- An address above 255 is taken modulo 256 (`frame.go:57`), and the address of the
  answer is not compared with it.
- Counts above 32 cells or 8 probes are cut while the cursor moves on from the cut,
  so that the fields after them are read from the wrong bytes. And a payload of
  less than ten bytes counts as truncated (`parse.go:43-45`), although one without
  cells and probes that leaves out the last fields would have nine. Packs of this
  protocol have fewer cells and probes than that, and some; `ReadingsAssumption`
  says so.
- The length field has a nibble of its own that protects it (`encodeLength`), and
  `parseFrame` does not look at it. If one character of the count changes to a
  lower one, the reply ends early for the parser, which takes other digits for the
  checksum and drops the rest. A reading whose full capacity happens to be spelt
  like that checksum (`Unlucky` in `MCCommand`) then becomes a sample without this
  field, and no warning is logged. `SampleIsMeasuredOrWarned` held in the run
  before that reading was added, and a proof of it could not be completed; it now
  says what is true, with an exception for a length that was changed. No statement
  of the repository is contradicted.

### What `InTimeIsHeard` does not promise

Each reset of the input buffer (`client.go:133`, `150`, `198`) may come between the
two halves of a reply that is just arriving, of the wake-up or of the first
attempt. The second half is then read as the answer and refused. Two such cuts use
up both attempts although the device answered in time. The model shows it, the
repository says nothing to the contrary, and the property excludes the cut of an
analog reply through `trouble` (`Torn`). A cut of the wake-up's reply is not
excluded: the second attempt makes up for it. Nor is anything else that may become of
the wake-up. An earlier form of the property counted all of that as trouble, for good;
the proof needed neither, so it now speaks of each poll by itself and of its analog
replies only. It also showed a condition that was missing: with a read timeout that is
not positive, which `Validate` lets pass, nobody is heard.

### Bounds, and why they are enough

- Three samples are enough for a conflict inside one batch and for one between
  batches, with a sample before or after; two clock values would do for retention,
  five leave room for a correction. One correction suffices: it already lets any
  two stamps coincide. One cell and one probe represent all, since rows of
  different cells never meet in a key; a poll that reports none shows the case
  where `samples` does not notice a repeated stamp.
- A failure run of 9 is past the end of the schedule. `stale` saturates at 2, one
  above what `StaleHandleFailsOnce` allows.
- `MaxReaders`, `MaxTxErrors`: one request or error at a time is what each
  property needs; errors follow each other only through retries, which are
  the same state again. The proofs of section 4 need none of these bounds.
- Three polls exceed the raw threshold of 1 and the cap of 2. With two target
  buckets the width of a bucket is exact on a window of 4 ms, rounded down on one
  of 3 ms, and would be rounded to zero on one of 1 ms; a database that is found
  with a poll in every millisecond fills every bucket that there can be. Two cells
  make two queries between which a commit can fall.
- In `SerialClient` a reply may take longer than a read, so that replies of the
  wake-up and the first attempt come into the read of the next; `MaxInput` of four
  pieces holds two whole replies at once. The read timeout is shortened to three
  units; no property depends on it beyond its order with the other times.
- In `command` two keys of a file meet one flag and `--debug`, so that each of the
  sources can win or lose each key, alone and beside another key. The readings
  have values at every limit of `parse.go` and beyond, with all three lengths of a
  payload; every position of the reply is damaged in every way, twice in a row. An
  int64 of 16 bits, a second of 1000 units and a day of 100 keep the numbers small:
  a flush interval of 40 and a retention of 400 then overflow as billions do in the
  code. The proofs take any width and any units.
- In `dashboard` a bucket is several time units wide when a window holds two
  samples or more, and two header requests are enough to overtake each other.
  `MaxLoads` of two would let a second load show if one could ever start; that it
  cannot is proved.
- In `cadence` a poll may outlast the flush interval, so that the ticker drops ticks,
  and is longer than the 5.6 s that `BoundedPoll` admits with a read timeout of 2 s.
  `FlushIsTimely` is then a bound of 4 s, `ReadersAreCurrent` of 25 and
  `OkWhilePolling` of 30. With the default flush interval the last two are one, if
  a poll takes 5 s; `HealthIsOk` covers that. `MaxAge` is above every age that a
  property of `Cadence` mentions; older samples are all alike.

### Fairness, and what justifies it

- `PollLoop`: the goroutine runs on (weak fairness of its steps), and a port that
  is there again and again is opened, and answers, at some time (strong fairness
  of `OpenOk` and `PollOk`). The second is an assumption about the device;
  `CableBackMeansPolling` is stated under the condition that the cable stays in.
- `Serve`: weak fairness of start-up, transactions, polls and shutdown, because
  each is bounded by a deadline or is a local call; strong fairness of the cases
  `ctx.Done` and flush of the select, because Go chooses at random among ready
  cases. None for signals, requests or failures: a request may stay open for ever,
  and shutdown passes it by after its timeout.
- `Dashboard`: the timer keeps firing, and a range request comes to an end (weak
  fairness: it is answered or fails); header requests that are made again and
  again do not all fail (strong fairness of the answer and its delivery).
- `Store` (`FairSpec`, used by a violated run): a due flush is not passed over for
  ever and a transaction that was begun ends, with a disk that makes no errors.

## 4. The proofs

TLAPS checks the following for every value of the constants that the named
assumptions admit. They assume nothing else.

- **StoreProofs.** `IInv` is `TypeOK`, `DataInv` and `TxInv`. `PollsAreWhole` and
  `NeverTwice` alone are not inductive: they say nothing of a transaction that is
  under way. `WorkInFlush` relates the tables inside the transaction to the
  committed ones and to the prefix of the buffer inserted so far, `WorkInPrune`
  says which tables have been pruned already, and `PolledInOrder` and
  `BufferIsPolled` tie the buffer to the history. The step lemmas follow the
  actions; the lemmas about inserting a sample and about the three DELETEs (which
  agree because the three tables have the stamp in common) are stated once. From
  the invariant: `TypeCorrect`, `WholePolls`, `NoPollTwice`, `Retains`. For
  `Implementation` every step is mapped to a step of `SampleLog` or to a stutter.
- **PollLoopProofs.** `IInv` adds that the wait is the one its failure count calls
  for, that there is no client before an opening, and that a poll on a handle whose
  adapter has gone is the first one. `NoLeak`, `StaleHandle`;
  `Backoff` needs the schedule not to decrease, and nothing of the interval.
- **ServeProofs.** Each step of the composition is a step of either part or leaves it
  alone (lemmas `StoreIsUsed` and `PollLoopIsUsed`). So what is proved of
  the parts holds of the service without another induction
  (`ServiceKeepsWholePolls`, `ServiceNeverStoresTwice`,
  `ServiceNeverLeaksHandle`). The service's own invariant is what each phase
  implies for buffer, handle and readers; from it `PhasesAlwaysAgree`,
  `GracefulStop` and `ReadersAreSafe`. `NothingIsLost` follows each step of a
  transaction with the invariant of the store: which samples are in its tables, and
  that a prune takes away expired ones only.
- **CadenceProofs.** The argument counts time back from the last success. The
  timer was armed with the interval at that moment, so the age of the newest
  sample is what the timer has run down, plus what the next poll has taken.
  `TickCovers` says that a buffered sample always has a tick ahead of it or
  waiting, and that a tick that waits at the select was there before the timer ran
  down; `OnlyTheLast` that with a fast ticker the buffer is empty when a poll
  begins. From these `TimelyFlush`, `CurrentReaders` and `HealthIsOk`.

- **SerialClientProofs.** `Budget` adds up the time that each phase may still take
  (`BoundedPoll`): `WakeTimeout + WakeSettle + FlushDelay`, twice the read timeout,
  and one tick for each of the three reads. `DataInv` says whose replies are owed: between polls
  they have been owed for as long as the client waits, so that nothing is owed any
  more when the next poll begins if `MaxDelay < MinIdle`; and what is in the input
  buffer during a read came after a reset, hence from the poll itself. From it
  `OwnAnswers` and `TypeCorrect`. The device may lose replies, answer errors, or
  not answer, and the port may fail at any step.

  `Heard` needs to know what a read will see before it does. `Stream` is the row of
  all pieces of a poll: read, in the input buffer, and to come. Arrivals and reads
  only move the borders in it (`Moves`). `Expected`: while nothing went wrong it ends
  with the reply that the read waits for; in the first attempt what the wake-up has
  left stands before it and has one back at most, in the second there may be the
  whole reply to the first attempt. `Due`: that reply comes before the deadline. A
  read ends with the first back of the row (`UpTo`). If that ends an analog reply,
  it is a sample. If not, the attempt was the first, what the wake-up left is used
  up, and at most the answer itself is still to come, whole unless its front is in
  the buffer and about to be cut (`HalfWay`, `FrameHeard`).

- **StoreReaderProofs.** The invariant follows a request from query to query: every
  row that it holds was in the database at some query (`seen`), and every poll that
  was there at all of them (`lasting`) is among the rows read so far. A commit only
  makes `seen` larger and `lasting` smaller, so it disturbs neither
  (`RequestInv`); `DataInv` has the keys of the tables, which two rows of one cell at
  one time would violate. Queries sort their rows: that a finite set with a strict
  order has a sorted sequence at all is shown by the rank of its elements
  (`SortExists`), and what is left of the sequence by LIMIT is shown from its order.
  The width of a bucket is a quotient, and how many buckets a window can have, one
  more than the target or twice as many, is arithmetic on it (`WideBuckets`). From these `LatestShowsOnePoll`,
  `FewBuckets`, `NothingWrongIsShown` and `NothingIsOmitted`.

- **CommandProofs** has three parts.

  *No index leaves its slice.* `FrameReadsInside` and `AnalogReadsInside`, for any
  digits and any payload; `AcceptedIsPlausible` and `SignedUndoesComplement` about
  what the parsers return. `DamageIsNoticed`: one character that changes in an
  accepted response, anywhere but in the three digits of the length, is refused or
  makes the checksum differ. The two checksums differ because the sums of the
  characters differ by no more than 22 and not at all only for equal digits
  (`ChangedChecksum`), and four digits hold 16 bits without loss (`HexIsInjective`).
  The sum is a recursive function. That it has values at all (`SumsAreSums`), and
  that the difference runs through it (`ChangedSum`), is shown by the least index at
  which it would fail, which the library's well-founded relations provide.

  *Parsing undoes what the BMS does.* `WhatIsMeasuredIsDecoded`, for every reading
  within the widths of the protocol: any number of cells and probes, any of the
  three lengths of a payload. `Lay(d, p, s)` says that the digits `s` stand in `d`
  behind position `p`. It is derived once for the parts of a frame (`FrameParts`) and
  once for the parts of a payload, whose fields begin where the cursor of
  `ParseAnalog` arrives; each field is then read where it was laid. The statement
  compares with `Meaning`, which knows nothing of digits.

  *A process.* `IInv` says at each point of the start-up which file and flags `cfg`
  was put together from, what has been checked, what is open and what was pruned;
  `LastWordCounts`, `ClosedAtTheEnd` and `PastIsPruned` follow for every file and all
  flags. The last two need that a product of positive numbers that fits into the
  int64 is positive still (`TickerIsSound`, `RetentionLooksBack`). `ReadInv` says of the last
  read, until the exit, how its error or sample relates to the answer on the line.
  A reply that was damaged is either refused (`DamageIsNoticed`, `LossIsNoticed`)
  or logged or has another length; one that was not is decoded to what it means.
  `PrintedIsMeasured` and `FailuresAreToldApart` follow. `ReadingsAssumption` plays
  a part in these two only.
- **DashboardProofs.** `IInv`: the watermark is the end of the axis; a load is in flight exactly
  while the controls are off, and asks for what they show; the axis that an answer
  brings ascends already. From it `AscendingAxis`, `SelectedIsShown`, and that two
  loads are never in flight together (`TypeCorrect`).

Every type invariant is proved, and every safety property that a passing run checks.
Model-checked only: the liveness properties (`SignalStops`, `SamplesArePersisted`,
`CableBackMeansPolling`, `ChartsCatchUp`), which need fairness and ENABLED.

## 5. What is not modelled

- The text of the SQL and SQLite itself: a query is atomic and sees one committed
  state, a transaction is atomic, and a power loss under `synchronous=NORMAL`
  leaves some state committed since the last checkpoint.
- In the store and its readers the values of samples; formatting, logging (but for
  the warning of a wrong checksum), JSON, YAML syntax, static files, query
  parameters (but for `from < to`), and which fields a range request picks beyond "pack" and
  "cells".
- Integers are unbounded but for the two products that `Config` wraps around: that
  `to - from` overflows int64 for absurd windows, or the poll interval as
  nanoseconds, is not covered.
- In `Cadence`, the duration of flush and prune and a corrected clock; in `Store`,
  the time between ticks. The two views are not composed.
- The listener that fails later than at start-up; a second signal.
- In `SerialClient` digits (they are in `Command`, which in turn leaves out when
  replies come); the time that writing and parsing take; a device that sends unasked. `MaxDelay`
  is an assumption about the device, and `SampleAnswersThisPoll` says nothing of
  one that answers later than the next poll begins.
- In `Command`: more than one damaged character in a reply, and characters of SOI
  and EOI (a frame without them times out, which `SerialClient` has); the units of
  the values beyond `Meaning`; how `serve` reacts to settings that `Validate`
  lets pass, such as a read timeout that is not positive.
- In `Dashboard`: the header, the values of the charts and their drawing; samples
  without cells, which `appendLive` passes over; a host clock that is corrected, or
  differs from the browser's.

## 6. Plan

Done, in this order: `SampleLog` and `Store` with their proofs; `PollLoop`;
`Serve`, which composes the two; `StoreReader`; `Cadence`; `SerialClient`;
`Codec`, `Config` and `Command`; `Dashboard`; the type invariants; the proofs about
the readers, about what `poll` prints and returns, and about which polls are heard.

Left, and worth doing next:

1. An abstract specification of `Poll` (an outcome within `MaxPoll`) that
   `SerialClient` implements and that `Cadence` and `PollLoop` use.
2. An abstract specification of the readers' answers, over `seen` and `lasting`.
3. A clock that is corrected in `Cadence`, with what `/api/health` then says.
