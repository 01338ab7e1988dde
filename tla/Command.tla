------------------------------- MODULE Command -------------------------------
(***************************************************************************)
(* One run of the bms-monitor process, from its arguments to its exit      *)
(* code.  "poll" reads one sample through the serial client and prints it; *)
(* "serve" loads and validates its configuration, opens the store and the  *)
(* web server, and runs until it is stopped (what it does meanwhile is the *)
(* module Serve).                                                          *)
(*                                                                         *)
(* The serial line is shown as what one exchange gets to see: nothing, a   *)
(* failure of the port, or a reply of the BMS in which one character may   *)
(* have been changed or lost.  When replies come is SerialClient's matter. *)
(*                                                                         *)
(* An operator whose name says how it departs from the one that follows it *)
(* is a faulty variant, used by no action.                                 *)
(***************************************************************************)
EXTENDS Codec, Config

CONSTANTS
  Invocations,   \* the command lines
  Files,         \* what may be at the configuration path
  Readings,      \* what the BMS may have measured
  Rtns,          \* the return codes of its replies
  Attempts,      \* analogAttempts
  Now            \* what the clock says at startup, in ms

\* A command line: the subcommand, whether its flags can be parsed, and the flags.
InvocationOK(i) ==
  /\ i.sub \in {"none", "unknown", "poll", "serve"}
  /\ i.flagsParse \in {"ok", "help", "bad"}
  /\ i.format \in {"text", "json", "other"}
  /\ i.address \in Int
  /\ i.isDefaultPath \in BOOLEAN /\ i.debug \in BOOLEAN
  /\ Given(i.flags, FlagKeys)

FileOK(f) ==
  /\ f.state \in {"absent", "unreadable", "malformed", "document"}
  /\ Given(f.doc, Keys)
  /\ f.state # "document" => DOMAIN f.doc = {}

ASSUME InvocationsAssumption == \A i \in Invocations : InvocationOK(i)
ASSUME FilesAssumption == \A f \in Files : FileOK(f)
ASSUME AttemptsAssumption == Attempts \in Nat \ {0}
ASSUME RtnsAssumption == Rtns \subseteq Byte
ASSUME NowAssumption == Now \in 0..Int64Max

\* Fields have the widths of the protocol.  The code cuts larger counts and would
\* read on in the middle of a field, and it takes a payload of less than ten bytes
\* for a truncated one; packs of this protocol have at most 32 cells and 8 probes,
\* and at least one of either.
WordMax == 65535
Word == 0..WordMax
SignedWord == {n - 32768 : n \in Word}

ReadingOK(r) ==
  /\ r.cells \in Seq(Word) /\ Len(r.cells) <= MaxCells
  /\ r.temps \in Seq(Int) /\ Len(r.temps) <= MaxTemps
  /\ \A i \in DOMAIN r.temps : r.temps[i] + TempOffset \in Word
  /\ r.cells # <<>> \/ r.temps # <<>> \/ r.fields # "main"
  /\ r.fields \in {"main", "full", "all"}
  /\ r.current \in SignedWord
  /\ r.volts \in Word /\ r.remain \in Word /\ r.full \in Word
  /\ r.cycles \in Byte /\ r.soc \in Byte /\ r.soh \in Byte

ASSUME ReadingsAssumption == \A r \in Readings : ReadingOK(r)

VARIABLES
  pc,          \* where the process is
  inv,         \* its command line
  file,        \* the configuration file that it found
  cfg,         \* serve's configuration
  storeOpen,   \* the database is open
  cutoffs,     \* the cutoff of the startup prune, if there was one
  portOpen,    \* the serial port is open
  attempt,     \* number of the analog read
  err,         \* the error of the last one
  sample,      \* what Poll returned
  warned,      \* a checksum mismatch was logged
  printed,     \* the sample was written
  code,        \* exit code
  last         \* history: what the last analog read met

service == <<file, cfg, storeOpen, cutoffs>>
reading == <<attempt, err, sample, warned, last>>
vars == <<pc, inv, service, portOpen, reading, printed, code>>

NotYet == [kind |-> "nothing"]
Silence == [kind |-> "silence"]
PortFailure == [kind |-> "port"]

\* The answer that was read, and what became of it on the line.
Answer(r, rtn, sent, received) ==
  [kind |-> "answer", reading |-> r, rtn |-> rtn, damaged |-> received # sent,
   sameLength |-> InfoHexLen(received) = InfoHexLen(sent)]

ExitOK == 0
ExitGeneric == 1
ExitUsage == 2
ExitTimeout == 3
ExitFraming == 4
ExitBMS == 5
ExitImplausible == 6
ExitPanic == 2    \* of the Go runtime; nothing is closed

Init ==
  /\ pc = "main"
  /\ inv \in Invocations
  /\ file = Absent
  /\ cfg = Defaults
  /\ storeOpen = FALSE
  /\ cutoffs = {}
  /\ portOpen = FALSE
  /\ attempt = 0
  /\ err = "none"
  /\ sample = NoSample
  /\ warned = FALSE
  /\ printed = FALSE
  /\ code = -1
  /\ last = NotYet

Exits(c) ==
  /\ pc' = "exit"
  /\ code' = c

-----------------------------------------------------------------------------
(* main *)

Dispatch ==
  /\ pc = "main"
  /\ IF inv.sub \in {"poll", "serve"}
     THEN pc' = inv.sub /\ UNCHANGED code
     ELSE Exits(ExitUsage)
  /\ UNCHANGED <<inv, service, portOpen, reading, printed>>

ParseFlags ==
  /\ pc \in {"poll", "serve"}
  /\ CASE inv.flagsParse = "help" -> Exits(ExitOK)
       [] inv.flagsParse = "bad" -> Exits(ExitUsage)
       [] OTHER -> /\ pc' = IF pc = "poll" THEN "format" ELSE "load"
                   /\ UNCHANGED code
  /\ UNCHANGED <<inv, service, portOpen, reading, printed>>

-----------------------------------------------------------------------------
(* poll *)

CheckFormat ==
  /\ pc = "format"
  /\ IF inv.format = "other"
     THEN Exits(ExitUsage)
     ELSE pc' = "open" /\ UNCHANGED code
  /\ UNCHANGED <<inv, service, portOpen, reading, printed>>

OpenPort ==
  /\ pc = "open"
  /\ portOpen' = TRUE
  /\ pc' = "read"
  /\ attempt' = 1
  /\ UNCHANGED <<inv, service, err, sample, warned, last, printed, code>>

OpenPortFails ==
  /\ pc = "open"
  /\ Exits(ExitGeneric)
  /\ UNCHANGED <<inv, service, portOpen, reading, printed>>

\* The error of the last attempt is the one that Poll returns.
ReadFailsOnceMore(e, met) ==
  /\ err' = e
  /\ UNCHANGED sample
  /\ IF attempt <= Attempts
     THEN attempt' = attempt + 1 /\ last' = NotYet /\ UNCHANGED pc
     ELSE UNCHANGED attempt /\ last' = met /\ pc' = "report"

ReadFailsWith(e, met) ==
  /\ err' = e
  /\ UNCHANGED sample
  /\ IF attempt < Attempts
     THEN attempt' = attempt + 1 /\ last' = NotYet /\ UNCHANGED pc
     ELSE UNCHANGED attempt /\ last' = met /\ pc' = "report"

ReadFails ==
  /\ pc = "read"
  /\ \/ ReadFailsWith("timeout", Silence)
     \/ ReadFailsWith("serial", PortFailure)
  /\ UNCHANGED <<inv, service, portOpen, warned, printed, code>>

HexWords(ws) == [i \in 1..4 * Len(ws) |-> (ws[(i + 3) \div 4] \div Weight[((-i) % 4) + 1]) % 16]

\* The payload in which the BMS reports a reading; an older one leaves the last
\* fields out.
Payload(r) ==
  Hex(0, 2) \o Hex(Len(r.cells), 2) \o HexWords(r.cells)
    \o Hex(Len(r.temps), 2) \o HexWords([i \in DOMAIN r.temps |-> r.temps[i] + TempOffset])
    \o HexWords(<<r.current % 65536, r.volts, r.remain>>)
    \o (IF r.fields = "main" THEN <<>> ELSE Hex(5, 2) \o HexWords(<<r.full>>))
    \o (IF r.fields # "all" THEN <<>>
        ELSE Hex(0, 2) \o Hex(r.cycles, 2) \o Hex(r.soc, 2) \o Hex(r.soh, 2))

ReplyTo(addr, rtn, r) == Frame(addr % 256, rtn, IF rtn = RTNOk THEN Payload(r) ELSE <<>>)

\* The line changes a character into another digit, or into something that is
\* none and that cleanHexPayload drops.
Intact == [what |-> "nothing"]
Change(i, d) == [what |-> "change", at |-> i, to |-> d]
Loss(i) == [what |-> "loss", at |-> i]

\* What may happen to a reply of n digits.
OneCharacter(n) ==
  {Intact} \cup {Change(i, d) : i \in 1..n, d \in Digit} \cup {Loss(i) : i \in 1..n}

Received(digits, damage) ==
  CASE damage.what = "nothing" -> digits
    [] damage.what = "change" -> [digits EXCEPT ![damage.at] = damage.to]
    [] damage.what = "loss" -> SubSeq(digits, 1, damage.at - 1)
                                 \o SubSeq(digits, damage.at + 1, Len(digits))

ReadAnswer ==
  /\ pc = "read"
  /\ \E r \in Readings, rtn \in Rtns :
       LET sent == ReplyTo(inv.address, rtn, r) IN
       \E damage \in OneCharacter(Len(sent)) :
         LET received == Received(sent, damage)
             f == ParseFrame(received)
             a == ParseAnalog(f.info)
             met == Answer(r, rtn, sent, received)
         IN  /\ warned' = (warned \/ (f.err = "none" /\ ~f.checksumOK))
             /\ IF f.err # "none" THEN ReadFailsWith(f.err, met)
                ELSE IF a.err # "none" THEN ReadFailsWith(a.err, met)
                ELSE /\ sample' = a.sample
                     /\ err' = "none"
                     /\ pc' = "print"
                     /\ last' = met
                     /\ UNCHANGED attempt
  /\ UNCHANGED <<inv, service, portOpen, printed, code>>

ExitCodeSwapped(e) ==
  CASE e = "timeout" -> ExitTimeout
    [] e = "framing" -> ExitFraming
    [] e = "bms" -> ExitImplausible
    [] e = "implausible" -> ExitBMS
    [] OTHER -> ExitGeneric

ExitCode(e) ==
  CASE e = "timeout" -> ExitTimeout
    [] e = "framing" -> ExitFraming
    [] e = "bms" -> ExitBMS
    [] e = "implausible" -> ExitImplausible
    [] OTHER -> ExitGeneric

\* The deferred Close runs whichever way runPoll returns.
ReportError ==
  /\ pc = "report"
  /\ Exits(ExitCode(err))
  /\ portOpen' = FALSE
  /\ UNCHANGED <<inv, service, reading, printed>>

\* Only the JSON form looks at the error of writing.
PrintSample ==
  /\ pc = "print"
  /\ printed' \in BOOLEAN
  /\ Exits(IF inv.format = "json" /\ ~printed' THEN ExitGeneric ELSE ExitOK)
  /\ portOpen' = FALSE
  /\ UNCHANGED <<inv, service, reading>>

-----------------------------------------------------------------------------
(* serve *)

LoadConfig ==
  /\ pc = "load"
  /\ file' \in Files
  /\ IF LoadFails(file', inv.isDefaultPath)
     THEN Exits(ExitGeneric) /\ UNCHANGED cfg
     ELSE /\ cfg' = Loaded(file', inv.flags)
          /\ pc' = "validate"
          /\ UNCHANGED code
  /\ UNCHANGED <<inv, storeOpen, cutoffs, portOpen, reading, printed>>

ValidateConfig ==
  /\ pc = "validate"
  /\ cfg' = IF inv.debug THEN ForcedDebug(cfg) ELSE cfg
  /\ IF Valid(cfg')
     THEN pc' = "store" /\ UNCHANGED code
     ELSE Exits(ExitGeneric)
  /\ UNCHANGED <<inv, file, storeOpen, cutoffs, portOpen, reading, printed>>

OpenStore ==
  /\ pc = "store"
  /\ storeOpen' = TRUE
  /\ pc' = "web"
  /\ UNCHANGED <<inv, file, cfg, cutoffs, portOpen, reading, printed, code>>

OpenStoreFails ==
  /\ pc = "store"
  /\ Exits(ExitGeneric)
  /\ UNCHANGED <<inv, service, portOpen, reading, printed>>

StartWeb ==
  /\ pc = "web"
  /\ pc' = "prune"
  /\ UNCHANGED <<inv, service, portOpen, reading, printed, code>>

StartWebFails ==
  /\ pc = "web"
  /\ Exits(ExitGeneric)
  /\ storeOpen' = FALSE
  /\ UNCHANGED <<inv, file, cfg, cutoffs, portOpen, reading, printed>>

\* Whether its transaction succeeds or not, serve goes on.
StartupPrune ==
  /\ pc = "prune"
  /\ cutoffs' = IF cfg["retention_days"] = 0 THEN {} ELSE {CutoffAt(cfg, Now)}
  /\ pc' = "serial"
  /\ UNCHANGED <<inv, file, cfg, storeOpen, portOpen, reading, printed, code>>

\* A port that cannot be opened now is opened later: serve goes on.
OpenSerial ==
  /\ pc = "serial"
  /\ portOpen' \in BOOLEAN
  /\ pc' = "loop"
  /\ UNCHANGED <<inv, service, reading, printed, code>>

\* runLoop makes its tickers before it polls for the first time.
StartLoop ==
  /\ pc = "loop"
  /\ IF FlushInterval(cfg) > 0
     THEN pc' = "serving" /\ UNCHANGED code
     ELSE Exits(ExitPanic)
  /\ UNCHANGED <<inv, service, portOpen, reading, printed>>

\* The loop drops the port on an error and opens it again.
PortChanges ==
  /\ pc = "serving"
  /\ portOpen' = ~portOpen
  /\ UNCHANGED <<pc, inv, service, reading, printed, code>>

Stop ==
  /\ pc = "serving"
  /\ Exits(ExitOK)
  /\ storeOpen' = FALSE
  /\ portOpen' = FALSE
  /\ UNCHANGED <<inv, file, cfg, cutoffs, reading, printed>>

Next ==
  \/ Dispatch \/ ParseFlags
  \/ CheckFormat \/ OpenPort \/ OpenPortFails \/ ReadFails \/ ReadAnswer
  \/ ReportError \/ PrintSample
  \/ LoadConfig \/ ValidateConfig \/ OpenStore \/ OpenStoreFails
  \/ StartWeb \/ StartWebFails \/ StartupPrune \/ OpenSerial \/ StartLoop
  \/ PortChanges \/ Stop

Spec == Init /\ [][Next]_vars

-----------------------------------------------------------------------------
(* Correctness *)

\* Type invariant.
TypeOK ==
  /\ pc \in {"main", "poll", "serve", "format", "open", "read", "report", "print",
             "load", "validate", "store", "web", "prune", "serial", "loop", "serving", "exit"}
  /\ inv \in Invocations /\ FileOK(file)
  /\ DOMAIN cfg = Keys /\ \A k \in Keys : cfg[k] \in ValueOf(k)
  /\ storeOpen \in BOOLEAN /\ cutoffs \subseteq Int /\ portOpen \in BOOLEAN
  /\ attempt \in 0..Attempts
  /\ err \in {"none", "timeout", "serial", "framing", "bms", "implausible"}
  /\ warned \in BOOLEAN /\ printed \in BOOLEAN
  /\ code \in -1..6

FlushOverflows == cfg["flush_interval_seconds"] * Second > Int64Max

\* A process that ends has closed its database and its port, whatever file and
\* flags its settings came from: no interval that Validate lets pass makes a
\* ticker panic, unless it overflows when it is turned into nanoseconds.

EndsClosedOrOverflowed ==
  pc = "exit" => \/ ~storeOpen /\ ~portOpen
                 \/ code = ExitPanic /\ FlushOverflows

\* The startup prune deletes no sample of this moment, nor one that is stamped
\* later, whatever file and flags the retention came from, unless its days
\* overflow when they are turned into milliseconds.
CutoffIsPast == \A c \in cutoffs : c <= Now

RetentionOverflows == cfg["retention_days"] * MsPerDay > Int64Max

CutoffIsPastOrOverflowed == CutoffIsPast \/ RetentionOverflows

\* "CLI flags override config values, which override the built-in defaults":
\* whoever gives a key last has it, where a flag says something if it is not
\* zero, and --debug outdoes them all.
SaidBy(k) ==
  CASE inv.debug /\ k = "level" -> "debug"
    [] ~(inv.debug /\ k = "level") /\ k \in FlagKeys /\ IsSet(inv.flags, k) -> inv.flags[k]
    [] OTHER -> IF k \in DOMAIN file.doc THEN file.doc[k] ELSE Defaults[k]

FlagBeatsFileBeatsDefault == storeOpen => \A k \in Keys : cfg[k] = SaidBy(k)

\* What a reading means for a sample: values in the sample's units, probes out of
\* range left out, secondary values out of range zero, as are fields not sent.
Meaning(r) ==
  [cells |-> r.cells,
   temps |-> [i \in {j \in DOMAIN r.temps : r.temps[j] \in DeciCMin..DeciCMax} |-> r.temps[i]],
   ma |-> IF 10 * r.current \in -CurrentMAMax..CurrentMAMax THEN 10 * r.current ELSE 0,
   mv |-> 10 * r.volts, remain |-> 10 * r.remain,
   full |-> IF r.fields = "main" THEN 0 ELSE 10 * r.full,
   cycles |-> IF r.fields = "all" THEN r.cycles ELSE 0,
   soc |-> IF r.fields = "all" /\ r.soc \in 0..100 THEN r.soc ELSE 0,
   soh |-> IF r.fields = "all" /\ r.soh \in 0..100 THEN r.soh ELSE 0]

\* The sample that is printed is what the BMS measured in that reply, unless a
\* character of the reply was damaged: then the mismatch has been logged,
\* although the sample is used.  Damage to the length itself may go unnoticed: the
\* nibble that protects it is not looked at, and the digits where the shorter
\* reply has its checksum may happen to be the right ones.
SampleIsMeasuredOrWarned ==
  printed => IF last.damaged THEN last.sameLength => warned
                             ELSE sample = Meaning(last.reading)

\* A failed poll: callers can tell the failure modes apart by the exit code, which
\* names what the last attempt met and not an earlier one.  A damaged reply may
\* look like any of the failures of a reply, but not like a silent bus.
PlausibleReading(r) ==
  /\ \A i \in DOMAIN r.cells : r.cells[i] \in CellMVMin..CellMVMax
  /\ 10 * r.volts \in PackMVMin..PackMVMax

CodeOfAnswer ==
  IF last.damaged THEN {ExitFraming, ExitBMS, ExitImplausible}
  ELSE IF last.rtn # RTNOk THEN {ExitBMS}
  ELSE IF ~PlausibleReading(last.reading) THEN {ExitImplausible}
  ELSE {}

ExitCodeTells ==
  pc = "exit" /\ attempt > 0 =>
    CASE last.kind = "silence" -> code = ExitTimeout
      [] last.kind = "port" -> code = ExitGeneric
      [] last.kind = "answer" -> \/ code \in CodeOfAnswer
                                 \/ sample # NoSample /\ (printed => code = ExitOK)
=============================================================================
