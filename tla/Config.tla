------------------------------- MODULE Config -------------------------------
(***************************************************************************)
(* The configuration of serve: defaults, a YAML document decoded over      *)
(* them, flags over both, the validation of the result, and what the       *)
(* ticker and the retention make of it.  Pure operators; Command runs them *)
(* in the order of runServe.                                               *)
(*                                                                         *)
(* A document, and a set of flags, is a function from the keys it gives to *)
(* their values.  Strings are reduced to what the code asks of them: empty *)
(* or not, an address that can be split into host and port, a known level. *)
(* Numbers are those of a build whose int has 64 bits.                     *)
(*                                                                         *)
(* An operator whose name says how it departs from the one that follows it *)
(* is a faulty variant, used by no action.                                 *)
(***************************************************************************)
EXTENDS Integers

CONSTANTS
  Int64Max,   \* the largest int64
  Second,     \* time.Second, in nanoseconds
  MsPerDay    \* msPerDay

ASSUME WidthAssumption ==
  Int64Max \in Nat /\ Second \in Nat \ {0} /\ MsPerDay \in Nat \ {0}

TextKeys == {"port", "path", "listen", "level"}
IntKeys == {"baud", "address", "read_timeout_ms", "interval_seconds", "retention_days",
            "flush_interval_seconds", "max_batch"}
Keys == TextKeys \cup IntKeys

\* The keys that a flag can override.
FlagKeys == Keys \ {"baud", "flush_interval_seconds", "max_batch"}

Levels == {"debug", "info", "warn", "error"}
Addresses == {":8080", "0.0.0.0:9090"}    \* what net.SplitHostPort accepts
Text == {"", "other"} \cup Levels \cup Addresses
           \cup {"/dev/ttyUSB0", "/var/lib/bms-monitor/samples.db"}

ValueOf(k) == IF k \in TextKeys THEN Text ELSE Int
\* Every function from some of the keys to values of their kind.
Given(c, K) == DOMAIN c \subseteq K /\ \A k \in DOMAIN c : c[k] \in ValueOf(k)

Defaults ==
  [k \in Keys |->
     CASE k = "port" -> "/dev/ttyUSB0"
       [] k = "baud" -> 9600
       [] k = "address" -> 0
       [] k = "read_timeout_ms" -> 2000
       [] k = "interval_seconds" -> 15
       [] k = "path" -> "/var/lib/bms-monitor/samples.db"
       [] k = "retention_days" -> 30
       [] k = "flush_interval_seconds" -> 10
       [] k = "max_batch" -> 50
       [] k = "listen" -> ":8080"
       [] k = "level" -> "info"]

-----------------------------------------------------------------------------
(* Load *)

\* What is at the path: nothing, something that cannot be opened, something that
\* is no such document, or a document (an empty file is one without keys).
Absent == [state |-> "absent", doc |-> <<>>]
Unreadable == [state |-> "unreadable", doc |-> <<>>]
NotYaml == [state |-> "malformed", doc |-> <<>>]
Document(doc) == [state |-> "document", doc |-> doc]

LoadFails(file, isDefaultPath) ==
  \/ file.state \in {"unreadable", "malformed"}
  \/ file.state = "absent" /\ ~isDefaultPath

\* Only the keys of the document are overwritten.
Decode(doc, base) == [k \in Keys |-> IF k \in DOMAIN doc THEN doc[k] ELSE base[k]]

\* A flag with the zero value of its type counts as one that was not given.
IsSet(flags, k) == k \in DOMAIN flags /\ flags[k] # (IF k \in TextKeys THEN "" ELSE 0)

ApplyOverrides(cfg, flags) ==
  [k \in Keys |-> IF k \in FlagKeys /\ IsSet(flags, k) THEN flags[k] ELSE cfg[k]]

LoadedFlagsFirst(file, flags) == Decode(file.doc, ApplyOverrides(Defaults, flags))

Loaded(file, flags) == ApplyOverrides(Decode(file.doc, Defaults), flags)

ForcedDebug(cfg) == [cfg EXCEPT !["level"] = "debug"]

-----------------------------------------------------------------------------
(* Validate *)

ValidForgetsFlush(cfg) ==
  /\ cfg["port"] # ""
  /\ cfg["interval_seconds"] > 0
  /\ cfg["retention_days"] >= 0
  /\ cfg["max_batch"] > 0
  /\ cfg["listen"] \in Addresses
  /\ cfg["level"] \in Levels

ValidForgetsRetention(cfg) ==
  /\ cfg["port"] # ""
  /\ cfg["interval_seconds"] > 0
  /\ cfg["flush_interval_seconds"] > 0
  /\ cfg["max_batch"] > 0
  /\ cfg["listen"] \in Addresses
  /\ cfg["level"] \in Levels

Valid(cfg) ==
  /\ cfg["port"] # ""
  /\ cfg["interval_seconds"] > 0
  /\ cfg["retention_days"] >= 0
  /\ cfg["flush_interval_seconds"] > 0
  /\ cfg["max_batch"] > 0
  /\ cfg["listen"] \in Addresses
  /\ cfg["level"] \in Levels

-----------------------------------------------------------------------------
(* What the parts of serve make of it *)

\* Go's int64 wraps around.
Int64(n) ==
  IF n \in -Int64Max - 1 .. Int64Max THEN n
  ELSE ((n + Int64Max + 1) % (2 * (Int64Max + 1))) - (Int64Max + 1)

\* The period of the flush ticker; time.NewTicker panics unless it is positive.
FlushInterval(cfg) == Int64(cfg["flush_interval_seconds"] * Second)

\* Prune's cutoff, when the clock says now.
CutoffAt(cfg, now) == Int64(now - Int64(cfg["retention_days"] * MsPerDay))
=============================================================================
