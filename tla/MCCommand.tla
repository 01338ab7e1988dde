------------------------------ MODULE MCCommand ------------------------------
(* Small instance of Command: every key and every flag with good, zero and bad *)
(* values, and too large ones for an int64 scaled down to 16 bits, with a      *)
(* second of 1000 ns and a day of 100 ms; two keys of a file at a time and one *)
(* flag; five readings, each with every damage of one character.               *)
EXTENDS Command, TLC

Values ==
  [port |-> {"", "other"}, baud |-> {0, 19200}, address |-> {0, 1},
   read_timeout_ms |-> {0, 500}, interval_seconds |-> {-1, 0, 5},
   path |-> {"", "other"}, retention_days |-> {-1, 0, 7, 400},
   flush_interval_seconds |-> {0, 1, 40}, max_batch |-> {0, 9},
   listen |-> {"", "other", "0.0.0.0:9090"}, level |-> {"", "other", "warn"}]

Singles(K) == UNION {{k :> v : v \in Values[k]} : k \in K}

MCFiles ==
  {Absent, Unreadable, NotYaml, Document(<<>>)}
    \cup {Document(d @@ e) : d \in Singles(Keys), e \in Singles(Keys)}

Plain == [sub |-> "serve", flagsParse |-> "ok", format |-> "text", address |-> 0,
          isDefaultPath |-> TRUE, debug |-> FALSE, flags |-> <<>>]

MCInvocations ==
  {[Plain EXCEPT !.sub = s] : s \in {"none", "unknown", "poll"}}
    \cup {[Plain EXCEPT !.sub = s, !.flagsParse = f] : s \in {"poll", "serve"}, f \in {"help", "bad"}}
    \cup {[Plain EXCEPT !.sub = "poll", !.format = f, !.address = 300] : f \in {"json", "other"}}
    \cup {[Plain EXCEPT !.flags = g, !.debug = d, !.isDefaultPath = p] :
            g \in Singles(FlagKeys) \cup {<<>>}, d \in BOOLEAN, p \in BOOLEAN}

Normal == [cells |-> <<3300, 3290>>, temps |-> <<251, -40>>, current |-> -1000, volts |-> 5280,
           remain |-> 10000, full |-> 20000, cycles |-> 42, soc |-> 75, soh |-> 98,
           fields |-> "all"]
Extreme == [Normal EXCEPT !.cells = <<1000, 5000>>, !.temps = <<-501, 1500>>,
                          !.current = -32768, !.volts = 1000, !.remain = 65535, !.soc = 101]
Charging == [Normal EXCEPT !.cells = <<>>, !.temps = <<1501>>, !.current = 32767, !.volts = 6000,
                           !.fields = "full"]
Low == [Normal EXCEPT !.cells = <<999>>, !.temps = <<>>, !.fields = "main"]
\* With the digit 4 for 8 at the end of its length, the reply ends before the full
\* capacity, whose digits are then the right checksum.
Unlucky == [Normal EXCEPT !.full = 62945, !.fields = "full"]
MCReadings == {Normal, Extreme, Charging, Low, Unlucky}
=============================================================================
