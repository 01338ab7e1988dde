------------------------------ MODULE SampleLog ------------------------------
(***************************************************************************)
(* What the sample store promises, with no tables, transactions or buffer  *)
(* in sight: a sample is first held in memory, is made durable together    *)
(* with everything held beside it, and then stays until it is expired.     *)
(* A process that stops loses what is only in memory, and a power loss may *)
(* fall back to any state committed since the last checkpoint, never to a  *)
(* state that was not committed.  Store implements this module.            *)
(***************************************************************************)
EXTENDS Naturals

VARIABLES
  up,           \* is the process that holds the log running?
  accepted,     \* how many samples were ever handed over; they are 1..accepted
  pending,      \* samples held in memory only
  durable,      \* samples a reader of the database sees
  recoverable   \* the sets of samples that a power loss may leave behind

vars == <<up, accepted, pending, durable, recoverable>>

Sample == 1..accepted

TypeOK ==
  /\ up \in BOOLEAN
  /\ accepted \in Nat
  /\ pending \subseteq Sample
  /\ durable \subseteq Sample
  /\ recoverable \subseteq SUBSET Sample

Init ==
  /\ ~up
  /\ accepted = 0
  /\ pending = {}
  /\ durable = {}
  /\ recoverable = {{}}

Start ==
  /\ ~up
  /\ up' = TRUE
  /\ UNCHANGED <<accepted, pending, durable, recoverable>>

Accept ==
  /\ up
  /\ accepted' = accepted + 1
  /\ pending' = pending \cup {accepted'}
  /\ UNCHANGED <<up, durable, recoverable>>

\* A commit is at once visible; a power loss can undo it unless it was also
\* checkpointed.
Commit(d) ==
  /\ durable' = d
  /\ recoverable' \in {{d}, recoverable \cup {d}}

\* Everything pending becomes durable, or nothing does.
Persist ==
  /\ up
  /\ pending # {}
  /\ Commit(durable \cup pending)
  /\ pending' = {}
  /\ UNCHANGED <<up, accepted>>

Expire ==
  /\ up
  /\ \E gone \in SUBSET durable : Commit(durable \ gone)
  /\ UNCHANGED <<up, accepted, pending>>

Checkpoint ==
  /\ up
  /\ recoverable' = {durable}
  /\ UNCHANGED <<up, accepted, pending, durable>>

\* Only a stop loses what is pending.
Stop ==
  /\ up' = FALSE
  /\ pending' = {}
  /\ UNCHANGED <<accepted, durable, recoverable>>

PowerLoss ==
  /\ up' = FALSE
  /\ durable' \in recoverable
  /\ recoverable' = {durable'}
  /\ pending' = {}
  /\ UNCHANGED accepted

Next == Start \/ Accept \/ Persist \/ Expire \/ Checkpoint \/ Stop \/ PowerLoss

Spec == Init /\ [][Next]_vars
=============================================================================
