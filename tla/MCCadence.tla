------------------------------ MODULE MCCadence ------------------------------
(* The default poll interval and the backoff schedule, in seconds, with a    *)
(* flush interval that is shorter than a poll may be, so that ticks drop.    *)
EXTENDS Cadence

MCWaits == {5, 10, 15, 30, 60}
=============================================================================
