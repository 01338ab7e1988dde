----------------------------- MODULE MCPollLoop -----------------------------
(* The default interval and the real backoff schedule. *)
EXTENDS PollLoop

MCBackoffSchedule == <<5, 10, 30, 60>>
=============================================================================
