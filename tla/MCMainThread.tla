----------------------------- MODULE MCMainThread -----------------------------
(* MainThread with four jobs and calls of up to two gestures: a timed-out      *)
(* call, the one that follows it, a job queued behind a no-op and one of       *)
(* NVDA's own events fit into one behaviour.                                   *)
EXTENDS MainThread

===============================================================================
