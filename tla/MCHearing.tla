------------------------------- MODULE MCHearing -------------------------------
(* Hearing with a log smaller than the speech of the session.                  *)
EXTENDS Hearing

===============================================================================
