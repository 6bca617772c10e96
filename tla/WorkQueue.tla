------------------------------ MODULE WorkQueue -------------------------------
(***************************************************************************)
(* What the callers of run_on_main_thread are promised.  Work is done one  *)
(* job at a time in the order it was handed over; a call is answered with  *)
(* what its own job did, and only after the job did it, or it is told that *)
(* the wait was given up - in which case the job is still done in its      *)
(* turn.  There are no threads, events or queue here.                      *)
(***************************************************************************)
EXTENDS Integers

CONSTANT MaxJobs      \* bound: jobs handed over in a session

VARIABLES jobs,       \* how many were handed over: they are numbered 1 .. jobs
          performed,  \* how many of them are done
          outcome,    \* what each job did
          answer      \* what each job's caller was told

vars == <<jobs, performed, outcome, answer>>

Job == 1 .. MaxJobs

Init ==
  /\ jobs = 0
  /\ performed = 0
  /\ outcome = [j \in Job |-> "missing"]
  /\ answer = [j \in Job |-> "none"]

HandOver ==
  /\ jobs < MaxJobs
  /\ jobs' = jobs + 1
  /\ UNCHANGED <<performed, outcome, answer>>

Perform(o) ==
  /\ performed < jobs
  /\ performed' = performed + 1
  /\ outcome' = [outcome EXCEPT ![performed + 1] = o]
  /\ UNCHANGED <<jobs, answer>>

Tell(j) ==
  /\ j <= performed
  /\ answer[j] = "none"
  /\ answer' = [answer EXCEPT ![j] = outcome[j]]
  /\ UNCHANGED <<jobs, performed, outcome>>

GiveUp(j) ==
  /\ j <= jobs
  /\ answer[j] = "none"
  /\ answer' = [answer EXCEPT ![j] = "timeout"]
  /\ UNCHANGED <<jobs, performed, outcome>>

Next ==
  \/ HandOver
  \/ \E o \in {"value", "error"} : Perform(o)
  \/ \E j \in Job : Tell(j) \/ GiveUp(j)

Spec == Init /\ [][Next]_vars

===============================================================================
