--------------------------- MODULE MainThreadProofs ----------------------------
(***************************************************************************)
(* Proofs about MainThread, for every number of jobs and length of text.   *)
(*                                                                         *)
(* The argument: jobs are numbered in queue order, so "the first Performed *)
(* jobs are over" (DoneInOrder) is a number, and every promise reduces to  *)
(* comparing numbers.  IInv adds what the RPC thread knows at each line of *)
(* run_on_main_thread; one lemma per action shows that it is preserved.    *)
(***************************************************************************)
EXTENDS MainThread, SequenceTheorems, TLAPS

USE BoundsAssumption

\* While run_on_main_thread waits for a job or reports on it, that is a real job.
LEMMA WaitedJob ==
  ASSUME IInv, rpc \in {"waiting", "expired", "report", "collect", "record"}
  PROVE  mine \in Job
<1>1. jobs \in 0 .. MaxJobs
  BY DEF IInv, TypeOK
<1>2. mine \in 1 .. jobs
  BY DEF IInv, WaitsForItsOwn
<1>3. QED BY <1>1, <1>2 DEF Job

\* The job the main thread has in hand is the one it took last, and it is the only one
\* besides the queued ones that may not be over.
LEMMA JobInHand ==
  ASSUME IInv, main # "drained"
  PROVE  /\ current \in Job /\ current = jobs - Len(queue) /\ current <= jobs
         /\ Len(queue) \in Nat /\ jobs \in Nat
         /\ main \in {"taken", "running"} => Performed = current - 1
         /\ main \notin {"taken", "running"} => Performed = current
<1>1. queue \in Seq(Job) /\ jobs \in 0 .. MaxJobs
  BY DEF IInv, TypeOK
<1>2. Len(queue) \in Nat
  BY <1>1, LenProperties
<1>3. jobs - Len(queue) >= 1 /\ current = jobs - Len(queue)
  BY DEF IInv, QueueInOrder, Taken
<1>4. QED BY <1>1, <1>2, <1>3 DEF Performed, Job

\* The job being run has no outcome yet.
LEMMA NotDoneYet ==
  ASSUME IInv, main \in {"taken", "running"}
  PROVE  outcome[current] = "missing"
<1>1. main # "drained"
  OBVIOUS
<1>2. current \in Job /\ ~(current <= Performed)
  BY <1>1, JobInHand DEF Job
<1>3. QED BY <1>2 DEF IInv, DoneInOrder, Done

\* finished.wait returns True (mainthread.py:44).
LEMMA WakeInv == IInv /\ Wake => IInv'
<1> SUFFICES ASSUME IInv, Wake PROVE IInv'
  OBVIOUS
<1>1. TypeOK'
  BY DEF Wake, mainVars, eventVars, IInv, TypeOK, RpcStates, MainStates
<1>2. QueueInOrder'
  BY DEF Wake, mainVars, eventVars, IInv, TypeOK, QueueInOrder, Taken
<1>3. DoneInOrder'
  BY DEF Wake, mainVars, eventVars, IInv, TypeOK, DoneInOrder, Done, Performed
<1>4. WaitsForItsOwn'
  BY DEF Wake, mainVars, eventVars, IInv, TypeOK, WaitsForItsOwn
<1>5. RoomLeft'
  BY DEF Wake, mainVars, eventVars, IInv, TypeOK, WaitsForItsOwn, RoomLeft
<1>6. LoggedAreTimedOut'
  BY DEF Wake, mainVars, eventVars, IInv, TypeOK, WaitsForItsOwn, LoggedAreTimedOut, Awaited
<1>7. SentInOrder'
  BY DEF Wake, mainVars, eventVars, IInv, TypeOK, WaitsForItsOwn, SentInOrder, SentWasProcessed
<1>8. QED BY <1>1, <1>2, <1>3, <1>4, <1>5, <1>6, <1>7 DEF IInv

\* finished.wait returns False (mainthread.py:44).
LEMMA ExpireInv == IInv /\ Expire => IInv'
<1> SUFFICES ASSUME IInv, Expire PROVE IInv'
  OBVIOUS
<1>1. TypeOK'
  BY DEF Expire, mainVars, eventVars, IInv, TypeOK, RpcStates, MainStates
<1>2. QueueInOrder'
  BY DEF Expire, mainVars, eventVars, IInv, TypeOK, QueueInOrder, Taken
<1>3. DoneInOrder'
  BY DEF Expire, mainVars, eventVars, IInv, TypeOK, DoneInOrder, Done, Performed
<1>4. WaitsForItsOwn'
  BY DEF Expire, mainVars, eventVars, IInv, TypeOK, WaitsForItsOwn
<1>5. RoomLeft'
  BY DEF Expire, mainVars, eventVars, IInv, TypeOK, WaitsForItsOwn, RoomLeft
<1>6. LoggedAreTimedOut'
  BY DEF Expire, mainVars, eventVars, IInv, TypeOK, WaitsForItsOwn, LoggedAreTimedOut, Awaited
<1>7. SentInOrder'
  BY DEF Expire, mainVars, eventVars, IInv, TypeOK, WaitsForItsOwn, SentInOrder, SentWasProcessed
<1>8. QED BY <1>1, <1>2, <1>3, <1>4, <1>5, <1>6, <1>7 DEF IInv

\* timed_out.set() (mainthread.py:45).
LEMMA GiveUpInv == IInv /\ GiveUp => IInv'
<1> SUFFICES ASSUME IInv, GiveUp PROVE IInv'
  OBVIOUS
<1>0. mine \in Job
  BY WaitedJob DEF GiveUp
<1>1. TypeOK'
  BY <1>0 DEF GiveUp, mainVars, eventVars, IInv, TypeOK, RpcStates, MainStates
<1>2. QueueInOrder'
  BY <1>0 DEF GiveUp, mainVars, eventVars, IInv, TypeOK, QueueInOrder, Taken
<1>3. DoneInOrder'
  BY <1>0 DEF GiveUp, mainVars, eventVars, IInv, TypeOK, DoneInOrder, Done, Performed
<1>4. WaitsForItsOwn'
  BY <1>0 DEF GiveUp, mainVars, eventVars, IInv, TypeOK, WaitsForItsOwn
<1>5. RoomLeft'
  BY <1>0 DEF GiveUp, mainVars, eventVars, IInv, TypeOK, WaitsForItsOwn, RoomLeft
<1>6. LoggedAreTimedOut'
  <2>1. mine' = mine /\ answer' = answer /\ timedOut' = timedOut \cup {mine} /\ rpc' = "report"
        /\ UNCHANGED <<logged, jobs, kind>>
    BY DEF GiveUp, eventVars
  <2>2. answer[mine] = "none" /\ mine \in Int
    BY <1>0 DEF GiveUp, IInv, WaitsForItsOwn, Job
  <2>3. QED BY <2>1, <2>2 DEF IInv, LoggedAreTimedOut, Awaited
<1>7. SentInOrder'
  BY <1>0 DEF GiveUp, mainVars, eventVars, IInv, TypeOK, WaitsForItsOwn, SentInOrder, SentWasProcessed
<1>8. QED BY <1>1, <1>2, <1>3, <1>4, <1>5, <1>6, <1>7 DEF IInv

\* The TimeoutError of a wait that was given up (mainthread.py:46-56).
LEMMA ReportInv == IInv /\ Report => IInv'
<1> SUFFICES ASSUME IInv, Report PROVE IInv'
  OBVIOUS
<1>0. mine \in Job
  BY WaitedJob DEF Report, Fail
<1>1. TypeOK'
  BY <1>0 DEF Report, Fail, mainVars, eventVars, IInv, TypeOK, RpcStates, MainStates
<1>2. QueueInOrder'
  BY <1>0 DEF Report, Fail, mainVars, eventVars, IInv, TypeOK, QueueInOrder, Taken
<1>3. DoneInOrder'
  BY <1>0 DEF Report, Fail, mainVars, eventVars, IInv, TypeOK, DoneInOrder, Done, Performed
<1>4. WaitsForItsOwn'
  BY <1>0 DEF Report, Fail, mainVars, eventVars, IInv, TypeOK, WaitsForItsOwn
<1>5. RoomLeft'
  <2>1. left' = 0 /\ jobs' = jobs /\ rpc' = "ready"
    BY DEF Report, Fail
  <2>2. jobs \in 0 .. MaxJobs
    BY DEF IInv, TypeOK
  <2>3. QED BY <2>1, <2>2 DEF RoomLeft
<1>6. LoggedAreTimedOut'
  BY <1>0 DEF Report, Fail, mainVars, eventVars, IInv, TypeOK, WaitsForItsOwn, LoggedAreTimedOut, Awaited
<1>7. SentInOrder'
  BY <1>0 DEF Report, Fail, mainVars, eventVars, IInv, TypeOK, WaitsForItsOwn, SentInOrder, SentWasProcessed
<1>8. QED BY <1>1, <1>2, <1>3, <1>4, <1>5, <1>6, <1>7 DEF IInv

\* The job's own failure, raised to its caller (mainthread.py:57-58).
LEMMA ReraiseInv == IInv /\ Reraise => IInv'
<1> SUFFICES ASSUME IInv, Reraise PROVE IInv'
  OBVIOUS
<1>0. mine \in Job
  BY WaitedJob DEF Reraise, Fail
<1>1. TypeOK'
  BY <1>0 DEF Reraise, Fail, mainVars, eventVars, IInv, TypeOK, RpcStates, MainStates
<1>2. QueueInOrder'
  BY <1>0 DEF Reraise, Fail, mainVars, eventVars, IInv, TypeOK, QueueInOrder, Taken
<1>3. DoneInOrder'
  BY <1>0 DEF Reraise, Fail, mainVars, eventVars, IInv, TypeOK, DoneInOrder, Done, Performed
<1>4. WaitsForItsOwn'
  BY <1>0 DEF Reraise, Fail, mainVars, eventVars, IInv, TypeOK, WaitsForItsOwn
<1>5. RoomLeft'
  <2>1. left' = 0 /\ jobs' = jobs /\ rpc' = "ready"
    BY DEF Reraise, Fail
  <2>2. jobs \in 0 .. MaxJobs
    BY DEF IInv, TypeOK
  <2>3. QED BY <2>1, <2>2 DEF RoomLeft
<1>6. LoggedAreTimedOut'
  BY <1>0 DEF Reraise, Fail, mainVars, eventVars, IInv, TypeOK, WaitsForItsOwn, LoggedAreTimedOut, Awaited
<1>7. SentInOrder'
  BY <1>0 DEF Reraise, Fail, mainVars, eventVars, IInv, TypeOK, WaitsForItsOwn, SentInOrder, SentWasProcessed
<1>8. QED BY <1>1, <1>2, <1>3, <1>4, <1>5, <1>6, <1>7 DEF IInv

\* The job's value, returned to its caller (mainthread.py:59).
LEMMA ReturnInv == IInv /\ Return => IInv'
<1> SUFFICES ASSUME IInv, Return PROVE IInv'
  OBVIOUS
<1>0. mine \in Job
  BY WaitedJob DEF Return
<1>1. TypeOK'
  BY <1>0 DEF Return, mainVars, eventVars, IInv, TypeOK, RpcStates, MainStates
<1>2. QueueInOrder'
  BY <1>0 DEF Return, mainVars, eventVars, IInv, TypeOK, QueueInOrder, Taken
<1>3. DoneInOrder'
  BY <1>0 DEF Return, mainVars, eventVars, IInv, TypeOK, DoneInOrder, Done, Performed
<1>4. WaitsForItsOwn'
  BY <1>0 DEF Return, mainVars, eventVars, IInv, TypeOK, WaitsForItsOwn
<1>5. RoomLeft'
  BY <1>0 DEF Return, mainVars, eventVars, IInv, TypeOK, WaitsForItsOwn, RoomLeft
<1>6. LoggedAreTimedOut'
  BY <1>0 DEF Return, mainVars, eventVars, IInv, TypeOK, WaitsForItsOwn, LoggedAreTimedOut, Awaited
<1>7. SentInOrder'
  BY <1>0 DEF Return, mainVars, eventVars, IInv, TypeOK, WaitsForItsOwn, SentInOrder, SentWasProcessed
<1>8. QED BY <1>1, <1>2, <1>3, <1>4, <1>5, <1>6, <1>7 DEF IInv

\* wait_until_idle looks at the queue (server.py:119).
LEMMA LookAtQueueInv == IInv /\ LookAtQueue => IInv'
<1> SUFFICES ASSUME IInv, LookAtQueue PROVE IInv'
  OBVIOUS
<1>1. TypeOK'
  BY DEF LookAtQueue, mainVars, eventVars, IInv, TypeOK, RpcStates, MainStates
<1>2. QueueInOrder'
  BY DEF LookAtQueue, mainVars, eventVars, IInv, TypeOK, QueueInOrder, Taken
<1>3. DoneInOrder'
  BY DEF LookAtQueue, mainVars, eventVars, IInv, TypeOK, DoneInOrder, Done, Performed
<1>4. WaitsForItsOwn'
  BY DEF LookAtQueue, mainVars, eventVars, IInv, TypeOK, WaitsForItsOwn
<1>5. RoomLeft'
  BY DEF LookAtQueue, mainVars, eventVars, IInv, TypeOK, WaitsForItsOwn, RoomLeft
<1>6. LoggedAreTimedOut'
  BY DEF LookAtQueue, mainVars, eventVars, IInv, TypeOK, WaitsForItsOwn, LoggedAreTimedOut, Awaited
<1>7. SentInOrder'
  BY DEF LookAtQueue, mainVars, eventVars, IInv, TypeOK, WaitsForItsOwn, SentInOrder, SentWasProcessed
<1>8. QED BY <1>1, <1>2, <1>3, <1>4, <1>5, <1>6, <1>7 DEF IInv

\* started.set() (mainthread.py:33).
LEMMA StartInv == IInv /\ Start => IInv'
<1> SUFFICES ASSUME IInv, Start PROVE IInv'
  OBVIOUS
<1>0. current \in Job /\ current <= jobs
  BY JobInHand DEF Start
<1>1. TypeOK'
  BY <1>0 DEF Start, rpcVars, IInv, TypeOK, RpcStates, MainStates
<1>2. QueueInOrder'
  BY <1>0 DEF Start, rpcVars, IInv, TypeOK, QueueInOrder, Taken
<1>3. DoneInOrder'
  BY <1>0 DEF Start, rpcVars, IInv, TypeOK, DoneInOrder, Done, Performed
<1>4. WaitsForItsOwn'
  BY <1>0 DEF Start, rpcVars, IInv, TypeOK, WaitsForItsOwn
<1>5. RoomLeft'
  BY <1>0 DEF Start, rpcVars, IInv, TypeOK, WaitsForItsOwn, RoomLeft
<1>6. LoggedAreTimedOut'
  BY <1>0 DEF Start, rpcVars, IInv, TypeOK, WaitsForItsOwn, LoggedAreTimedOut, Awaited
<1>7. SentInOrder'
  BY <1>0 DEF Start, rpcVars, IInv, TypeOK, WaitsForItsOwn, SentInOrder, SentWasProcessed
<1>8. QED BY <1>1, <1>2, <1>3, <1>4, <1>5, <1>6, <1>7 DEF IInv

\* The job's function returns (mainthread.py:35).
LEMMA CompleteInv == IInv /\ Complete => IInv'
<1> SUFFICES ASSUME IInv, Complete PROVE IInv'
  OBVIOUS
<1>0. current \in Job /\ current <= jobs
  BY JobInHand DEF Complete
<1>1. TypeOK'
  BY <1>0 DEF Complete, rpcVars, IInv, TypeOK, RpcStates, MainStates
<1>2. QueueInOrder'
  BY <1>0 DEF Complete, rpcVars, IInv, TypeOK, QueueInOrder, Taken
<1>3. DoneInOrder'
  <2>1. main = "running" /\ main' \in {"raised", "finishing", "drained"}
        /\ jobs' = jobs /\ queue' = queue /\ UNCHANGED <<finished, answer>>
    BY DEF Complete, eventVars
  <2>2. Performed = current - 1 /\ Performed' = current
    BY <1>0, <2>1, JobInHand DEF Performed
  <2>3. \A j \in Job : Done(j)' <=> Done(j) \/ j = current
    <3>1. outcome \in [Job -> {"missing", "value", "error"}]
      BY DEF IInv, TypeOK
    <3>2. outcome' = [outcome EXCEPT ![current] = "value"]
      BY DEF Complete
    <3>3. QED BY <1>0, <3>1, <3>2 DEF Done
  <2>4. DoneInOrder
    BY DEF IInv
  <2>5. \A j \in Job : Done(j)' <=> j <= current
    BY <1>0, <2>2, <2>3, <2>4 DEF DoneInOrder, Job
  <2>6. \A j \in Job : Done(j) => Done(j)'
    BY <2>3
  <2>7. finished \subseteq Job
    BY DEF IInv, TypeOK
  <2>8. QED BY <2>1, <2>2, <2>4, <2>5, <2>6, <2>7 DEF DoneInOrder
<1>4. WaitsForItsOwn'
  <2>1. rpc = "record" => mine # current
    <3>1. outcome[current] = "missing"
      BY NotDoneYet DEF Complete
    <3>2. rpc = "record" => outcome[mine] = "value"
      BY DEF IInv, WaitsForItsOwn
    <3>3. QED BY <3>1, <3>2
  <2>2. rpc = "record" => outcome'[mine] = outcome[mine]
    BY <2>1, WaitedJob DEF Complete, IInv, TypeOK
  <2>3. UNCHANGED <<rpc, call, mine, jobs, kind, finished, answer>>
    BY DEF Complete, rpcVars
  <2>4. WaitsForItsOwn
    BY DEF IInv
  <2>5. QED BY <2>2, <2>3, <2>4 DEF WaitsForItsOwn
<1>5. RoomLeft'
  BY <1>0 DEF Complete, rpcVars, IInv, TypeOK, WaitsForItsOwn, RoomLeft
<1>6. LoggedAreTimedOut'
  BY <1>0 DEF Complete, rpcVars, IInv, TypeOK, WaitsForItsOwn, LoggedAreTimedOut, Awaited
<1>7. SentInOrder'
  <2>1. \A i \in 1 .. Len(sent) : sent[i] # current
    <3>1. outcome[current] = "missing"
      BY NotDoneYet DEF Complete
    <3>2. \A i \in 1 .. Len(sent) : outcome[sent[i]] = "value"
      BY DEF IInv, SentInOrder, SentWasProcessed
    <3>3. QED BY <3>1, <3>2
  <2>2. \A i \in 1 .. Len(sent) : outcome'[sent[i]] = outcome[sent[i]]
    <3>1. outcome \in [Job -> {"missing", "value", "error"}] /\ sent \in Seq(Job)
      BY DEF IInv, TypeOK
    <3>2. \A i \in 1 .. Len(sent) : sent[i] \in Job
      BY <3>1, ElementOfSeq
    <3>3. QED BY <2>1, <3>1, <3>2 DEF Complete
  <2>3. UNCHANGED <<rpc, call, mine, kind, sent>>
    BY DEF Complete, rpcVars
  <2>4. SentInOrder
    BY DEF IInv
  <2>5. QED BY <2>2, <2>3, <2>4 DEF SentInOrder, SentWasProcessed
<1>8. QED BY <1>1, <1>2, <1>3, <1>4, <1>5, <1>6, <1>7 DEF IInv

\* The job's function raises (mainthread.py:36-37).
LEMMA RaiseInv == IInv /\ Raise => IInv'
<1> SUFFICES ASSUME IInv, Raise PROVE IInv'
  OBVIOUS
<1>0. current \in Job /\ current <= jobs
  BY JobInHand DEF Raise
<1>1. TypeOK'
  BY <1>0 DEF Raise, rpcVars, IInv, TypeOK, RpcStates, MainStates
<1>2. QueueInOrder'
  BY <1>0 DEF Raise, rpcVars, IInv, TypeOK, QueueInOrder, Taken
<1>3. DoneInOrder'
  <2>1. main = "running" /\ main' \in {"raised", "finishing", "drained"}
        /\ jobs' = jobs /\ queue' = queue /\ UNCHANGED <<finished, answer>>
    BY DEF Raise, eventVars
  <2>2. Performed = current - 1 /\ Performed' = current
    BY <1>0, <2>1, JobInHand DEF Performed
  <2>3. \A j \in Job : Done(j)' <=> Done(j) \/ j = current
    <3>1. outcome \in [Job -> {"missing", "value", "error"}]
      BY DEF IInv, TypeOK
    <3>2. outcome' = [outcome EXCEPT ![current] = "error"]
      BY DEF Raise
    <3>3. QED BY <1>0, <3>1, <3>2 DEF Done
  <2>4. DoneInOrder
    BY DEF IInv
  <2>5. \A j \in Job : Done(j)' <=> j <= current
    BY <1>0, <2>2, <2>3, <2>4 DEF DoneInOrder, Job
  <2>6. \A j \in Job : Done(j) => Done(j)'
    BY <2>3
  <2>7. finished \subseteq Job
    BY DEF IInv, TypeOK
  <2>8. QED BY <2>1, <2>2, <2>4, <2>5, <2>6, <2>7 DEF DoneInOrder
<1>4. WaitsForItsOwn'
  <2>1. rpc = "record" => mine # current
    <3>1. outcome[current] = "missing"
      BY NotDoneYet DEF Raise
    <3>2. rpc = "record" => outcome[mine] = "value"
      BY DEF IInv, WaitsForItsOwn
    <3>3. QED BY <3>1, <3>2
  <2>2. rpc = "record" => outcome'[mine] = outcome[mine]
    BY <2>1, WaitedJob DEF Raise, IInv, TypeOK
  <2>3. UNCHANGED <<rpc, call, mine, jobs, kind, finished, answer>>
    BY DEF Raise, rpcVars
  <2>4. WaitsForItsOwn
    BY DEF IInv
  <2>5. QED BY <2>2, <2>3, <2>4 DEF WaitsForItsOwn
<1>5. RoomLeft'
  BY <1>0 DEF Raise, rpcVars, IInv, TypeOK, WaitsForItsOwn, RoomLeft
<1>6. LoggedAreTimedOut'
  BY <1>0 DEF Raise, rpcVars, IInv, TypeOK, WaitsForItsOwn, LoggedAreTimedOut, Awaited
<1>7. SentInOrder'
  <2>1. \A i \in 1 .. Len(sent) : sent[i] # current
    <3>1. outcome[current] = "missing"
      BY NotDoneYet DEF Raise
    <3>2. \A i \in 1 .. Len(sent) : outcome[sent[i]] = "value"
      BY DEF IInv, SentInOrder, SentWasProcessed
    <3>3. QED BY <3>1, <3>2
  <2>2. \A i \in 1 .. Len(sent) : outcome'[sent[i]] = outcome[sent[i]]
    <3>1. outcome \in [Job -> {"missing", "value", "error"}] /\ sent \in Seq(Job)
      BY DEF IInv, TypeOK
    <3>2. \A i \in 1 .. Len(sent) : sent[i] \in Job
      BY <3>1, ElementOfSeq
    <3>3. QED BY <2>1, <3>1, <3>2 DEF Raise
  <2>3. UNCHANGED <<rpc, call, mine, kind, sent>>
    BY DEF Raise, rpcVars
  <2>4. SentInOrder
    BY DEF IInv
  <2>5. QED BY <2>2, <2>3, <2>4 DEF SentInOrder, SentWasProcessed
<1>8. QED BY <1>1, <1>2, <1>3, <1>4, <1>5, <1>6, <1>7 DEF IInv

\* The failure is logged when its caller is gone (mainthread.py:38-39).
LEMMA LogIfTimedOutInv == IInv /\ LogIfTimedOut => IInv'
<1> SUFFICES ASSUME IInv, LogIfTimedOut PROVE IInv'
  OBVIOUS
<1>0. current \in Job /\ current <= jobs
  BY JobInHand DEF LogIfTimedOut
<1>1. TypeOK'
  BY <1>0 DEF LogIfTimedOut, rpcVars, IInv, TypeOK, RpcStates, MainStates
<1>2. QueueInOrder'
  BY <1>0 DEF LogIfTimedOut, rpcVars, IInv, TypeOK, QueueInOrder, Taken
<1>3. DoneInOrder'
  BY <1>0 DEF LogIfTimedOut, rpcVars, IInv, TypeOK, DoneInOrder, Done, Performed
<1>4. WaitsForItsOwn'
  BY <1>0 DEF LogIfTimedOut, rpcVars, IInv, TypeOK, WaitsForItsOwn
<1>5. RoomLeft'
  BY <1>0 DEF LogIfTimedOut, rpcVars, IInv, TypeOK, WaitsForItsOwn, RoomLeft
<1>6. LoggedAreTimedOut'
  BY <1>0 DEF LogIfTimedOut, rpcVars, IInv, TypeOK, WaitsForItsOwn, LoggedAreTimedOut, Awaited
<1>7. SentInOrder'
  BY <1>0 DEF LogIfTimedOut, rpcVars, IInv, TypeOK, WaitsForItsOwn, SentInOrder, SentWasProcessed
<1>8. QED BY <1>1, <1>2, <1>3, <1>4, <1>5, <1>6, <1>7 DEF IInv

\* finished.set() (mainthread.py:41).
LEMMA FinishInv == IInv /\ Finish => IInv'
<1> SUFFICES ASSUME IInv, Finish PROVE IInv'
  OBVIOUS
<1>0. current \in Job /\ current <= jobs
  BY JobInHand DEF Finish
<1>1. TypeOK'
  BY <1>0 DEF Finish, rpcVars, IInv, TypeOK, RpcStates, MainStates
<1>2. QueueInOrder'
  BY <1>0 DEF Finish, rpcVars, IInv, TypeOK, QueueInOrder, Taken
<1>3. DoneInOrder'
  <2>1. Done(current)
    BY JobInHand DEF Finish, IInv, DoneInOrder, Performed
  <2>2. QED BY <2>1 DEF Finish, IInv, TypeOK, DoneInOrder, Done, Performed
<1>4. WaitsForItsOwn'
  BY <1>0 DEF Finish, rpcVars, IInv, TypeOK, WaitsForItsOwn
<1>5. RoomLeft'
  BY <1>0 DEF Finish, rpcVars, IInv, TypeOK, WaitsForItsOwn, RoomLeft
<1>6. LoggedAreTimedOut'
  BY <1>0 DEF Finish, rpcVars, IInv, TypeOK, WaitsForItsOwn, LoggedAreTimedOut, Awaited
<1>7. SentInOrder'
  BY <1>0 DEF Finish, rpcVars, IInv, TypeOK, WaitsForItsOwn, SentInOrder, SentWasProcessed
<1>8. QED BY <1>1, <1>2, <1>3, <1>4, <1>5, <1>6, <1>7 DEF IInv

\* The invariant holds before the first request.
LEMMA InitInv == Init => IInv
<1> SUFFICES ASSUME Init PROVE IInv
  OBVIOUS
<1>1. queue \in Seq(Job) /\ Len(queue) = 0 /\ sent \in Seq(Job) /\ Len(sent) = 0
  BY EmptySeq DEF Init
<1>2. TypeOK
  BY <1>1 DEF Init, TypeOK, Kinds, MainStates, RpcStates
<1>3. QueueInOrder
  BY <1>1 DEF Init, QueueInOrder, Taken
<1>4. DoneInOrder
  BY <1>1 DEF Init, DoneInOrder, Done, Performed, Job
<1>5. WaitsForItsOwn /\ RoomLeft
  BY DEF Init, WaitsForItsOwn, RoomLeft
<1>6. LoggedAreTimedOut /\ SentInOrder
  BY <1>1 DEF Init, LoggedAreTimedOut, SentInOrder, SentWasProcessed
<1>7. QED BY <1>2, <1>3, <1>4, <1>5, <1>6 DEF IInv

\* Queueing a job leaves the numbering and everything already done as it was.
LEMMA EnqueueKeeps ==
  ASSUME IInv, NEW k \in Kinds, Enqueue(k), UNCHANGED <<mainVars, outcome, finished, started>>
  PROVE  /\ jobs' = jobs + 1 /\ jobs \in Nat /\ jobs' \in Job
         /\ queue' \in Seq(Job)
         /\ kind' \in [Job -> Kinds] /\ kind'[jobs'] = k
         /\ \A j \in Job : j <= jobs => kind'[j] = kind[j]
         /\ QueueInOrder'
         /\ Performed' = Performed
<1>1. jobs \in 0 .. MaxJobs /\ queue \in Seq(Job) /\ kind \in [Job -> Kinds]
  BY DEF IInv, TypeOK
<1>2. /\ jobs' = jobs + 1 /\ jobs < MaxJobs
      /\ kind' = [kind EXCEPT ![jobs + 1] = k]
      /\ queue' = Append(queue, jobs + 1)
      /\ UNCHANGED <<main, current>>
  BY DEF Enqueue, mainVars
<1>3. jobs \in Nat /\ jobs + 1 \in Job
  BY <1>1, <1>2 DEF Job
<1>4. /\ queue' \in Seq(Job) /\ Len(queue') = Len(queue) + 1 /\ Len(queue) \in Nat
      /\ \A i \in 1 .. Len(queue) : queue'[i] = queue[i]
      /\ queue'[Len(queue) + 1] = jobs + 1
  BY <1>1, <1>2, <1>3, AppendProperties, LenProperties
<1>5. Taken' = Taken /\ Taken \in Int
  BY <1>2, <1>3, <1>4 DEF Taken
<1>6. QueueInOrder'
  <2>1. ASSUME NEW i \in 1 .. Len(queue')
        PROVE  queue'[i] = Taken + i
    <3>1. CASE i = Len(queue) + 1
      BY <1>3, <1>4, <3>1 DEF Taken
    <3>2. CASE i \in 1 .. Len(queue)
      BY <1>4, <3>2 DEF IInv, QueueInOrder
    <3>3. QED BY <1>4, <3>1, <3>2
  <2>2. Len(queue') <= jobs'
    BY <1>2, <1>3, <1>4 DEF IInv, QueueInOrder
  <2>3. main' # "drained" => Taken >= 1 /\ current' = Taken
    BY <1>2 DEF IInv, QueueInOrder
  <2>4. QED BY <1>5, <2>1, <2>2, <2>3 DEF QueueInOrder
<1>7. Performed' = Performed
  BY <1>2, <1>3, <1>4 DEF Performed
<1>8. kind' \in [Job -> Kinds] /\ kind'[jobs + 1] = k
  BY <1>1, <1>2, <1>3
<1>9. \A j \in Job : j <= jobs => kind'[j] = kind[j]
  BY <1>1, <1>2, <1>3 DEF Job
<1>10. QED BY <1>2, <1>3, <1>4, <1>6, <1>7, <1>8, <1>9

\* A request arrives.
LEMMA RequestInv ==
  ASSUME IInv, NEW k \in Kinds \ {"event"}, NEW n \in 1 .. MaxText, Request(k, n)
  PROVE  IInv'
<1>1. TypeOK'
  <2>1. rpc' \in RpcStates /\ call' \in Kinds \ {"event"} /\ left' \in Nat
    BY DEF Request, RpcStates
  <2>2. UNCHANGED <<queue, jobs, kind, current, main, outcome, started, finished, timedOut,
                    logged, mine, answer, reply, sent>>
    BY DEF Request, mainVars, eventVars
  <2>3. QED BY <2>1, <2>2 DEF IInv, TypeOK
<1>2. QueueInOrder'
  BY DEF Request, mainVars, IInv, QueueInOrder, Taken
<1>3. DoneInOrder'
  BY DEF Request, mainVars, eventVars, IInv, DoneInOrder, Done, Performed
<1>4. WaitsForItsOwn'
  BY DEF Request, IInv, WaitsForItsOwn
<1>5. RoomLeft'
  BY DEF Request, RoomLeft
<1>6. LoggedAreTimedOut'
  BY DEF Request, eventVars, IInv, LoggedAreTimedOut, Awaited
<1>7. SentInOrder'
  BY DEF Request, eventVars, IInv, SentInOrder, SentWasProcessed
<1>8. QED BY <1>1, <1>2, <1>3, <1>4, <1>5, <1>6, <1>7 DEF IInv

\* What the three ways to queue a job have in common.
LEMMA EnqueueInv ==
  ASSUME IInv, NEW k \in Kinds, Enqueue(k),
         UNCHANGED <<mainVars, eventVars, timedOut, answer, sent>>
  PROVE  /\ DoneInOrder'
         /\ \A j \in logged : j <= jobs' /\ (Awaited(j)' => j \in timedOut)
         /\ SentWasProcessed'
         /\ \A j \in Job : answer'[j] # "none" => j < jobs'
<1>1. /\ jobs' = jobs + 1 /\ jobs \in Nat
      /\ \A j \in Job : j <= jobs => kind'[j] = kind[j]
      /\ Performed' = Performed
  BY EnqueueKeeps DEF eventVars
<1>2. UNCHANGED <<outcome, finished, answer, logged, timedOut, sent>>
  BY DEF eventVars
<1>3. DoneInOrder'
  BY <1>1, <1>2 DEF IInv, DoneInOrder, Done
<1>4. \A j \in logged : j \in Job /\ j <= jobs /\ (Awaited(j) => j \in timedOut)
  BY DEF IInv, TypeOK, LoggedAreTimedOut
<1>5. \A j \in logged : j <= jobs' /\ (Awaited(j)' => j \in timedOut)
  BY <1>1, <1>2, <1>4 DEF Awaited, Job
<1>6. \A i \in 1 .. Len(sent) : sent[i] \in Job /\ sent[i] <= jobs
  <2>1. sent \in Seq(Job) /\ mine \in 0 .. MaxJobs
    BY DEF IInv, TypeOK
  <2>2. \A i \in 1 .. Len(sent) : sent[i] \in Job
    BY <2>1, ElementOfSeq
  <2>3. \A i \in 1 .. Len(sent) : sent[i] <= mine /\ mine <= jobs
    BY DEF IInv, SentInOrder, WaitsForItsOwn
  <2>4. QED BY <1>1, <2>1, <2>2, <2>3 DEF Job
<1>7. SentWasProcessed'
  BY <1>1, <1>2, <1>6 DEF IInv, SentInOrder, SentWasProcessed
<1>8. \A j \in Job : answer'[j] # "none" => j < jobs'
  BY <1>1, <1>2 DEF IInv, WaitsForItsOwn, Job
<1>9. QED BY <1>3, <1>5, <1>7, <1>8


\* The jobs in _SENT are jobs.
LEMMA SentAreJobs ==
  ASSUME IInv
  PROVE  /\ sent \in Seq(Job) /\ Len(sent) \in Nat /\ mine \in 0 .. MaxJobs
         /\ \A i \in 1 .. Len(sent) : sent[i] \in Job /\ sent[i] <= mine
<1>1. sent \in Seq(Job) /\ mine \in 0 .. MaxJobs
  BY DEF IInv, TypeOK
<1>2. \A i \in 1 .. Len(sent) : sent[i] \in Job
  BY <1>1, ElementOfSeq
<1>3. SentInOrder
  BY DEF IInv
<1>4. \A i \in 1 .. Len(sent) : sent[i] <= mine
  BY <1>3 DEF SentInOrder
<1>5. QED BY <1>1, <1>2, <1>4, LenProperties

\* run_on_main_thread queues its runner (mainthread.py:43).
LEMMA SubmitInv == IInv /\ Submit => IInv'
<1> SUFFICES ASSUME IInv, Submit PROVE IInv'
  OBVIOUS
<1>1. /\ rpc = "submit" /\ call # "nowait" /\ Enqueue(call)
      /\ mine' = jobs + 1 /\ left' = left - 1 /\ rpc' = "waiting"
      /\ UNCHANGED <<mainVars, eventVars, timedOut, call, answer, reply, sent>>
  BY DEF Submit
<1>2. call \in Kinds \ {"event"} /\ jobs \in 0 .. MaxJobs /\ mine \in 0 .. MaxJobs /\ left \in Nat
  BY DEF IInv, TypeOK
<1>3. /\ jobs' = jobs + 1 /\ jobs' \in Job
      /\ queue' \in Seq(Job)
      /\ kind' \in [Job -> Kinds] /\ kind'[jobs'] = call
      /\ \A j \in Job : j <= jobs => kind'[j] = kind[j]
      /\ QueueInOrder'
  BY <1>1, <1>2, EnqueueKeeps DEF eventVars
<1>4. /\ DoneInOrder'
      /\ \A j \in logged : j <= jobs' /\ (Awaited(j)' => j \in timedOut)
      /\ SentWasProcessed'
      /\ \A j \in Job : answer'[j] # "none" => j < jobs'
  BY <1>1, <1>2, EnqueueInv
<1>5. UNCHANGED <<current, main, outcome, started, finished, logged, timedOut, call, answer,
                  reply, sent>>
  BY <1>1 DEF mainVars, eventVars
<1>6. RoomLeft /\ WaitsForItsOwn /\ LoggedAreTimedOut
  BY DEF IInv
<1>7. left >= 1 /\ jobs + left <= MaxJobs /\ (call # "press" => left = 1) /\ mine <= jobs
  BY <1>1, <1>6 DEF RoomLeft, WaitsForItsOwn
<1>8. TypeOK'
  <2>1. jobs' \in 0 .. MaxJobs /\ mine' \in 0 .. MaxJobs /\ left' \in Nat /\ rpc' \in RpcStates
    BY <1>1, <1>2, <1>3, <1>7 DEF Job, RpcStates
  <2>2. QED BY <2>1, <1>3, <1>5 DEF IInv, TypeOK
<1>9. WaitsForItsOwn'
  <2>1. answer'[mine'] = "none"
    BY <1>1, <1>2, <1>3, <1>4
  <2>2. mine' \in 1 .. jobs' /\ kind'[mine'] = call' /\ call' \in {"press", "idle"}
    BY <1>1, <1>2, <1>3, <1>5 DEF Kinds
  <2>3. mine' <= jobs' /\ \A j \in Job : answer'[j] # "none" => j <= jobs'
    BY <2>2, <1>2, <1>3, <1>4 DEF Job
  <2>4. QED BY <1>1, <2>1, <2>2, <2>3 DEF WaitsForItsOwn
<1>10. RoomLeft'
  BY <1>1, <1>2, <1>3, <1>5, <1>7 DEF RoomLeft
<1>11. LoggedAreTimedOut'
  <2>1. \A j \in timedOut : j \in Job /\ j <= mine /\ answer[j] \notin {"value", "error"}
    BY <1>6 DEF IInv, TypeOK, LoggedAreTimedOut
  <2>2. \A j \in timedOut : j < mine'
    BY <2>1, <1>1, <1>2, <1>7 DEF Job
  <2>3. mine' \notin timedOut /\ \A j \in timedOut : j <= mine'
    BY <2>1, <2>2, <1>1, <1>2 DEF Job
  <2>4. \A j \in logged' : j <= jobs' /\ (Awaited(j)' => j \in timedOut')
    BY <1>4, <1>5
  <2>5. QED BY <2>1, <2>3, <2>4, <1>1, <1>5 DEF LoggedAreTimedOut
<1>12. SentInOrder'
  <2>1. \A i \in 1 .. Len(sent) : sent[i] \in Job /\ sent[i] <= mine
    BY SentAreJobs
  <2>2. \A i \in 1 .. Len(sent) : sent[i] < mine' /\ sent[i] <= mine'
    BY <2>1, <1>1, <1>2, <1>7 DEF Job
  <2>3. QED BY <2>2, <1>4, <1>5 DEF SentInOrder
<1>13. QED BY <1>3, <1>4, <1>8, <1>9, <1>10, <1>11, <1>12 DEF IInv

\* exec_in_nvda_nowait queues its scenario (eval_api.py:69-84).
LEMMA SubmitNowaitInv == IInv /\ SubmitNowait => IInv'
<1> SUFFICES ASSUME IInv, SubmitNowait PROVE IInv'
  OBVIOUS
<1>1. /\ rpc = "submit" /\ call = "nowait" /\ Enqueue(call)
      /\ left' = left - 1 /\ rpc' = "ready" /\ reply' = "ok"
      /\ UNCHANGED <<mainVars, eventVars, timedOut, call, mine, answer, sent>>
  BY DEF SubmitNowait
<1>2. call \in Kinds \ {"event"} /\ jobs \in 0 .. MaxJobs /\ mine \in 0 .. MaxJobs /\ left \in Nat
  BY DEF IInv, TypeOK
<1>3. /\ jobs' = jobs + 1 /\ jobs' \in Job
      /\ queue' \in Seq(Job)
      /\ kind' \in [Job -> Kinds]
      /\ QueueInOrder'
  BY <1>1, <1>2, EnqueueKeeps DEF eventVars
<1>4. /\ DoneInOrder'
      /\ \A j \in logged : j <= jobs' /\ (Awaited(j)' => j \in timedOut)
      /\ SentWasProcessed'
      /\ \A j \in Job : answer'[j] # "none" => j < jobs'
  BY <1>1, <1>2, EnqueueInv
<1>5. UNCHANGED <<current, main, outcome, started, finished, logged, timedOut, call, mine,
                  answer, sent>>
  BY <1>1 DEF mainVars, eventVars
<1>6. RoomLeft /\ WaitsForItsOwn /\ LoggedAreTimedOut /\ SentInOrder
  BY DEF IInv
<1>7. left = 1 /\ jobs + left <= MaxJobs /\ mine <= jobs
  BY <1>1, <1>6 DEF RoomLeft, WaitsForItsOwn
<1>8. TypeOK'
  <2>1. jobs' \in 0 .. MaxJobs /\ left' \in Nat /\ rpc' \in RpcStates
    BY <1>1, <1>2, <1>3, <1>7 DEF Job, RpcStates
  <2>2. QED BY <2>1, <1>1, <1>3, <1>5 DEF IInv, TypeOK
<1>9. WaitsForItsOwn'
  <2>1. mine' <= jobs' /\ \A j \in Job : answer'[j] # "none" => j <= jobs'
    BY <1>2, <1>3, <1>4, <1>5, <1>7 DEF Job
  <2>2. QED BY <1>1, <2>1 DEF WaitsForItsOwn
<1>10. RoomLeft'
  BY <1>1, <1>2, <1>3, <1>5, <1>7 DEF RoomLeft
<1>11. LoggedAreTimedOut'
  <2>1. \A j \in timedOut : j <= mine /\ answer[j] \notin {"value", "error"}
    BY <1>6 DEF LoggedAreTimedOut
  <2>2. \A j \in logged' : j <= jobs' /\ (Awaited(j)' => j \in timedOut')
    BY <1>4, <1>5
  <2>3. QED BY <2>1, <2>2, <1>1, <1>5 DEF LoggedAreTimedOut
<1>12. SentInOrder'
  BY <1>1, <1>4, <1>5, <1>6 DEF SentInOrder
<1>13. QED BY <1>3, <1>4, <1>8, <1>9, <1>10, <1>11, <1>12 DEF IInv

\* Another thread of NVDA queues an event.
LEMMA PostInv == IInv /\ Post => IInv'
<1> SUFFICES ASSUME IInv, Post PROVE IInv'
  OBVIOUS
<1>1. /\ jobs + left < MaxJobs /\ Enqueue("event")
      /\ UNCHANGED <<mainVars, eventVars, timedOut, rpcVars, answer, reply, sent>>
  BY DEF Post
<1>2. "event" \in Kinds /\ jobs \in 0 .. MaxJobs /\ mine \in 0 .. MaxJobs /\ left \in Nat
  BY DEF IInv, TypeOK, Kinds
<1>3. /\ jobs' = jobs + 1 /\ jobs' \in Job
      /\ queue' \in Seq(Job)
      /\ kind' \in [Job -> Kinds]
      /\ \A j \in Job : j <= jobs => kind'[j] = kind[j]
      /\ QueueInOrder'
  BY <1>1, <1>2, EnqueueKeeps DEF eventVars
<1>4. /\ DoneInOrder'
      /\ \A j \in logged : j <= jobs' /\ (Awaited(j)' => j \in timedOut)
      /\ SentWasProcessed'
      /\ \A j \in Job : answer'[j] # "none" => j < jobs'
  BY <1>1, <1>2, EnqueueInv
<1>5. UNCHANGED <<current, main, outcome, started, finished, logged, timedOut, rpc, call, mine,
                  left, answer, reply, sent>>
  BY <1>1 DEF mainVars, eventVars, rpcVars
<1>6. RoomLeft /\ WaitsForItsOwn /\ LoggedAreTimedOut /\ SentInOrder
  BY DEF IInv
<1>7. mine <= jobs
  BY <1>6 DEF WaitsForItsOwn
<1>8. TypeOK'
  <2>1. jobs' \in 0 .. MaxJobs
    BY <1>3 DEF Job
  <2>2. QED BY <2>1, <1>3, <1>5 DEF IInv, TypeOK
<1>9. WaitsForItsOwn'
  <2>1. mine' <= jobs' /\ \A j \in Job : answer'[j] # "none" => j <= jobs'
    BY <1>2, <1>3, <1>4, <1>5, <1>7 DEF Job
  <2>2. rpc \in {"waiting", "expired", "report", "collect", "record"} =>
          mine' \in 1 .. jobs' /\ kind'[mine'] = call
    BY <1>2, <1>3, <1>5, <1>6 DEF WaitsForItsOwn, Job
  <2>3. QED BY <1>5, <1>6, <2>1, <2>2 DEF WaitsForItsOwn
<1>10. RoomLeft'
  BY <1>1, <1>2, <1>3, <1>5, <1>6 DEF RoomLeft
<1>11. LoggedAreTimedOut'
  <2>1. \A j \in logged' : j <= jobs' /\ (Awaited(j)' => j \in timedOut')
    BY <1>4, <1>5
  <2>2. QED BY <2>1, <1>5, <1>6 DEF LoggedAreTimedOut
<1>12. SentInOrder'
  BY <1>4, <1>5, <1>6 DEF SentInOrder
<1>13. QED BY <1>3, <1>4, <1>8, <1>9, <1>10, <1>11, <1>12 DEF IInv

\* The event pump takes the oldest job.
LEMMA TakeInv == IInv /\ Take => IInv'
<1> SUFFICES ASSUME IInv, Take PROVE IInv'
  OBVIOUS
<1>1. /\ main = "drained" /\ queue # << >>
      /\ current' = Head(queue) /\ queue' = Tail(queue)
      /\ main' = IF Awaited(Head(queue)) THEN "taken" ELSE "running"
      /\ UNCHANGED <<jobs, kind, eventVars, timedOut, rpcVars, answer, reply, sent>>
  BY DEF Take
<1>2. queue \in Seq(Job) /\ jobs \in 0 .. MaxJobs
  BY DEF IInv, TypeOK
<1>3. /\ queue' \in Seq(Job) /\ current' \in Job /\ Len(queue') = Len(queue) - 1
      /\ Len(queue) \in Nat /\ Len(queue) >= 1
      /\ current' = queue[1]
      /\ \A i \in 1 .. Len(queue') : queue'[i] = queue[i + 1]
  <2>1. Len(queue) \in Nat /\ Len(queue) # 0
    BY <1>1, <1>2, LenProperties, EmptySeq
  <2>2. /\ Head(queue) \in Job /\ Tail(queue) \in Seq(Job)
        /\ Len(Tail(queue)) = Len(queue) - 1
        /\ \A i \in 1 .. Len(Tail(queue)) : Tail(queue)[i] = queue[i + 1]
    BY <1>1, <1>2, HeadTailProperties
  <2>3. Head(queue) = queue[1]
    BY <1>1, <1>2
  <2>4. QED BY <1>1, <2>1, <2>2, <2>3
<1>4. UNCHANGED <<jobs, kind, outcome, started, finished, logged, timedOut, rpc, call, mine,
                  left, answer, reply, sent>>
  BY <1>1 DEF eventVars, rpcVars
<1>5. main' \in {"taken", "running"} /\ main' \in MainStates
  BY <1>1 DEF MainStates
<1>6. Taken' = Taken + 1 /\ Taken \in Int
  BY <1>2, <1>3, <1>4 DEF Taken
<1>7. Performed' = Performed
  BY <1>1, <1>2, <1>3, <1>4, <1>5 DEF Performed
<1>8. TypeOK'
  <2>1. current' \in 0 .. MaxJobs
    BY <1>3 DEF Job
  <2>2. QED BY <2>1, <1>3, <1>4, <1>5 DEF IInv, TypeOK
<1>9. QueueInOrder'
  <2>1. Len(queue) <= jobs /\ \A i \in 1 .. Len(queue) : queue[i] = Taken + i
    BY DEF IInv, QueueInOrder
  <2>2. \A i \in 1 .. Len(queue') : queue'[i] = (Taken + 1) + i
    BY <1>3, <1>6, <2>1
  <2>3. current' = Taken + 1
    BY <1>3, <2>1
  <2>4. Taken + 1 >= 1
    BY <2>1, <1>2, <1>3 DEF Taken
  <2>5. Len(queue') <= jobs'
    BY <2>1, <1>2, <1>3, <1>4
  <2>6. QED BY <1>6, <2>2, <2>3, <2>4, <2>5 DEF QueueInOrder
<1>10. DoneInOrder'
  BY <1>4, <1>7 DEF IInv, DoneInOrder, Done
<1>11. WaitsForItsOwn' /\ RoomLeft'
  BY <1>4 DEF IInv, WaitsForItsOwn, RoomLeft
<1>12. LoggedAreTimedOut' /\ SentInOrder'
  BY <1>4 DEF IInv, LoggedAreTimedOut, SentInOrder, SentWasProcessed, Awaited
<1>13. QED BY <1>8, <1>9, <1>10, <1>11, <1>12 DEF IInv

\* keys_press appends to _SENT (input_api.py:43-48).
LEMMA RecordSentInv == IInv /\ RecordSent => IInv'
<1> SUFFICES ASSUME IInv, RecordSent PROVE IInv'
  OBVIOUS
<1>1. /\ rpc = "record" /\ sent' = Append(sent, mine)
      /\ rpc' = IF left > 0 THEN "submit" ELSE "ready"
      /\ reply' = IF left > 0 THEN reply ELSE "ok"
      /\ UNCHANGED <<queue, jobs, kind, mainVars, eventVars, timedOut, call, mine, left, answer>>
  BY DEF RecordSent
<1>2. UNCHANGED <<queue, jobs, kind, current, main, outcome, started, finished, logged, timedOut,
                  call, mine, left, answer>>
  BY <1>1 DEF mainVars, eventVars
<1>3. mine \in Job
  BY <1>1, WaitedJob
<1>4. /\ sent' \in Seq(Job) /\ Len(sent') = Len(sent) + 1 /\ Len(sent) \in Nat
      /\ \A i \in 1 .. Len(sent) : sent'[i] = sent[i]
      /\ sent'[Len(sent) + 1] = mine
      /\ \A i \in 1 .. Len(sent) : sent[i] \in Job /\ sent[i] <= mine
  BY <1>1, <1>3, SentAreJobs, AppendProperties
<1>5. kind[mine] = "press" /\ outcome[mine] = "value" /\ call = "press"
  BY <1>1 DEF IInv, WaitsForItsOwn
<1>6. SentInOrder
  BY DEF IInv
<1>7. \A i \in 1 .. Len(sent) : sent[i] < mine
  BY <1>1, <1>6 DEF SentInOrder
<1>8. TypeOK'
  <2>1. rpc' \in RpcStates
    BY <1>1 DEF RpcStates
  <2>2. reply' \in {"none", "ok", "error", "hung", "never started", "idle", "busy"}
    BY <1>1 DEF IInv, TypeOK
  <2>3. QED BY <2>1, <2>2, <1>2, <1>4 DEF IInv, TypeOK
<1>9. QueueInOrder' /\ DoneInOrder'
  BY <1>2 DEF IInv, QueueInOrder, Taken, DoneInOrder, Done, Performed
<1>10. WaitsForItsOwn'
  BY <1>1, <1>2 DEF IInv, WaitsForItsOwn
<1>11. RoomLeft'
  <2>1. left \in Nat /\ jobs + left <= MaxJobs
    BY DEF IInv, TypeOK, RoomLeft
  <2>2. QED BY <2>1, <1>1, <1>2, <1>5 DEF RoomLeft
<1>12. LoggedAreTimedOut'
  BY <1>1, <1>2 DEF IInv, LoggedAreTimedOut, Awaited
<1>13. SentInOrder'
  <2>1. ASSUME NEW i \in 1 .. Len(sent')
        PROVE  /\ kind[sent'[i]] = "press" /\ outcome[sent'[i]] = "value"
               /\ \A k \in 1 .. i - 1 : sent'[k] < sent'[i]
               /\ sent'[i] <= mine
    <3>1. CASE i = Len(sent) + 1
      <4>1. sent'[i] = mine /\ \A k \in 1 .. i - 1 : sent'[k] = sent[k] /\ sent[k] < mine
        BY <1>4, <1>7, <3>1
      <4>2. QED BY <4>1, <1>3, <1>5 DEF Job
    <3>2. CASE i \in 1 .. Len(sent)
      <4>1. sent'[i] = sent[i] /\ \A k \in 1 .. i - 1 : sent'[k] = sent[k]
        BY <1>4, <3>2
      <4>2. /\ kind[sent[i]] = "press" /\ outcome[sent[i]] = "value"
            /\ \A k \in 1 .. i - 1 : sent[k] < sent[i]
        BY <1>6, <3>2 DEF SentInOrder, SentWasProcessed
      <4>3. sent[i] <= mine
        BY <1>4, <3>2
      <4>4. QED BY <4>1, <4>2, <4>3
    <3>3. QED BY <1>4, <3>1, <3>2
  <2>2. rpc' \in {"ready", "submit"}
    BY <1>1
  <2>3. QED BY <2>1, <2>2, <1>2 DEF SentInOrder, SentWasProcessed
<1>14. QED BY <1>8, <1>9, <1>10, <1>11, <1>12, <1>13 DEF IInv

\* The counters are numbers.
LEMMA Counts ==
  ASSUME IInv
  PROVE  queue \in Seq(Job) /\ Len(queue) \in Nat /\ jobs \in Nat /\ Performed \in Int
<1>1. queue \in Seq(Job) /\ jobs \in 0 .. MaxJobs
  BY DEF IInv, TypeOK
<1>2. Len(queue) \in Nat
  BY <1>1, LenProperties
<1>3. jobs \in Nat
  BY <1>1
<1>4. (IF main \in {"taken", "running"} THEN 1 ELSE 0) \in Int
  OBVIOUS
<1>5. Performed \in Int
  BY <1>2, <1>3, <1>4 DEF Performed
<1>6. QED BY <1>1, <1>2, <1>3, <1>5

\* Every step of either thread preserves the invariant.
LEMMA NextInv == IInv /\ [Next]_vars => IInv'
<1> SUFFICES ASSUME IInv, [Next]_vars PROVE IInv'
  OBVIOUS
<1>1. ASSUME NEW k \in Kinds \ {"event"}, NEW n \in 1 .. MaxText, Request(k, n)
      PROVE  IInv'
  BY <1>1, RequestInv
<1>2. CASE Submit \/ SubmitNowait \/ Post
  BY <1>2, SubmitInv, SubmitNowaitInv, PostInv
<1>3. CASE Wake \/ Expire \/ GiveUp \/ Report \/ Reraise \/ Return
  BY <1>3, WakeInv, ExpireInv, GiveUpInv, ReportInv, ReraiseInv, ReturnInv
<1>4. CASE RecordSent \/ LookAtQueue
  BY <1>4, RecordSentInv, LookAtQueueInv
<1>5. CASE Take \/ Start \/ Complete \/ Raise \/ LogIfTimedOut \/ Finish
  BY <1>5, TakeInv, StartInv, CompleteInv, RaiseInv, LogIfTimedOutInv, FinishInv
<1>6. ASSUME UNCHANGED vars
      PROVE  IInv'
  <2>1. TypeOK' /\ QueueInOrder'
    BY <1>6 DEF vars, IInv, TypeOK, QueueInOrder, Taken
  <2>2. DoneInOrder' /\ WaitsForItsOwn' /\ RoomLeft'
    BY <1>6 DEF vars, IInv, DoneInOrder, Done, Performed, WaitsForItsOwn, RoomLeft
  <2>3. LoggedAreTimedOut' /\ SentInOrder'
    BY <1>6 DEF vars, IInv, LoggedAreTimedOut, Awaited, SentInOrder, SentWasProcessed
  <2>4. QED BY <2>1, <2>2, <2>3 DEF IInv
<1>7. QED BY <1>1, <1>2, <1>3, <1>4, <1>5, <1>6 DEF Next, SessionOver

\* Type correctness and every conjunct of IInv hold in every reachable state, however the
\* RPC thread and NVDA's main thread interleave.
THEOREM MainThreadInvariant == Spec => []IInv
<1>1. QED BY InitInv, NextInv, PTL DEF Spec

\* A call that was answered proves that everything queued before it is over, whatever timed
\* out in between (run_on_main_thread).
THEOREM BarrierHolds == Spec => []AnsweredIsBarrier
<1>1. IInv => AnsweredIsBarrier
  <2> SUFFICES ASSUME IInv, NEW j \in Job, answer[j] \in {"value", "error"},
                      NEW i \in 1 .. j
               PROVE  Done(i)
    BY DEF AnsweredIsBarrier
  <2>1. i \in Job /\ i <= j
    BY DEF Job
  <2>2. DoneInOrder
    BY DEF IInv
  <2>3. Performed \in Int
    BY Counts
  <2>4. j <= Performed
    BY <2>2 DEF DoneInOrder
  <2>5. i <= Performed
    BY <2>1, <2>3, <2>4 DEF Job
  <2>6. QED BY <2>1, <2>2, <2>5 DEF DoneInOrder
<1>2. QED BY <1>1, MainThreadInvariant, PTL

\* No awaited job's failure is both logged by the runner and given to its caller
\* (mainthread.py:37-39 against 57-58).
THEOREM FailureIsToldOnce == Spec => []FailureToldOnce
<1>1. IInv => FailureToldOnce
  BY DEF IInv, LoggedAreTimedOut, FailureToldOnce
<1>2. QED BY <1>1, MainThreadInvariant, PTL

\* keys_sent() lists only gestures NVDA processed, in the order it processed them
\* (input_api.py:43-61).
THEOREM SentIsProcessed == Spec => []SentWasProcessed
<1>1. IInv => SentWasProcessed
  BY DEF IInv, SentInOrder
<1>2. QED BY <1>1, MainThreadInvariant, PTL

\* When wait_until_idle says idle, at most the job in the main thread's hand is not over
\* (server.py:111-119).
THEOREM IdleIsNearlyOver == Spec => IdleLeavesOnlyTheCurrentJob
<1>1. ASSUME IInv, LookAtQueue, reply' = "idle", NEW j \in 1 .. jobs
      PROVE  Done(j) \/ j = current
  <2>1. queue = << >> /\ Len(queue) = 0
    BY <1>1 DEF LookAtQueue
  <2>2. jobs \in 0 .. MaxJobs
    BY <1>1 DEF IInv, TypeOK
  <2>3. j \in Job
    BY <2>2 DEF Job
  <2>4. CASE j <= Performed
    BY <1>1, <2>3, <2>4 DEF IInv, DoneInOrder
  <2>5. CASE ~(j <= Performed)
    <3>1. main \in {"taken", "running"} /\ j = jobs
      BY <2>1, <2>2, <2>5 DEF Performed
    <3>2. current = Taken
      BY <1>1, <3>1 DEF IInv, QueueInOrder
    <3>3. QED BY <2>1, <2>2, <3>1, <3>2 DEF Taken
  <2>6. QED BY <2>4, <2>5
<1>2. IInv /\ [Next]_vars =>
        [LookAtQueue /\ reply' = "idle" => \A j \in 1 .. jobs : Done(j) \/ j = current]_vars
  BY <1>1
<1>3. QED BY <1>2, MainThreadInvariant, PTL DEF Spec, IdleLeavesOnlyTheCurrentJob

\* Before the first request nothing was promised.
LEMMA InitMaps == Init => Promise!Init
<1> SUFFICES ASSUME Init PROVE Promise!Init
  OBVIOUS
<1>1. jobs = 0 /\ Len(queue) = 0 /\ main \notin {"taken", "running"}
  BY EmptySeq DEF Init
<1>2. Performed = 0
  <2>1. (IF main \in {"taken", "running"} THEN 1 ELSE 0) = 0
    BY <1>1
  <2>2. jobs - Len(queue) = 0
    BY <1>1
  <2>3. \A b \in {0} : jobs - Len(queue) - b = 0
    BY <2>2
  <2>4. QED BY <2>1, <2>3 DEF Performed
<1>3. Told = [j \in Job |-> "none"]
  BY DEF Init, Told
<1>4. QED BY <1>1, <1>2, <1>3 DEF Init, Promise!Init, Job, Promise!Job

\* Every step of either thread is one step of WorkQueue or none.
LEMMA StepMaps == IInv /\ [Next]_vars => [Promise!Next]_Promise!vars
<1> SUFFICES ASSUME IInv, [Next]_vars PROVE Promise!Next \/ UNCHANGED Promise!vars
  OBVIOUS
<1>1. ASSUME NEW k \in Kinds, Enqueue(k), UNCHANGED <<mainVars, eventVars, answer>>
      PROVE  Promise!HandOver
  <2>1. UNCHANGED <<outcome, finished, started, answer>>
    BY <1>1 DEF eventVars
  <2>2. Performed' = Performed
    BY <1>1, <2>1, EnqueueKeeps
  <2>3. Told' = Told
    BY <2>1 DEF Told
  <2>4. QED BY <1>1, <2>1, <2>2, <2>3 DEF Promise!HandOver, Enqueue
<1>2. CASE Submit \/ SubmitNowait
  <2>1. call \in Kinds
    BY DEF IInv, TypeOK
  <2>2. Enqueue(call) /\ UNCHANGED <<mainVars, eventVars, answer>>
    BY <1>2 DEF Submit, SubmitNowait
  <2>3. QED BY <1>1, <2>1, <2>2 DEF Promise!Next
<1>3. CASE Post
  <2>1. "event" \in Kinds /\ Enqueue("event") /\ UNCHANGED <<mainVars, eventVars, answer>>
    BY <1>3 DEF Post, Kinds
  <2>2. QED BY <1>1, <2>1 DEF Promise!Next
<1>4. ASSUME NEW how, Fail(how), mine \in Job, answer[mine] = "none", mine <= jobs,
             \/ how \in {"hung", "never started"}
             \/ how = "error" /\ outcome[mine] = "error" /\ mine <= Performed
      PROVE  Promise!Next
  <2>1. /\ answer' = [answer EXCEPT ![mine] = how]
        /\ UNCHANGED <<queue, jobs, main, outcome>>
    BY <1>4 DEF Fail, mainVars, eventVars
  <2>2. Performed' = Performed
    BY <2>1 DEF Performed
  <2>3. answer \in [Job -> {"none", "value", "error", "hung", "never started"}]
    BY DEF IInv, TypeOK
  <2>4. Told[mine] = "none"
    BY <1>4 DEF Told
  <2>5. CASE how \in {"hung", "never started"}
    <3>1. Told' = [Told EXCEPT ![mine] = "timeout"]
      BY <1>4, <2>1, <2>3, <2>5 DEF Told
    <3>2. Promise!GiveUp(mine)
      BY <1>4, <2>1, <2>2, <2>4, <3>1 DEF Promise!GiveUp
    <3>3. QED BY <1>4, <3>2 DEF Promise!Next, Promise!Job, Job
  <2>6. CASE how = "error" /\ outcome[mine] = "error" /\ mine <= Performed
    <3>1. Told' = [Told EXCEPT ![mine] = outcome[mine]]
      BY <1>4, <2>1, <2>3, <2>6 DEF Told
    <3>2. Promise!Tell(mine)
      BY <1>4, <2>1, <2>2, <2>4, <2>6, <3>1 DEF Promise!Tell
    <3>3. QED BY <1>4, <3>2 DEF Promise!Next, Promise!Job, Job
  <2>7. QED BY <1>4, <2>5, <2>6
<1>5. CASE Report
  <2>1. rpc = "report" /\ Fail(IF mine \in started THEN "hung" ELSE "never started")
    BY <1>5 DEF Report
  <2>2. mine \in Job /\ answer[mine] = "none" /\ mine <= jobs
    BY <2>1, WaitedJob DEF IInv, WaitsForItsOwn
  <2>3. QED BY <1>4, <2>1, <2>2
<1>6. ASSUME rpc = "collect"
      PROVE  mine \in Job /\ answer[mine] = "none" /\ mine <= jobs /\ mine <= Performed
  <2>1. mine \in Job /\ answer[mine] = "none" /\ mine <= jobs /\ mine \in finished
    BY <1>6, WaitedJob DEF IInv, WaitsForItsOwn
  <2>2. mine <= Performed
    BY <2>1 DEF IInv, DoneInOrder
  <2>3. QED BY <2>1, <2>2
<1>7. CASE Reraise
  <2>1. rpc = "collect" /\ outcome[mine] = "error" /\ Fail("error")
    BY <1>7 DEF Reraise
  <2>2. QED BY <1>4, <1>6, <2>1
<1>8. CASE Return
  <2>1. /\ rpc = "collect" /\ outcome[mine] = "value"
        /\ answer' = [answer EXCEPT ![mine] = "value"]
        /\ UNCHANGED <<queue, jobs, main, outcome>>
    BY <1>8 DEF Return, mainVars, eventVars
  <2>2. Performed' = Performed
    BY <2>1 DEF Performed
  <2>3. answer \in [Job -> {"none", "value", "error", "hung", "never started"}]
    BY DEF IInv, TypeOK
  <2>4. mine \in Job /\ answer[mine] = "none" /\ mine <= Performed
    BY <1>6, <2>1
  <2>5. Told[mine] = "none" /\ Told' = [Told EXCEPT ![mine] = outcome[mine]]
    BY <2>1, <2>3, <2>4 DEF Told
  <2>6. Promise!Tell(mine)
    BY <2>1, <2>2, <2>4, <2>5 DEF Promise!Tell
  <2>7. QED BY <2>4, <2>6 DEF Promise!Next, Promise!Job, Job
<1>9. ASSUME NEW o \in {"value", "error"}, main = "running",
             outcome' = [outcome EXCEPT ![current] = o], main' \notin {"taken", "running"},
             UNCHANGED <<queue, jobs, answer>>
      PROVE  Promise!Next
  <2>1. /\ current \in Job /\ current <= jobs /\ Performed = current - 1
        /\ current = jobs - Len(queue) /\ Len(queue) \in Nat /\ jobs \in Nat
    BY <1>9, JobInHand
  <2>2. Performed' = current
    BY <1>9, <2>1 DEF Performed
  <2>3. Performed + 1 = current /\ Performed < jobs /\ Performed' = Performed + 1
    BY <2>1, <2>2 DEF Job
  <2>4. Told' = Told
    BY <1>9 DEF Told
  <2>5. Promise!Perform(o)
    BY <1>9, <2>3, <2>4 DEF Promise!Perform
  <2>6. QED BY <2>5 DEF Promise!Next
<1>10. CASE Complete
  <2>1. /\ main = "running" /\ main' \notin {"taken", "running"}
        /\ outcome' = [outcome EXCEPT ![current] = "value"] /\ UNCHANGED <<queue, jobs, answer>>
    BY <1>10 DEF Complete
  <2>2. QED BY <1>9, <2>1
<1>11. CASE Raise
  <2>1. /\ main = "running" /\ main' \notin {"taken", "running"}
        /\ outcome' = [outcome EXCEPT ![current] = "error"] /\ UNCHANGED <<queue, jobs, answer>>
    BY <1>11 DEF Raise
  <2>2. QED BY <1>9, <2>1
<1>12. ASSUME UNCHANGED <<jobs, outcome, answer>>, Performed' = Performed
       PROVE  UNCHANGED Promise!vars
  BY <1>12 DEF Promise!vars, Told
<1>13. CASE Take
  <2>1. /\ main = "drained" /\ queue # << >> /\ queue' = Tail(queue)
        /\ main' \in {"taken", "running"} /\ UNCHANGED <<jobs, outcome, answer>>
    BY <1>13 DEF Take, eventVars
  <2>2. queue \in Seq(Job) /\ jobs \in Int
    BY Counts
  <2>3. Len(queue) \in Nat /\ Len(queue') = Len(queue) - 1
    BY <2>1, <2>2, LenProperties, HeadTailProperties
  <2>4. Performed' = Performed
    BY <2>1, <2>2, <2>3 DEF Performed
  <2>5. QED BY <1>12, <2>1, <2>4
<1>14. CASE Start \/ LogIfTimedOut \/ Finish
  <2>1. main \in {"taken", "running"} <=> main' \in {"taken", "running"}
    BY <1>14 DEF Start, LogIfTimedOut, Finish
  <2>2. UNCHANGED <<queue, jobs, outcome, answer>>
    BY <1>14 DEF Start, LogIfTimedOut, Finish
  <2>3. QED BY <1>12, <2>1, <2>2 DEF Performed
<1>15. CASE Wake \/ Expire \/ GiveUp \/ RecordSent \/ LookAtQueue
  <2>1. UNCHANGED <<queue, jobs, main, outcome, answer>>
    BY <1>15 DEF Wake, Expire, GiveUp, RecordSent, LookAtQueue, mainVars, eventVars
  <2>2. QED BY <1>12, <2>1 DEF Performed
<1>16. ASSUME NEW k \in Kinds \ {"event"}, NEW n \in 1 .. MaxText, Request(k, n)
       PROVE  UNCHANGED Promise!vars
  <2>1. UNCHANGED <<queue, jobs, main, outcome, answer>>
    BY <1>16 DEF Request, mainVars, eventVars
  <2>2. QED BY <1>12, <2>1 DEF Performed
<1>17. CASE UNCHANGED vars
  BY <1>12, <1>17 DEF vars, Performed
<1>18. QED
  BY <1>2, <1>3, <1>5, <1>7, <1>8, <1>10, <1>11, <1>13, <1>14, <1>15, <1>16, <1>17
     DEF Next, SessionOver

\* run_on_main_thread and its runner implement WorkQueue: jobs are done one at a time in
\* the order handed over, and a caller is told its own job's outcome or of a timeout.
THEOREM MainThreadRefinement == Spec => ImplementsWorkQueue
<1>1. QED BY InitMaps, StepMaps, MainThreadInvariant, PTL
          DEF Spec, ImplementsWorkQueue, Promise!Spec

===============================================================================
