------------------------------ MODULE MainThread ------------------------------
(***************************************************************************)
(* Work handed from the spy's RPC thread to NVDA's main thread.            *)
(*                                                                         *)
(* run_on_main_thread (mainthread.py) wraps a function in a runner with    *)
(* three events (started, finished, timed_out) and an outcome cell, queues *)
(* it on NVDA's event queue and waits for finished with a timeout.  The    *)
(* handlers built on it are keys_press and keys_type (input_api.py), which *)
(* record a gesture in _SENT once it was processed, and wait_until_idle    *)
(* (server.py), which waits for a no-op and then looks at the queue.       *)
(* exec_in_nvda_nowait (eval_api.py) queues a job and does not wait.       *)
(*                                                                         *)
(* The two threads are interleaved between any two operations on shared    *)
(* state.  A wait may time out whenever finished is not set, and a job may *)
(* take forever: a hung add-on, or a modal dialog the job itself opened.   *)
(* NVDA's other threads post events to the same queue.                     *)
(***************************************************************************)
EXTENDS Integers, Sequences

CONSTANTS MaxJobs,    \* bound: jobs queued in a session, NVDA's own events included
          MaxText     \* bound: gestures one call sends (keys_type sends one per character)

ASSUME BoundsAssumption == MaxJobs \in Nat /\ MaxText \in Nat

VARIABLES
  \* NVDA's event queue and the thread that drains it
  queue,        \* numbers of the jobs waiting, oldest first
  jobs,         \* how many were ever queued: they are numbered in queue order
  kind,         \* what each job is
  current,      \* the job the main thread took last
  main,         \* where the main thread is in it
  \* the cell and the events that run_on_main_thread shares with its runner
  outcome, started, finished, timedOut,
  logged,       \* jobs whose failure was written to NVDA's log
  \* the RPC thread, which serves one request at a time
  rpc,          \* where it is in the request
  call,         \* the request's kind
  mine,         \* the job it waits for
  left,         \* gestures of the request not yet queued
  answer,       \* how the wait for each job ended
  reply,        \* what the last request returned
  sent          \* input_api._SENT

mainVars  == <<current, main>>
eventVars == <<outcome, started, finished, logged>>
rpcVars   == <<rpc, call, mine, left>>
vars      == <<queue, jobs, kind, current, main, outcome, started, finished, timedOut,
               logged, rpc, call, mine, left, answer, reply, sent>>

Job == 1 .. MaxJobs

Kinds == {"press", "idle", "nowait", "event"}

\* Jobs wrapped in a runner: somebody waits for them.
Awaited(j) == kind[j] \in {"press", "idle"}

Init ==
  /\ queue = << >> /\ jobs = 0 /\ kind = [j \in Job |-> "event"]
  /\ current = 0 /\ main = "drained"
  /\ outcome = [j \in Job |-> "missing"]
  /\ started = {} /\ finished = {} /\ timedOut = {} /\ logged = {}
  /\ rpc = "ready" /\ call = "idle" /\ mine = 0 /\ left = 0
  /\ answer = [j \in Job |-> "none"]
  /\ reply = "none" /\ sent = << >>

\* Mutant of Enqueue: the job goes first.
EnqueueFirst(k) ==
  /\ jobs < MaxJobs
  /\ jobs' = jobs + 1
  /\ kind' = [kind EXCEPT ![jobs + 1] = k]
  /\ queue' = <<jobs + 1>> \o queue

\* queueHandler.queueFunction: the job goes last.
Enqueue(k) ==
  /\ jobs < MaxJobs
  /\ jobs' = jobs + 1
  /\ kind' = [kind EXCEPT ![jobs + 1] = k]
  /\ queue' = Append(queue, jobs + 1)

-------------------------------------------------------------------------------
(* The RPC thread.                                                             *)

\* A request arrives.  keys_press sends one gesture, keys_type any number of them.
Request(k, n) ==
  /\ rpc = "ready"
  /\ jobs + n <= MaxJobs
  /\ k # "press" => n = 1
  /\ rpc' = "submit" /\ call' = k /\ left' = n
  /\ UNCHANGED <<queue, jobs, kind, mainVars, eventVars, timedOut, mine, answer, reply, sent>>

\* run_on_main_thread queues the runner and starts waiting for it.
Submit ==
  /\ rpc = "submit" /\ call # "nowait"
  /\ Enqueue(call)
  /\ mine' = jobs + 1
  /\ left' = left - 1
  /\ rpc' = "waiting"
  /\ UNCHANGED <<mainVars, eventVars, timedOut, call, answer, reply, sent>>

\* exec_in_nvda_nowait queues its scenario and returns.
SubmitNowait ==
  /\ rpc = "submit" /\ call = "nowait"
  /\ Enqueue(call)
  /\ left' = left - 1
  /\ rpc' = "ready" /\ reply' = "ok"
  /\ UNCHANGED <<mainVars, eventVars, timedOut, call, mine, answer, sent>>

\* finished.wait returns True.
Wake ==
  /\ rpc = "waiting"
  /\ mine \in finished
  /\ rpc' = "collect"
  /\ UNCHANGED <<queue, jobs, kind, mainVars, eventVars, timedOut, call, mine, left,
                 answer, reply, sent>>

\* Mutant of Expire: the wait has no timeout until the job was started.
ExpireOnceStarted ==
  /\ rpc = "waiting"
  /\ mine \in started \ finished
  /\ rpc' = "expired"
  /\ UNCHANGED <<queue, jobs, kind, mainVars, eventVars, timedOut, call, mine, left,
                 answer, reply, sent>>

\* Mutant of Expire: a job whose caller gives up is taken out of the queue.
ExpireAndCancel ==
  /\ rpc = "waiting"
  /\ mine \notin finished
  /\ rpc' = "expired"
  /\ queue' = SelectSeq(queue, LAMBDA j : j # mine)
  /\ UNCHANGED <<jobs, kind, mainVars, eventVars, timedOut, call, mine, left, answer, reply,
                 sent>>

\* finished.wait returns False: the timeout passed and the event is still clear.
Expire ==
  /\ rpc = "waiting"
  /\ mine \notin finished
  /\ rpc' = "expired"
  /\ UNCHANGED <<queue, jobs, kind, mainVars, eventVars, timedOut, call, mine, left,
                 answer, reply, sent>>

\* timed_out.set()
GiveUp ==
  /\ rpc = "expired"
  /\ timedOut' = timedOut \cup {mine}
  /\ rpc' = "report"
  /\ UNCHANGED <<queue, jobs, kind, mainVars, eventVars, call, mine, left, answer, reply, sent>>

\* The request ends with an exception; keys_type gives up its remaining characters.
Fail(how) ==
  /\ answer' = [answer EXCEPT ![mine] = how]
  /\ reply' = how
  /\ left' = 0
  /\ rpc' = "ready"
  /\ UNCHANGED <<queue, jobs, kind, mainVars, eventVars, timedOut, call, mine, sent>>

\* Mutant of Report: a gesture is recorded although its wait was given up.
ReportAndRecord ==
  /\ rpc = "report"
  /\ answer' = [answer EXCEPT ![mine] = "hung"]
  /\ sent' = IF call = "press" THEN Append(sent, mine) ELSE sent
  /\ reply' = "hung" /\ left' = 0 /\ rpc' = "ready"
  /\ UNCHANGED <<queue, jobs, kind, mainVars, eventVars, timedOut, call, mine>>

\* The TimeoutError says what started.is_set() answers now.
Report ==
  /\ rpc = "report"
  /\ Fail(IF mine \in started THEN "hung" ELSE "never started")

\* raise outcome["error"]
Reraise ==
  /\ rpc = "collect" /\ outcome[mine] = "error"
  /\ Fail("error")

\* return outcome["value"]; the handler goes on with what it does next.
Return ==
  /\ rpc = "collect" /\ outcome[mine] = "value"
  /\ answer' = [answer EXCEPT ![mine] = "value"]
  /\ rpc' = IF call = "press" THEN "record" ELSE "look"
  /\ UNCHANGED <<queue, jobs, kind, mainVars, eventVars, timedOut, call, mine, left, reply, sent>>

\* keys_press appends to _SENT; keys_type goes on with its next character.
RecordSent ==
  /\ rpc = "record"
  /\ sent' = Append(sent, mine)
  /\ rpc' = IF left > 0 THEN "submit" ELSE "ready"
  /\ reply' = IF left > 0 THEN reply ELSE "ok"
  /\ UNCHANGED <<queue, jobs, kind, mainVars, eventVars, timedOut, call, mine, left, answer>>

\* Mutant of LookAtQueue: the no-op's return is taken for an idle queue.
LookAway ==
  /\ rpc = "look"
  /\ reply' = "idle"
  /\ rpc' = "ready"
  /\ UNCHANGED <<queue, jobs, kind, mainVars, eventVars, timedOut, call, mine, left, answer, sent>>

\* wait_until_idle returns eventQueue.empty().
LookAtQueue ==
  /\ rpc = "look"
  /\ reply' = IF queue = << >> THEN "idle" ELSE "busy"
  /\ rpc' = "ready"
  /\ UNCHANGED <<queue, jobs, kind, mainVars, eventVars, timedOut, call, mine, left, answer, sent>>

-------------------------------------------------------------------------------
(* NVDA's main thread, and the other threads that post to its queue.           *)

\* Another thread of NVDA queues an event; room is left for the request in progress.
Post ==
  /\ jobs + left < MaxJobs
  /\ Enqueue("event")
  /\ UNCHANGED <<mainVars, eventVars, timedOut, rpcVars, answer, reply, sent>>

\* Mutant of Take: a job whose caller gave up is taken and not run.
TakeUnlessTimedOut ==
  /\ main = "drained"
  /\ queue # << >>
  /\ queue' = Tail(queue)
  /\ IF Head(queue) \in timedOut
     THEN UNCHANGED <<current, main>>
     ELSE /\ current' = Head(queue)
          /\ main' = IF Awaited(Head(queue)) THEN "taken" ELSE "running"
  /\ UNCHANGED <<jobs, kind, eventVars, timedOut, rpcVars, answer, reply, sent>>

\* The event pump takes the oldest job off the queue before it calls it.
Take ==
  /\ main = "drained"
  /\ queue # << >>
  /\ current' = Head(queue)
  /\ queue' = Tail(queue)
  /\ main' = IF Awaited(Head(queue)) THEN "taken" ELSE "running"
  /\ UNCHANGED <<jobs, kind, eventVars, timedOut, rpcVars, answer, reply, sent>>

\* started.set()
Start ==
  /\ main = "taken"
  /\ started' = started \cup {current}
  /\ main' = "running"
  /\ UNCHANGED <<queue, jobs, kind, current, outcome, finished, logged, timedOut, rpcVars,
                 answer, reply, sent>>

\* fn() returns.
Complete ==
  /\ main = "running"
  /\ outcome' = [outcome EXCEPT ![current] = "value"]
  /\ main' = IF Awaited(current) THEN "finishing" ELSE "drained"
  /\ UNCHANGED <<queue, jobs, kind, current, started, finished, logged, timedOut, rpcVars,
                 answer, reply, sent>>

\* fn() raises: a gesture nobody knows, a scenario with a bug.  The no-op cannot.
Raise ==
  /\ main = "running"
  /\ kind[current] \in {"press", "nowait"}
  /\ outcome' = [outcome EXCEPT ![current] = "error"]
  /\ logged' = IF kind[current] = "nowait" THEN logged \cup {current} ELSE logged
  /\ main' = IF Awaited(current) THEN "raised" ELSE "drained"
  /\ UNCHANGED <<queue, jobs, kind, current, started, finished, timedOut, rpcVars,
                 answer, reply, sent>>

\* Mutant of LogIfTimedOut: every failure is logged.
LogAlways ==
  /\ main = "raised"
  /\ logged' = logged \cup {current}
  /\ main' = "finishing"
  /\ UNCHANGED <<queue, jobs, kind, current, outcome, started, finished, timedOut, rpcVars,
                 answer, reply, sent>>

\* The runner logs the failure if its caller has given up by now.
LogIfTimedOut ==
  /\ main = "raised"
  /\ logged' = IF current \in timedOut THEN logged \cup {current} ELSE logged
  /\ main' = "finishing"
  /\ UNCHANGED <<queue, jobs, kind, current, outcome, started, finished, timedOut, rpcVars,
                 answer, reply, sent>>

\* finished.set(), in the runner's finally.
Finish ==
  /\ main = "finishing"
  /\ finished' = finished \cup {current}
  /\ main' = "drained"
  /\ UNCHANGED <<queue, jobs, kind, current, outcome, started, logged, timedOut, rpcVars,
                 answer, reply, sent>>

-------------------------------------------------------------------------------
\* All the jobs of the session are used up and both threads are at rest.
SessionOver ==
  /\ jobs = MaxJobs /\ queue = << >> /\ main = "drained" /\ rpc = "ready"
  /\ UNCHANGED vars

RpcStep ==
  \/ Submit \/ SubmitNowait \/ Wake \/ Expire \/ GiveUp \/ Report \/ Reraise \/ Return
  \/ RecordSent \/ LookAtQueue

\* Everything the main thread does by itself once it runs; how long fn() takes is up to fn.
RunnerStep == Take \/ Start \/ LogIfTimedOut \/ Finish

JobStep == Complete \/ Raise

Next ==
  \/ \E k \in Kinds \ {"event"}, n \in 1 .. MaxText : Request(k, n)
  \/ Submit \/ SubmitNowait \/ Wake \/ Expire \/ GiveUp \/ Report \/ Reraise \/ Return
  \/ RecordSent \/ LookAtQueue
  \/ Post \/ Take \/ Start \/ Complete \/ Raise \/ LogIfTimedOut \/ Finish
  \/ SessionOver

Spec == Init /\ [][Next]_vars

\* The RPC thread is scheduled and its timeouts fire; nothing is assumed of NVDA.
FairRpc == Spec /\ WF_vars(RpcStep)

\* NVDA stays responsive: its event pump runs and every job returns.
NvdaResponds == WF_vars(RunnerStep) /\ WF_vars(JobStep)

-------------------------------------------------------------------------------
MainStates == {"drained", "taken", "running", "raised", "finishing"}

RpcStates ==
  {"ready", "submit", "waiting", "expired", "report", "collect", "record", "look"}

\* Type invariant of both threads and of what they share.
TypeOK ==
  /\ queue \in Seq(Job) /\ jobs \in 0 .. MaxJobs /\ kind \in [Job -> Kinds]
  /\ current \in 0 .. MaxJobs /\ main \in MainStates
  /\ outcome \in [Job -> {"missing", "value", "error"}]
  /\ started \subseteq Job /\ finished \subseteq Job
  /\ timedOut \subseteq Job /\ logged \subseteq Job
  /\ rpc \in RpcStates /\ call \in Kinds \ {"event"}
  /\ mine \in 0 .. MaxJobs /\ left \in Nat
  /\ answer \in [Job -> {"none", "value", "error", "hung", "never started"}]
  /\ reply \in {"none", "ok", "error", "hung", "never started", "idle", "busy"}
  /\ sent \in Seq(Job)

\* How many jobs the main thread is done with: all but those queued and the one in hand.
Performed == jobs - Len(queue) - (IF main \in {"taken", "running"} THEN 1 ELSE 0)

Done(j) == outcome[j] # "missing"

\* A wait that got its answer is a barrier: everything queued before its job is over.  It
\* is why a test that timed out cannot disturb what follows the next answered call
\* (run_on_main_thread over the FIFO event queue).
AnsweredIsBarrier ==
  \A j \in Job : answer[j] \in {"value", "error"} => \A i \in 1 .. j : Done(i)

\* The failure of a job is told once: to the caller, or to the log after the caller was told
\* of a timeout, never to both (the timed_out test in runner, mainthread.py).
FailureToldOnce ==
  \A j \in logged : Awaited(j) => answer[j] \notin {"value", "error"}

\* keys_sent() lists only gestures NVDA processed, in the order it processed them, however
\* many waits timed out in between (keys_press appends after run_on_main_thread returned).
SentWasProcessed ==
  \A i \in 1 .. Len(sent) :
    /\ kind[sent[i]] = "press" /\ outcome[sent[i]] = "value"
    /\ \A k \in 1 .. i - 1 : sent[k] < sent[i]

\* When wait_until_idle answers True, everything is over that was queued at that moment,
\* except at most the one job the main thread has already taken off the queue.
IdleLeavesOnlyTheCurrentJob ==
  [][LookAtQueue /\ reply' = "idle" => \A j \in 1 .. jobs : Done(j) \/ j = current]_vars

\* Every request is answered, also when NVDA hangs in a job or shows a modal dialog: the
\* RPC thread never waits without a timeout (mainthread.py, exec_in_nvda_nowait).
EveryRequestAnswered == rpc # "ready" ~> rpc = "ready"

\* While NVDA responds, a queued job is executed even if its caller gave up on it: its side
\* effects arrive later, in whatever runs then (runner is never taken back, mainthread.py).
EveryJobExecuted == NvdaResponds => \A j \in Job : j <= jobs ~> Done(j)

\* A caller that gave up was told of a timeout, whatever the message said.
Told == [j \in Job |-> IF answer[j] \in {"hung", "never started"} THEN "timeout" ELSE answer[j]]

\* The two threads together do what WorkQueue promises: jobs in order, one at a time, and
\* no caller told anything but its own job's outcome or a timeout.
Promise == INSTANCE WorkQueue WITH performed <- Performed, answer <- Told

ImplementsWorkQueue == Promise!Spec

-------------------------------------------------------------------------------
(* The inductive invariant: why the promises above hold.                       *)

\* How many jobs the main thread has taken off the queue.
Taken == jobs - Len(queue)

\* Job numbers are queue positions: the queue holds the jobs after the last one taken.
QueueInOrder ==
  /\ Len(queue) <= jobs
  /\ \A i \in 1 .. Len(queue) : queue[i] = Taken + i
  /\ main # "drained" => Taken >= 1 /\ current = Taken

\* Exactly the first jobs are over, one at a time, and nobody learns of an outcome before.
DoneInOrder ==
  /\ \A j \in Job : Done(j) <=> j <= Performed
  /\ \A j \in finished : Done(j)
  /\ \A j \in Job : answer[j] \in {"value", "error"} => Done(j)

\* The job the RPC thread waits for is its own, was queued, and has no answer yet.
WaitsForItsOwn ==
  /\ rpc \in {"waiting", "expired", "report", "collect", "record"} =>
       mine \in 1 .. jobs /\ kind[mine] = call
  /\ rpc \in {"waiting", "expired", "report", "collect"} =>
       answer[mine] = "none" /\ call \in {"press", "idle"}
  /\ rpc = "collect" => mine \in finished
  /\ rpc = "record" => call = "press" /\ outcome[mine] = "value"
  /\ rpc = "look" => call = "idle"
  /\ mine <= jobs
  /\ \A j \in Job : answer[j] # "none" => j <= jobs

\* Room for the gestures of the request in progress is kept.
RoomLeft ==
  /\ jobs + left <= MaxJobs
  /\ rpc = "submit" => left >= 1 /\ (call # "press" => left = 1)
  /\ rpc # "submit" /\ call # "press" => left = 0
  /\ rpc = "ready" => left = 0

\* timed_out tells the caller's side of the story before the runner may log.
LoggedAreTimedOut ==
  /\ \A j \in logged : j <= jobs /\ (Awaited(j) => j \in timedOut)
  /\ \A j \in timedOut : j <= mine /\ answer[j] \notin {"value", "error"}
  /\ rpc \in {"waiting", "expired", "collect"} => mine \notin timedOut
  /\ rpc = "report" => mine \in timedOut

\* _SENT grows by the job just answered, which is newer than all it holds.
SentInOrder ==
  /\ SentWasProcessed
  /\ \A i \in 1 .. Len(sent) : sent[i] <= mine
  /\ rpc \notin {"ready", "submit"} => \A i \in 1 .. Len(sent) : sent[i] < mine

IInv ==
  /\ TypeOK /\ QueueInOrder /\ DoneInOrder /\ WaitsForItsOwn
  /\ RoomLeft /\ LoggedAreTimedOut /\ SentInOrder

-------------------------------------------------------------------------------
(* What the code's documents say and the code does not do.                     *)

\* "Re-raises whatever fn raised, on the calling thread" (mainthread.py:25) and logs it
\* when the caller is gone: no failure of an awaited job is dropped.
NoFailureLost ==
  \A j \in finished :
    outcome[j] = "error" /\ answer[j] # "none" => answer[j] = "error" \/ j \in logged

\* wait_until_idle returns True "once NVDA's event queue has drained past this point", with
\* nothing "arrived behind it" (server.py:112-116): nothing is left to do.
IdleMeansNothingToDo ==
  [][LookAtQueue /\ reply' = "idle" => \A j \in 1 .. jobs : Done(j)]_vars

\* "sent() returns every gesture NVDA has processed this session" (guide/keys.adoc): true
\* at least when both threads are at rest.
SentIsEverythingProcessed ==
  rpc = "ready" /\ main = "drained" /\ queue = << >> =>
    \A j \in Job : kind[j] = "press" /\ outcome[j] = "value" =>
      \E i \in 1 .. Len(sent) : sent[i] = j

===============================================================================
