------------------------------ MODULE ActionMark -------------------------------
(***************************************************************************)
(* Whose speech follows a mark.                                            *)
(*                                                                         *)
(* Before an action of a test sends its gesture or scenario, mark_action   *)
(* (client.py) waits up to a second for NVDA to go idle and then records   *)
(* the speech log's index.  NVDA's main thread runs the events of its      *)
(* queue one after the other; each may speak, and may queue another that   *)
(* belongs to the same action, as the focus event a gesture leads to.      *)
(* NVDA queues events of its own, too.                                     *)
(*                                                                         *)
(* The log is taken as one that never evicts (AppendLog, which CappedLog   *)
(* implements).  wait_until_idle is taken as MainThread shows it: it       *)
(* answers True when its no-op was run and the queue was found empty; the  *)
(* event the main thread may have in its hand by then is not looked at.    *)
(***************************************************************************)
EXTENDS Integers, Sequences

CONSTANTS MaxActions,    \* bound: actions that record a mark
          MaxSaid,       \* bound: utterances
          MaxQueue       \* bound: waiting events at which NVDA queues no more

ASSUME BoundsAssumption == MaxActions \in Nat /\ MaxSaid \in Nat /\ MaxQueue \in Nat

\* An event or utterance is told apart by the action that led to it.  The code has no such
\* number; the properties need it.
Own  == 0                 \* no action: NVDA itself
Noop == MaxActions + 1    \* the no-op of wait_until_idle
None == MaxActions + 2    \* the main thread has no event in its hand

VARIABLES
  events,    \* queueHandler.eventQueue
  current,   \* the event the main thread is in
  spoken,    \* the speech log
  pc,        \* where mark_action is
  acts,      \* actions so far: the number of the one under way or the last
  quiet,     \* ghost: its wait ended with neither an event waiting nor one in hand
  mark       \* last_action: the index; ghosts: the action it is for, and its quiet

vars == <<events, current, spoken, pc, acts, quiet, mark>>

Init ==
  /\ events = << >> /\ current = None /\ spoken = << >>
  /\ pc = "ready" /\ acts = 0 /\ quiet = FALSE
  /\ mark = [index |-> 0, act |-> 0, quiet |-> FALSE]

-------------------------------------------------------------------------------
(* NVDA.                                                                       *)

\* NVDA queues an event of its own.
OwnEvent ==
  /\ Len(events) < MaxQueue
  /\ events' = Append(events, Own)
  /\ UNCHANGED <<current, spoken, pc, acts, quiet, mark>>

\* The main thread takes the next event; a no-op is over at once.
TakeEvent ==
  /\ current = None /\ events # << >>
  /\ events' = Tail(events)
  /\ current' = IF Head(events) = Noop THEN None ELSE Head(events)
  /\ UNCHANGED <<spoken, pc, acts, quiet, mark>>

\* The event in hand queues what follows from it.
FollowUp ==
  /\ current # None /\ Len(events) < MaxQueue
  /\ events' = Append(events, current)
  /\ UNCHANGED <<current, spoken, pc, acts, quiet, mark>>

\* The event in hand speaks.
Speak ==
  /\ current # None /\ Len(spoken) < MaxSaid
  /\ spoken' = Append(spoken, current)
  /\ UNCHANGED <<events, current, pc, acts, quiet, mark>>

FinishEvent ==
  /\ current # None
  /\ current' = None
  /\ UNCHANGED <<events, spoken, pc, acts, quiet, mark>>

-------------------------------------------------------------------------------
(* mark_action, and the action it is called for.                               *)

\* The test takes its next step: keys.press, keys.type_text, exec_nowait.
BeginAction ==
  /\ pc = "ready" /\ acts < MaxActions
  /\ pc' = "settle" /\ acts' = acts + 1 /\ quiet' = FALSE
  /\ UNCHANGED <<events, current, spoken, mark>>

\* _idle_within: wait_until_idle queues its no-op.
AskIdle ==
  /\ pc = "settle"
  /\ events' = Append(events, Noop)
  /\ pc' = "settling"
  /\ UNCHANGED <<current, spoken, acts, quiet, mark>>

NoopIsOver == \A i \in 1 .. Len(events) : events[i] # Noop

\* Mutant of LookIdle: the no-op's return is answer enough.
LookIdleAfterNoop ==
  /\ pc = "settling" /\ NoopIsOver
  /\ pc' = "mark" /\ quiet' = (current = None)
  /\ UNCHANGED <<events, current, spoken, acts, mark>>

\* The answer is True: the no-op was run and the queue is empty.
LookIdle ==
  /\ pc = "settling" /\ events = << >>
  /\ pc' = "mark" /\ quiet' = (current = None)
  /\ UNCHANGED <<events, current, spoken, acts, mark>>

\* The answer is False, and there is time left to ask again.
LookBusy ==
  /\ pc = "settling" /\ NoopIsOver /\ events # << >>
  /\ pc' = "settle"
  /\ UNCHANGED <<events, current, spoken, acts, quiet, mark>>

\* Mutant of BudgetSpent: a no-op that was not run is waited for.
BudgetIgnored ==
  /\ pc = "settling" /\ NoopIsOver /\ events # << >>
  /\ pc' = "mark"
  /\ UNCHANGED <<events, current, spoken, acts, quiet, mark>>

\* The answer is False, or the call timed out, which takes all the time left.
BudgetSpent ==
  /\ pc = "settling" /\ events # << >>
  /\ pc' = "mark"
  /\ UNCHANGED <<events, current, spoken, acts, quiet, mark>>

\* The index is read and last_action set.
RecordMark ==
  /\ pc = "mark"
  /\ mark' = [index |-> Len(spoken), act |-> acts, quiet |-> quiet]
  /\ pc' = "act"
  /\ UNCHANGED <<events, current, spoken, acts, quiet>>

\* The action's own event is queued.  Its call returns when that is over or a timeout passed,
\* whatever comes first, so the next step of the test may come at any time.
Act ==
  /\ pc = "act"
  /\ events' = Append(events, acts)
  /\ pc' = "ready"
  /\ UNCHANGED <<current, spoken, acts, quiet, mark>>

-------------------------------------------------------------------------------
\* The test is over.
SessionOver == pc = "ready" /\ acts = MaxActions /\ UNCHANGED vars

HostStep == AskIdle \/ LookIdle \/ LookBusy \/ BudgetSpent \/ RecordMark \/ Act

Next ==
  \/ OwnEvent \/ TakeEvent \/ FollowUp \/ Speak \/ FinishEvent
  \/ BeginAction \/ AskIdle \/ LookIdle \/ LookBusy \/ BudgetSpent \/ RecordMark \/ Act
  \/ SessionOver

\* The host runs, and its budget is spent however often NVDA answers that it is busy.
\* Nothing is assumed of NVDA.
Spec == Init /\ [][Next]_vars /\ WF_vars(HostStep) /\ SF_vars(BudgetSpent)

-------------------------------------------------------------------------------
Causes == 0 .. MaxActions

\* Type invariant of the queue, the log and the host.
TypeOK ==
  /\ events \in Seq(Causes \cup {Noop}) /\ current \in Causes \cup {None}
  /\ spoken \in Seq(Causes)
  /\ pc \in {"ready", "settle", "settling", "mark", "act"} /\ acts \in Causes
  /\ quiet \in BOOLEAN
  /\ mark \in [index : Nat, act : Causes, quiet : BOOLEAN]

\* Nothing in NVDA belongs to an action before this one.
NothingBefore(act) ==
  /\ events \in Seq({Own, Noop} \cup act .. MaxActions)
  /\ current \in {Own, None} \cup act .. MaxActions

\* If the wait before an action ended with NVDA quiet, all that is heard from its mark on is
\* speech of that action or of NVDA itself: none of an earlier action ("Waits for NVDA to go
\* idle first so speech still in flight from the previous action is not attributed to this
\* one", mark_action, client.py).
AttributedToOwnAction ==
  mark.quiet =>
    \A i \in 1 .. Len(spoken) : i > mark.index => spoken[i] = Own \/ spoken[i] >= mark.act

\* The inductive invariant: quiet at the end of the wait stays free of earlier actions.
IInv ==
  /\ TypeOK
  /\ mark.index <= Len(spoken)
  /\ quiet /\ pc \in {"mark", "act", "ready"} => NothingBefore(acts)
  /\ pc \in {"settle", "settling"} => ~quiet
  /\ mark.quiet => NothingBefore(mark.act)
  /\ mark.act <= acts
  /\ AttributedToOwnAction

\* The wait before an action ends, and the action is sent, however busy or hung NVDA is ("If
\* NVDA still reports queued work after about a second, the mark is recorded anyway",
\* mark_action, client.py).
EveryActionIsSent == pc # "ready" ~> pc = "ready"

===============================================================================
