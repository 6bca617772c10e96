-------------------------------- MODULE Hearing --------------------------------
(***************************************************************************)
(* What a test hears: from the speech tap inside NVDA to the verdict of    *)
(* should_hear.                                                            *)
(*                                                                         *)
(* The tap (speech_tap.py) keeps what NVDA speaks in a capped log and      *)
(* counts cancellations.  Every action of a test records the log's index   *)
(* as the mark of last_action (client.py); should_hear, should_not_hear    *)
(* and expecting_speech (dsl/hearing.py) search the log from such a mark.  *)
(* Clearing the log, reset() and relaunching NVDA start its indexes again, *)
(* and the marks have to follow.                                           *)
(*                                                                         *)
(* The host and the RPC thread that serves it are one actor; NVDA's main   *)
(* thread, which speaks and cancels whenever it likes, is the other, and   *)
(* NVDA may die at any step.  When an action's mark is recorded, and whose *)
(* speech follows it, is the subject of ActionMark.                        *)
(***************************************************************************)
EXTENDS Integers, Sequences, FiniteSets

CONSTANTS Capacity,      \* of the speech log
          MaxSaid,       \* bound: utterances of a session
          MaxCancels,    \* bound: cancellations between two clears
          MaxLaunches,   \* bound: processes of a session
          MaxEmptied     \* bound: how often the log starts again

ASSUME BoundsAssumption ==
  /\ Capacity \in Nat \ {0} /\ MaxSaid \in Nat /\ MaxCancels \in Nat
  /\ MaxLaunches \in Nat /\ MaxEmptied \in Nat

\* What the matcher looks for, and anything else.
Texts == {"wanted", "other"}

\* An utterance is told apart by its number in the session, which the code does not know.
Utterances == [text : Texts, nr : Nat]

Log == INSTANCE CappedLogOps WITH Items <- Utterances

NoPid == 0

VARIABLES
  \* NVDA and speech_tap
  up,             \* the process the client talks to is alive
  cancelling,     \* the main thread is between the two halves of _on_speech_canceled
  log,            \* _SEQUENCES
  cancellations,  \* _CANCELLATIONS
  lock,           \* _LOCK is held by speech_clear
  \* NvdaClient and Hearing
  pid,            \* of the handshake
  mark,           \* last_action
  entry,          \* the mark of the expecting_speech block, with the pid it was entered at
  pc,             \* where the host is
  op,             \* in what, and afterwards how a wait for speech ended
  \* ghosts
  said,           \* utterances so far
  base,           \* utterances before those the log counts from
  epoch,          \* how often the log started again
  cleared,        \* the epochs the test itself began in this process, by clear() or reset()
  heard           \* in a wait: utterances when the host last turned to the log, else 0

nvdaVars == <<up, cancelling, log, cancellations, lock>>
hostVars == <<pid, mark, entry, pc, op>>
ghosts   == <<said, base, epoch, cleared, heard>>
vars     == <<nvdaVars, hostVars, ghosts>>

\* The code's mark is the index; the rest is what the properties remember of its recording.
Mark(index, at) == [index |-> index, at |-> at, epoch |-> epoch]

NoBlock == [pid |-> NoPid, mark |-> [index |-> 0, at |-> 0, epoch |-> 0]]

InBlock == entry.pid # NoPid

Init ==
  /\ up = TRUE /\ cancelling = FALSE
  /\ log = Log!NewLog /\ cancellations = 0 /\ lock = FALSE
  /\ pid = 1 /\ mark = NoBlock.mark /\ entry = NoBlock
  /\ pc = "ready" /\ op = "none"
  /\ said = 0 /\ base = 0 /\ epoch = 0 /\ cleared = {} /\ heard = 0

-------------------------------------------------------------------------------
(* NVDA.                                                                       *)

\* _on_speech_queued
SpeechQueued(text) ==
  /\ up /\ ~cancelling /\ said < MaxSaid
  /\ log' = Log!Appended(log, [item |-> [text |-> text, nr |-> said + 1], cancelled |-> FALSE])
  /\ said' = said + 1
  /\ UNCHANGED <<up, cancelling, cancellations, lock, hostVars, base, epoch, cleared, heard>>

\* _on_speech_canceled counts under _LOCK.
SpeechCanceled ==
  /\ up /\ ~cancelling /\ ~lock /\ cancellations < MaxCancels
  /\ cancellations' = cancellations + 1
  /\ cancelling' = TRUE
  /\ UNCHANGED <<up, log, lock, hostVars, ghosts>>

\* Then, without the lock, it marks whatever is the last sequence by now.
MarkCanceled ==
  /\ up /\ cancelling
  /\ log' = Log!MarkedLast(log)
  /\ cancelling' = FALSE
  /\ UNCHANGED <<up, cancellations, lock, hostVars, ghosts>>

\* NVDA is gone, and all it held in memory.
Dead ==
  /\ up' = FALSE /\ cancelling' = FALSE
  /\ log' = Log!NewLog /\ cancellations' = 0 /\ lock' = FALSE
  /\ UNCHANGED ghosts

Crash == up /\ Dead /\ UNCHANGED hostVars

-------------------------------------------------------------------------------
(* Recording marks.                                                            *)

\* Mutant of NewMark: a mark is a place in the list of kept sequences.
NewMarkUnshifted == Mark(Len(log.items), said)

\* Where the log stands now.
NewMark == Mark(Log!IndexOf(log), said)

\* mark_action, before the job of keys.press, keys.type_text or exec_nowait is queued.
MarkAction ==
  /\ pc = "ready" /\ up
  /\ mark' = NewMark /\ op' = "none"
  /\ UNCHANGED <<nvdaVars, pid, entry, pc, ghosts>>

\* Entering an expecting_speech block: mark_action, and the pid is remembered.
EnterBlock ==
  /\ pc = "ready" /\ up /\ ~InBlock
  /\ mark' = NewMark /\ entry' = [pid |-> pid, mark |-> NewMark] /\ op' = "none"
  /\ UNCHANGED <<nvdaVars, pid, pc, ghosts>>

\* A block that raises asserts nothing.
LeaveBlock ==
  /\ pc = "ready" /\ InBlock
  /\ entry' = NoBlock /\ op' = "none"
  /\ UNCHANGED <<nvdaVars, pid, mark, pc, ghosts>>

-------------------------------------------------------------------------------
(* speech.clear(), reset() and relaunching.                                    *)

\* The test calls speech.clear(), or reset(), which begins with it.
AskClear(o) ==
  /\ pc = "ready" /\ epoch < MaxEmptied
  /\ pc' = "clear" /\ op' = o
  /\ UNCHANGED <<nvdaVars, pid, mark, entry, ghosts>>

Emptied ==
  /\ log' = Log!Cleared(log)
  /\ base' = said /\ epoch' = epoch + 1
  /\ cleared' = cleared \cup {[by |-> op, epoch |-> epoch + 1]}

\* Mutant of ClearItems: _LOCK is not taken.
ClearItemsUnlocked ==
  /\ pc = "clear" /\ up
  /\ Emptied
  /\ pc' = "clearing"
  /\ UNCHANGED <<up, cancelling, cancellations, lock, pid, mark, entry, op, said, heard>>

\* speech_clear, first half.
ClearItems ==
  /\ pc = "clear" /\ up
  /\ lock' = TRUE /\ Emptied
  /\ pc' = "clearing"
  /\ UNCHANGED <<up, cancelling, cancellations, pid, mark, entry, op, said, heard>>

\* Mutant of MarkAfterClear: reset() keeps the last action.
MarkKept == mark

\* reset() sets last_action to START, whether its steps succeeded or not.
MarkAfterClear == IF op = "reset" THEN Mark(0, base) ELSE mark

\* speech_clear, second half.
ClearCount ==
  /\ pc = "clearing" /\ up
  /\ cancellations' = 0 /\ lock' = FALSE
  /\ mark' = MarkAfterClear
  /\ pc' = "ready" /\ op' = "none"
  /\ UNCHANGED <<up, cancelling, log, pid, entry, ghosts>>

\* ConnectionLost: NVDA died before or during the call.
CallFails ==
  /\ pc \in {"clear", "clearing", "poll"} /\ ~up
  /\ mark' = MarkAfterClear
  /\ pc' = "ready" /\ op' = "none" /\ heard' = 0
  /\ UNCHANGED <<nvdaVars, pid, entry, said, base, epoch, cleared>>

\* restart_harness or restart_nvda: the old process is gone, a new one runs and may speak.
Relaunch ==
  /\ pc = "ready" /\ pid < MaxLaunches /\ epoch < MaxEmptied
  /\ up' = TRUE /\ cancelling' = FALSE
  /\ log' = Log!NewLog /\ cancellations' = 0 /\ lock' = FALSE
  /\ base' = said /\ epoch' = epoch + 1 /\ cleared' = {}
  /\ pc' = "launching" /\ op' = "none"
  /\ UNCHANGED <<pid, mark, entry, said, heard>>

\* Mutant of Reattach: the old mark is kept.
ReattachKeepsMark ==
  /\ pc = "launching"
  /\ pid' = pid + 1
  /\ pc' = "ready"
  /\ UNCHANGED <<nvdaVars, mark, entry, op, ghosts>>

\* It announced itself: _reattach.
Reattach ==
  /\ pc = "launching"
  /\ pid' = pid + 1 /\ mark' = Mark(0, base)
  /\ pc' = "ready"
  /\ UNCHANGED <<nvdaVars, entry, op, ghosts>>

\* It did not: nothing answers the client any more.
RelaunchFails ==
  /\ pc = "launching" /\ Dead
  /\ pc' = "ready"
  /\ UNCHANGED <<pid, mark, entry, op>>

-------------------------------------------------------------------------------
(* should_hear, should_not_hear, and leaving an expecting_speech block.        *)

\* Mutant of SearchMark: the block's entry, whatever was relaunched in it.
EntryMark == entry.mark

\* _search_mark: a block that relaunched NVDA searches all of the new process's speech.
SearchMark == IF pid = entry.pid THEN entry.mark ELSE Mark(0, base)

Target == IF op = "exit" THEN SearchMark ELSE mark

Listen(o) ==
  /\ pc = "ready"
  /\ o = "exit" => InBlock
  /\ pc' = "poll" /\ op' = o /\ heard' = said
  /\ UNCHANGED <<nvdaVars, pid, mark, entry, said, base, epoch, cleared>>

\* What since() returns for a mark.
Shown(m) == {Log!Since(log, m.index)[k].item : k \in 1 .. Len(Log!Since(log, m.index))}

\* Hearing._found
Found == \E u \in Shown(Target) : u.text = "wanted"

\* The wait is over; an expecting_speech block is left with it.
EndOfWait(outcome) ==
  /\ pc' = "ready" /\ op' = outcome /\ heard' = 0
  /\ entry' = IF op = "exit" THEN NoBlock ELSE entry
  /\ UNCHANGED <<nvdaVars, pid, mark, said, base, epoch, cleared>>

\* wait_until's check finds the text.
CheckFinds == pc = "poll" /\ up /\ Found /\ EndOfWait("found")

\* It does not: the clock is read next, and NVDA goes on meanwhile.
CheckMisses ==
  /\ pc = "poll" /\ up /\ ~Found
  /\ pc' = "checked" /\ heard' = said
  /\ UNCHANGED <<nvdaVars, pid, mark, entry, op, said, base, epoch, cleared>>

\* The deadline has not come: time.sleep, and another check.
PollAgain ==
  /\ pc = "checked"
  /\ pc' = "poll" /\ heard' = said
  /\ UNCHANGED <<nvdaVars, pid, mark, entry, op, said, base, epoch, cleared>>

\* Mutant of Expire: the clock is read before the check.
ExpireUnchecked == pc \in {"poll", "checked"} /\ EndOfWait("absent")

\* The deadline has passed.
Expire == pc = "checked" /\ EndOfWait("absent")

-------------------------------------------------------------------------------
Next ==
  \/ \E text \in Texts : SpeechQueued(text)
  \/ SpeechCanceled \/ MarkCanceled \/ Crash
  \/ MarkAction \/ EnterBlock \/ LeaveBlock
  \/ \E o \in {"reset", "clear"} : AskClear(o)
  \/ ClearItems \/ ClearCount \/ CallFails
  \/ Relaunch \/ Reattach \/ RelaunchFails
  \/ \E o \in {"hear", "exit"} : Listen(o)
  \/ CheckFinds \/ CheckMisses \/ PollAgain \/ Expire

Spec == Init /\ [][Next]_vars

-------------------------------------------------------------------------------
Places == {"ready", "clear", "clearing", "launching", "poll", "checked"}

Marks == [index : Nat, at : Nat, epoch : Nat]

\* Type invariant of NVDA, its tap and the host.
TypeOK ==
  /\ up \in BOOLEAN /\ cancelling \in BOOLEAN
  /\ log \in Log!Logs /\ cancellations \in Nat /\ lock \in BOOLEAN
  /\ pid \in Nat /\ mark \in Marks /\ entry \in [pid : Nat, mark : Marks]
  /\ pc \in Places /\ op \in {"none", "reset", "clear", "hear", "exit", "found", "absent"}
  /\ said \in Nat /\ base \in Nat /\ epoch \in Nat /\ heard \in Nat
  /\ cleared \subseteq [by : {"reset", "clear"}, epoch : Nat]

\* The marks that a wait for speech would use, if one began now.
MarksInUse == {mark} \cup (IF InBlock THEN {SearchMark} ELSE {})

\* The client talks to the process whose log this is, and no clear is under way.
Attached == up /\ pc \notin {"launching", "clearing"}

Held == {log.items[k].item : k \in 1 .. Len(log.items)}

\* An assertion never sees speech from before its mark, whatever was evicted, cleared or
\* relaunched since (mark_action, client.py; CappedLog.since; reset; _reattach; _search_mark).
OnlyNewSpeechIsShown ==
  Attached => \A m \in MarksInUse : \A u \in Shown(m) : u.nr > m.at

\* The test emptied the log under a mark: by clear(), or for a block's entry also by reset().
Overtaken(m, by) == m.index > 0 /\ \E c \in cleared : c.by \in by /\ c.epoch > m.epoch

\* Speech the log holds from after the last action, or from after the block was entered or
\* NVDA relaunched in it, is seen, unless the test emptied the log itself in between.
NewSpeechIsShown ==
  Attached =>
    /\ ~Overtaken(mark, {"clear"}) => \A u \in Held : u.nr > mark.at => u \in Shown(mark)
    /\ InBlock /\ ~Overtaken(SearchMark, {"clear", "reset"}) =>
         \A u \in Held : u.nr > SearchMark.at => u \in Shown(SearchMark)

\* The numbers of the sequences the log holds are the positions it gives them, counted from
\* where it last started.
LogIsNumbered ==
  /\ base <= said
  /\ IF up THEN said = base + Log!IndexOf(log) ELSE log = Log!NewLog
  /\ Len(log.items) <= Capacity
  /\ \A k \in 1 .. Len(log.items) : log.items[k].item.nr = base + log.dropped + k

\* A mark of this log's epoch tells how much had been said; an older one is behind the base.
MarkIsRecorded(m) ==
  /\ m.epoch <= epoch /\ m.at <= said
  /\ IF m.epoch = epoch THEN m.at = base + m.index ELSE m.at <= base

Current(m, by) == m.epoch = epoch \/ Overtaken(m, by) \/ m.index = 0

\* Every mark is of this epoch or the start of any, but for those the test overtook or a
\* relaunch or reset is about to replace.
MarksFollow ==
  up /\ pc # "launching" =>
    /\ ~(pc = "clearing" /\ op = "reset") => Current(mark, {"clear"})
    /\ InBlock /\ pid = entry.pid => Current(entry.mark, {"clear", "reset"})

\* What the host is doing fits where it is.
Doing ==
  /\ pc \in {"clear", "clearing"} => op \in {"reset", "clear"}
  /\ pc \in {"poll", "checked"} => op = "hear" \/ (op = "exit" /\ InBlock)

CancelledIn(l) == {k \in 1 .. Len(l.items) : l.items[k].cancelled}

\* A sequence is marked after it was counted; what the host empties meanwhile leaves nothing to
\* mark, and nothing marked to the second half of speech_clear.
Counted ==
  /\ Cardinality(CancelledIn(log)) + (IF cancelling /\ log.items # << >> THEN 1 ELSE 0) <= cancellations
  /\ lock => CancelledIn(log) = {} /\ (cancelling => log.items = << >>)
  /\ up /\ pc = "clearing" => lock

\* What the last check did not find is not in the log, whatever NVDA says and the log evicts
\* until the clock is read.
Listened ==
  /\ heard <= said
  /\ pc = "checked" /\ ~Overtaken(Target, {"clear", "reset"}) =>
       \A u \in Held : u.nr > Target.at /\ u.nr <= heard => u.text # "wanted"

\* The inductive invariant.
IInv ==
  /\ TypeOK
  /\ LogIsNumbered
  /\ MarkIsRecorded(mark) /\ (InBlock => MarkIsRecorded(entry.mark))
  /\ entry.pid <= pid
  /\ MarksFollow
  /\ Doing
  /\ Counted
  /\ Listened

\* cancel_count() is never less than the number of sequences marked cancelled, though the
\* handler counts and marks in two steps and speech_clear empties and resets in two
\* (_on_speech_canceled, speech_clear).
CancelledAreCounted == Cardinality(CancelledIn(log)) <= cancellations

\* A wait that ends without the text has missed no more than what was said after its last check,
\* which came after its last sleep and its beginning: of what was said until then, from after the
\* mark, the log holds nothing that matches, unless the test emptied it in between.  What is said
\* between the check and the look at the clock is missed (wait_until, Hearing._found).
AbsenceIsReal ==
  [][op' = "absent" /\ pc \in {"poll", "checked"} /\ ~Overtaken(Target, {"clear", "reset"})
       => \A u \in Held : u.nr > Target.at /\ u.nr <= heard => u.text # "wanted"]_vars

-------------------------------------------------------------------------------
(* What the code's documents say and the code does not do.                     *)

\* "nvda.should_hear("text") waits for speech produced after the last action" (guide/dsl.adoc).
HearsSinceTheLastAction ==
  Attached => \A u \in Held : u.nr > mark.at => u \in Shown(mark)

===============================================================================
