----------------------------- MODULE TestSession ------------------------------
(***************************************************************************)
(* A pytest session: the fixtures of plugin.py around each test, the steps *)
(* of the `nvda` object that change NVDA, and its teardown.                *)
(*                                                                         *)
(* The host does one thing at a time.  `phase` is the fixture or the test  *)
(* it is in, `todo` the calls it still has to make there; a call that      *)
(* raises goes where the code's try and finally send it (Raise).  NVDA     *)
(* runs its jobs, or dies, between any two of them (NvdaUnderTest).        *)
(*                                                                         *)
(* Bounds: MaxTests tests of MaxSteps steps; MaxFaults calls that time out *)
(* though no dialog blocks NVDA, deaths of NVDA, starts that fail and keys *)
(* that Windows rejects.                                                   *)
(***************************************************************************)
EXTENDS NvdaUnderTest

CONSTANTS
  Bundle,           \* the add-on of the setting addon-bundle
  FailOnLogErrors,  \* the setting fail_on_log_errors
  MaxTests, MaxSteps, MaxFaults

ASSUME SessionAssumption ==
  /\ Bundle \in Addons /\ FailOnLogErrors \in BOOLEAN
  /\ MaxTests \in Nat /\ MaxSteps \in Nat /\ MaxFaults \in Nat

VARIABLES
  phase, todo,
  tests, steps, faults,   \* counters of the bounds
  shared,                 \* the session fixture addon_under_test: unset, ready or failed
  uses,                   \* the test asks for it
  \* the test's Nvda object, and what its calls keep
  open,                   \* Dialogs._open
  installed,              \* Lifecycle._installed
  block,                  \* the test is inside `with nvda.dialog()`
  unwinding,              \* an exception is on its way out of the test
  initial,                \* initial_hwnd of the simulate_modal under way
  last,                   \* the scenario last queued
  \* ghosts
  problems,               \* what pytest reports: the phase, and the add-on it could not undo
  failures,               \* undo_all's failures: names of add-ons, and 0 for the relaunch after them
  paired,                 \* the simulate_modal under way took the baseline of scenario `last`
  recorded,               \* every add-on that was in _installed
  touched,                \* add-ons a test installed or removed itself
  left                    \* what the test left when its body ended

flow   == <<phase, todo, shared, open, block, unwinding, problems, failures, left>>
rest   == <<tests, steps, uses, installed, initial, last, paired, recorded, touched>>
vars   == <<nvda, flow, rest, faults>>

\* A call is its kind and its subject; an operation, the calls it makes in order.
Do(kind)    == <<kind, 0>>
CloseWith   == <<Do("take"), Do("look")>>
Adding(a)   == <<<<"install", a>>, Do("relaunch"), <<"enabled", a>>>>
Removing(a) == <<<<"remove", a>>, Do("relaunch"), <<"gone", a>>>>

\* NvdaClient.reset; the speech and braille taps are cleared as the log is.
Reset == <<Do("clear"), Do("restore")>>

\* Mutant of Nowait: the scenario is queued before the foreground window is remembered.
NowaitBeforeBaseline == <<Do("queue"), Do("remember")>>

\* exec_nowait, the call exec_in_nvda_nowait in its two steps.
Nowait == <<Do("remember"), Do("queue")>>

\* Mutant of Stages: the log is checked last.
StagesLogLast == <<"leftover", "undo", "log">>

\* What Nvda.finish gives to run_all.
Stages == <<"log", "leftover", "undo">>

\* Mutant of Leftover: a gesture that was sent closed the dialog.
LeftoverTrusting == <<Do("take"), Do("look"), Do("raise")>>

\* Dialogs.close_leftover of an open dialog; it raises in the end.
Leftover == <<Do("take"), Do("look"), Do("idle"), Do("raise")>>

\* Mutant of ToUndo: the add-on of the settings is removed too.
ToUndoBundle == <<<<"undo", Bundle>>>> \o [i \in DOMAIN installed |-> <<"undo", installed[i]>>]

\* Lifecycle.undo_all: the state of each add-on is asked for first.
ToUndo == [i \in DOMAIN installed |-> <<"undo", installed[i]>>]

StageCalls(stage) ==
  CASE stage = "log"      -> IF FailOnLogErrors THEN <<Do("logcheck")>> ELSE <<>>
    [] stage = "leftover" -> IF open THEN Leftover ELSE <<>>
    [] stage = "undo"     -> ToUndo

Init ==
  /\ NvdaInit
  /\ phase = "idle" /\ todo = <<>> /\ shared = "unset" /\ uses = FALSE
  /\ tests = 0 /\ steps = 0 /\ faults = 0
  /\ open = FALSE /\ installed = <<>> /\ block = FALSE /\ unwinding = FALSE
  /\ initial = Unset /\ last = NoDialog
  /\ problems = {} /\ failures = {} /\ paired = FALSE /\ recorded = {} /\ touched = {}
  /\ left = [open |-> FALSE, errors |-> FALSE]

Fault == faults < MaxFaults /\ faults' = faults + 1

-------------------------------------------------------------------------------
(* Where the host goes from a call that returned, and from one that raised.    *)

Problem(in) == <<in, 0>>

Then(calls) == todo' = calls /\ UNCHANGED <<phase, shared, problems, failures, left>>

Continue == Then(Tail(todo)) /\ UNCHANGED <<open, block, unwinding>>

\* What is noted to be done once, after the other calls.
Finally(calls, call) == IF \E i \in DOMAIN calls : calls[i] = call THEN calls ELSE Append(calls, call)

\* The test's body is over: finish.  The ghosts note what it left.
Finish(failed) ==
  /\ phase' = Stages[1] /\ todo' = StageCalls(Stages[1])
  /\ problems' = IF failed THEN problems \cup {Problem(phase)} ELSE problems
  /\ left' = [open |-> open, errors |-> errors]
  /\ UNCHANGED <<shared, failures>>

\* Mutant of RaiseInReset: what reset could not do is no reason to fail.
ResetWarns ==
  /\ phase \in {"setup", "reset"} /\ Continue

\* reset makes its other calls before it raises; the fixture nvda then goes to its finally, and
\* nvda_reset only warns.
RaiseInReset ==
  /\ phase \in {"setup", "reset"} /\ UNCHANGED <<open, block, unwinding>>
  /\ IF Head(todo)[1] \in {"clear", "restore"}
     THEN Then(Finally(Tail(todo), Do("raise")))
     ELSE IF phase = "setup" THEN Finish(TRUE) ELSE Then(<<>>)

\* addon_under_test fails once for all tests that ask for it; the fixture nvda is not set up.
RaiseInShared ==
  /\ phase = "shared"
  /\ phase' = "reset" /\ todo' = Reset /\ shared' = "failed"
  /\ problems' = {Problem("setup")}
  /\ UNCHANGED <<open, block, unwinding, failures, left>>

\* The test catches it; or it leaves the test, and on its way closes the dialog of a block.
RaiseInBody ==
  /\ phase = "body" /\ UNCHANGED open
  /\ \/ ~unwinding /\ Then(<<>>) /\ UNCHANGED <<block, unwinding>>
     \/ /\ unwinding' = TRUE /\ block' = FALSE
        /\ Then(IF block /\ open THEN CloseWith ELSE <<>>)

\* undo_all keeps what it fails at for the end, and raises the first of it only: that is all
\* run_all hears of.  Other stages end with what they raise.
Reports ==
  /\ problems' = IF failures = {} THEN problems \cup {<<phase, Head(todo)[2]>>} ELSE problems
  /\ failures' = IF phase = "undo" THEN failures \cup {Head(todo)[2]} ELSE failures

\* Mutant of RaiseInTeardown: the first add-on that cannot be removed ends undo_all.
RaiseAndStop ==
  /\ phase \in {"log", "leftover", "undo"} /\ UNCHANGED <<phase, shared, block, unwinding, left>>
  /\ IF phase = "leftover" /\ Head(todo)[1] \notin {"relaunch", "raise"}
     THEN todo' = <<Do("relaunch"), Do("raise")>> /\ UNCHANGED <<open, problems, failures>>
     ELSE todo' = <<>> /\ open' = (open /\ phase # "leftover") /\ Reports

\* close_leftover relaunches NVDA before it raises, undo_all goes on with the next add-on, and
\* run_all notes the problem and goes on with the next stage.
RaiseInTeardown ==
  /\ phase \in {"log", "leftover", "undo"} /\ UNCHANGED <<phase, shared, block, unwinding, left>>
  /\ IF phase = "leftover" /\ Head(todo)[1] \notin {"relaunch", "raise"}
     THEN todo' = <<Do("relaunch"), Do("raise")>> /\ UNCHANGED <<open, problems, failures>>
     ELSE /\ todo' = IF phase = "undo" THEN Tail(todo) ELSE <<>>
          /\ open' = (open /\ phase # "leftover")
          /\ Reports

Raise == RaiseInReset \/ RaiseInShared \/ RaiseInBody \/ RaiseInTeardown

-------------------------------------------------------------------------------
(* The calls.                                                                  *)

Now(kinds) == todo # <<>> /\ Head(todo)[1] \in kinds

Subject == Head(todo)[2]

\* Nobody answers: ConnectionLost.
Unreachable ==
  /\ todo # <<>> /\ ~Now({"relaunch", "opened", "entered", "raise"}) /\ ~up
  /\ Raise /\ UNCHANGED <<nvda, rest, faults>>

\* Calls that wait for the main thread.
Waiting == {"press", "assign", "restore", "install", "remove", "enabled", "gone", "undo", "idle"}

\* They time out while a dialog blocks NVDA, and may whenever NVDA is slow.
TimesOut ==
  /\ Now(Waiting) /\ TimeOut(Head(todo)) /\ Raise
  /\ IF modal = NoDialog THEN Fault ELSE UNCHANGED faults
  /\ UNCHANGED rest

\* keys.press, config.set, config.restore, addons.remove, and addons.install, whose answer
\* Lifecycle.install notes.
Called ==
  /\ Now({"press", "assign", "restore", "install", "remove"}) /\ phase # "undo"
  /\ \E ok \in BOOLEAN :
       /\ Answer(Head(todo), ok)
       /\ IF ok THEN Continue ELSE Raise
       /\ IF ok /\ phase = "body" /\ Now({"install"})
          THEN installed' = Append(installed, Subject) /\ recorded' = recorded \cup {Subject}
          ELSE UNCHANGED <<installed, recorded>>
  /\ UNCHANGED <<tests, steps, uses, initial, last, paired, touched, faults>>

\* should_have: addons.state, and an AssertionError if it is another.
Verified ==
  /\ Now({"enabled", "gone"}) /\ Answer(Head(todo), TRUE)
  /\ IF StateOf(Subject) = IF Now({"gone"}) THEN "NOT_INSTALLED" ELSE "ENABLED" THEN Continue ELSE Raise
  /\ UNCHANGED <<rest, faults>>

\* undo_all, for one name: what is there is removed, and NVDA relaunched after the last one.
Undo ==
  /\ Now({"undo"}) /\ Answer(Head(todo), TRUE)
  /\ IF StateOf(Subject) = "NOT_INSTALLED" THEN Continue
     ELSE Then(<<<<"remove", Subject>>>> \o Tail(todo)) /\ UNCHANGED <<open, block, unwinding>>
  /\ UNCHANGED <<rest, faults>>

UndoRemove ==
  /\ phase = "undo" /\ Now({"remove"}) /\ Answer(Head(todo), TRUE)
  /\ Then(Finally(Tail(todo), Do("relaunch")))
  /\ UNCHANGED <<open, block, unwinding, rest, faults>>

\* restart_harness; _reattach makes a client for the new process.
Relaunched ==
  /\ Now({"relaunch"})
  /\ \/ Relaunch /\ Continue /\ UNCHANGED faults
     \/ Die /\ Raise /\ Fault
  /\ UNCHANGED rest

\* wait_until_idle: an event of NVDA's own may have arrived behind its no-op.
IdleAnswered ==
  /\ Now({"idle"}) /\ Answer(Head(todo), TRUE) /\ (Continue \/ Raise) /\ UNCHANGED <<rest, faults>>

Cleared == Now({"clear"}) /\ ClearLog /\ Continue /\ UNCHANGED <<rest, faults>>

\* LogSteps.check_at_teardown
LogChecked ==
  /\ Now({"logcheck"}) /\ up /\ (IF errors THEN Raise ELSE Continue) /\ UNCHANGED <<nvda, rest, faults>>

\* exec_in_nvda_nowait; mark_action before it raises only if nobody answers.
Remembered == Now({"remember"}) /\ RememberBaseline /\ Continue /\ UNCHANGED <<rest, faults>>

Queued == Now({"queue"}) /\ QueueScenario(last) /\ Continue /\ UNCHANGED <<rest, faults>>

\* Dialogs.open returns; dialog() yields.
Opened ==
  /\ Now({"opened", "entered"}) /\ Then(Tail(todo))
  /\ open' = TRUE /\ block' = (block \/ Now({"entered"}))
  /\ UNCHANGED <<unwinding, nvda, rest, faults>>

\* Mutant of Initial: without a remembered window, none is compared with.
InitialUnset == baseline

\* _take_baseline
Initial == IF baseline = Unset THEN fg ELSE baseline

\* simulate_modal takes the baseline, unless it does not know the gesture.
Taken ==
  /\ Now({"take"})
  /\ \/ /\ TakeBaseline /\ Continue
        /\ initial' = Initial /\ paired' = (baseline # Unset)
     \/ up /\ phase = "body" /\ Raise /\ UNCHANGED <<nvda, initial, paired>>
  /\ UNCHANGED <<tests, steps, uses, installed, last, recorded, touched, faults>>

\* It sends the gesture and returns True: close() notes the dialog as closed.
Sent ==
  /\ Now({"look"}) /\ SendGesture(initial) /\ Then(Tail(todo))
  /\ open' = (open /\ phase # "body")
  /\ UNCHANGED <<block, unwinding, rest, faults>>

Rejected ==
  /\ Now({"look"}) /\ up /\ NewWindow(initial) /\ Raise /\ Fault /\ UNCHANGED <<nvda, rest>>

\* The deadline passes and it returns False: close() raises, close_leftover does not care.
NoDialogCame ==
  /\ Now({"look"}) /\ up /\ ~NewWindow(initial)
  /\ IF phase = "body" THEN Raise ELSE Continue
  /\ UNCHANGED <<nvda, rest, faults>>

Raises == Now({"raise"}) /\ Raise /\ UNCHANGED <<nvda, rest, faults>>

-------------------------------------------------------------------------------
(* The session.                                                                *)

\* The fixture nvda: a relaunch for the marker fresh_nvda, then reset.
SetUp == phase' = "setup" /\ todo' \in {Reset, <<Do("relaunch")>> \o Reset}

\* pytest sets up fixtures of the session before those of the test; one that failed fails again.
StartTest ==
  /\ phase = "idle" /\ tests < MaxTests
  /\ tests' = tests + 1 /\ steps' = 0
  /\ uses' \in BOOLEAN
  /\ CASE uses' /\ shared = "unset" ->
            phase' = "shared" /\ todo' = SubSeq(Adding(Bundle), 1, 2) /\ problems' = {}
       [] uses' /\ shared = "failed" -> phase' = "reset" /\ todo' = Reset /\ problems' = {Problem("setup")}
       [] OTHER -> SetUp /\ problems' = {}
  /\ open' = FALSE /\ installed' = <<>> /\ block' = FALSE /\ unwinding' = FALSE
  /\ initial' = Unset /\ paired' = FALSE /\ recorded' = {} /\ failures' = {}
  /\ left' = [open |-> FALSE, errors |-> FALSE]
  /\ UNCHANGED <<nvda, shared, last, touched, faults>>

Ready == todo = <<>> /\ phase = "body" /\ ~unwinding

\* A step that would wait for an NVDA that a dialog blocks is refused: _guarded.
Guarded ==
  IF open THEN {<<Do("raise")>>}
  ELSE {<<Do("press")>>, <<Do("relaunch")>>, Nowait \o <<Do("opened")>>}
       \cup {Nowait \o <<Do("entered")>> : b \in {block} \ {TRUE}}
       \cup {Adding(a) : a \in Addons} \cup {Removing(a) : a \in Addons}

\* close_dialog, and what is reached through the namespaces and the client.
Unguarded == {CloseWith, Nowait} \cup {<<<<"assign", s>>>> : s \in Sections}

Step ==
  /\ Ready /\ steps < MaxSteps /\ steps' = steps + 1
  /\ todo' \in Guarded \cup Unguarded
  /\ last' = IF Do("queue") \in {todo'[i] : i \in DOMAIN todo'} THEN last + 1 ELSE last
  /\ touched' = touched \cup {a \in Addons : todo' \in {Adding(a), Removing(a)}}
  /\ UNCHANGED <<nvda, faults, phase, shared, open, block, unwinding, problems, failures, left,
                 tests, uses, installed, initial, paired, recorded>>

\* The end of `with nvda.dialog()`.
LeaveBlock ==
  /\ Ready /\ block /\ block' = FALSE
  /\ todo' = IF open THEN CloseWith ELSE <<>>
  /\ UNCHANGED <<nvda, faults, phase, shared, open, unwinding, problems, failures, left, rest>>

\* It returns, an assertion fails, or an exception leaves it.
BodyEnds ==
  /\ phase = "body" /\ todo = <<>> /\ ~block
  /\ \E failed \in {unwinding, TRUE} : Finish(failed)
  /\ UNCHANGED <<nvda, faults, open, block, unwinding, rest>>

StageAfter(stage) == Stages[1 + CHOOSE i \in 1 .. 2 : Stages[i] = stage]

\* The host is done in one place and goes on in the next.
Proceed ==
  /\ todo = <<>>
  /\ CASE phase = "shared" -> SetUp /\ shared' = "ready"
       [] phase = "setup"  -> phase' = "body" /\ todo' = <<>> /\ UNCHANGED shared
       [] phase = "reset"  -> phase' = "idle" /\ todo' = <<>> /\ UNCHANGED shared
       [] phase \in {Stages[1], Stages[2]} ->
            phase' = StageAfter(phase) /\ todo' = StageCalls(StageAfter(phase)) /\ UNCHANGED shared
       [] phase = Stages[3] -> phase' = "reset" /\ todo' = Reset /\ UNCHANGED shared
       [] OTHER -> FALSE
  /\ UNCHANGED <<nvda, faults, open, block, unwinding, problems, failures, left, rest>>

NvdaRuns == RunJob /\ UNCHANGED <<flow, rest, faults>>

NvdaDies == up /\ Die /\ Fault /\ UNCHANGED <<flow, rest>>

SessionOver == phase = "idle" /\ tests = MaxTests /\ UNCHANGED vars

Next ==
  \/ Unreachable \/ TimesOut \/ Called \/ Verified \/ Undo \/ UndoRemove \/ Relaunched
  \/ IdleAnswered \/ Cleared \/ LogChecked \/ Remembered \/ Queued \/ Opened
  \/ Taken \/ Sent \/ Rejected \/ NoDialogCame \/ Raises
  \/ StartTest \/ Step \/ LeaveBlock \/ BodyEnds \/ Proceed
  \/ NvdaRuns \/ NvdaDies \/ SessionOver

Spec == Init /\ [][Next]_vars

-------------------------------------------------------------------------------
Phases == {"idle", "shared", "setup", "body", "log", "leftover", "undo", "reset"}

\* Type invariant; an initial window is there whenever simulate_modal compares with it.
TypeOK ==
  /\ NvdaTypeOK
  /\ phase \in Phases /\ (\A p \in problems : p[1] \in Phases)
  /\ failures \subseteq Addons \cup {0}
  /\ shared \in {"unset", "ready", "failed"}
  /\ tests \in 0 .. MaxTests /\ steps \in 0 .. MaxSteps /\ faults \in 0 .. MaxFaults
  /\ \A x \in {uses, open, block, unwinding, paired, left.open, left.errors} : x \in BOOLEAN
  /\ \A i \in DOMAIN installed : installed[i] \in Addons
  /\ recorded \subseteq Addons /\ touched \subseteq Addons /\ last \in Nat
  /\ Now({"look"}) => initial \in {Main} \cup Nat

\* When a test's body begins, NVDA has the configuration it started with, up to empty sections,
\* no dialog, and no job an earlier test or its teardown gave up on is still to run
\* (client.py:130, plugin.py:106).
CleanStart ==
  phase = "body" /\ steps = 0 =>
    /\ \A s \in Sections : conf[s] \in IF s \in Known THEN {"base"} ELSE {"absent", "empty"}
    /\ modal = NoDialog /\ queue = <<>> /\ ~open

\* A dialog noted as open when the body ended is reported, and gone before the next stage:
\* whether it ignored the key, came up late or came up after NVDA was asked (dialogs.py:50).
LeftoverIsClosed ==
  phase \in {"undo", "reset"} /\ left.open =>
    /\ Problem("leftover") \in problems /\ ~open /\ modal = NoDialog
    /\ \A i \in DOMAIN queue : queue[i][1] # "scenario"

\* After the teardown an add-on the test noted as installed is there only if undo_all failed at
\* this add-on, or at the relaunch that completes its removal: whatever the earlier stages met,
\* and whichever of the others could not be removed.  The teardown then reports something it
\* failed at, one thing however many there are (lifecycle.py:56-74, teardown.py:29).
InstalledIsUndone ==
  phase = "reset" =>
    \A a \in recorded : addons[a] # "NOT_INSTALLED" =>
                          /\ failures \cap {a, 0} # {}
                          /\ \E p \in problems : p[1] = "undo" /\ p[2] \in failures

\* The add-on of addon_under_test stays for the tests that share it, through relaunches, deaths
\* of NVDA and other tests' teardowns, unless a test itself installed or removed it.
SharedAddonStays ==
  phase = "body" /\ uses /\ Bundle \notin touched => addons[Bundle] \in {"ENABLED", "DISABLED"}

\* The first simulate_modal after a scenario was queued tells the scenario's dialog from the
\* window that was there before, however early the dialog comes (modal_api.py:170, eval_api.py:82).
FreshDialogIsRecognised == Now({"look"}) /\ paired /\ fg = last /\ last # NoDialog => NewWindow(initial)

\* An error in the log when the body ended is reported, although the stages that follow may
\* relaunch NVDA and lose the log (nvda.py:171).  One the tap evicted for newer records is not in
\* the log any more.
ErrorsAreReported ==
  phase = "reset" /\ left.errors /\ FailOnLogErrors => Problem("log") \in problems
===============================================================================
