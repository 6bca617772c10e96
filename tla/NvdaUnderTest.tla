---------------------------- MODULE NvdaUnderTest -----------------------------
(***************************************************************************)
(* What a test changes in NVDA through the spy: the jobs on its main       *)
(* thread, a modal dialog that stops that thread, the foreground window    *)
(* that simulate_modal goes by, the log, the add-ons and the               *)
(* configuration.  One NVDA process, which may die and be relaunched; what *)
(* it had in memory is lost then, its add-ons are on disk.                 *)
(*                                                                         *)
(* MainThread models how a job reaches the main thread and what its caller *)
(* learns; here a call is answered only after everything queued before it  *)
(* (AnsweredIsBarrier), or times out and leaves its job in the queue.      *)
(* TestSession is the host.                                                *)
(***************************************************************************)
EXTENDS Integers, Sequences

CONSTANTS
  Addons,     \* names of add-ons
  Sections,   \* sections of the configuration
  Known       \* those the snapshot of the first process has

ASSUME SectionAssumption == Known \subseteq Sections

VARIABLES
  up,         \* an NVDA runs and its spy answers
  queue,      \* jobs on queueHandler.eventQueue
  modal,      \* the dialog that blocks the main thread
  fg,         \* the foreground window
  baseline,   \* _pending_baseline
  errors,     \* the log tap holds an error that is not ignored
  addons,     \* what addonHandler says of each add-on
  conf        \* config.conf

nvda == <<up, queue, modal, fg, baseline, errors, addons, conf>>

\* Windows: those of other programs, NVDA's main frame, and a dialog by its scenario's number.
Other == 0
Main  == -1
Unset == -2
NoDialog == 0

Default == [s \in Sections |-> IF s \in Known THEN "base" ELSE "absent"]

NvdaInit ==
  /\ up = TRUE /\ queue = <<>> /\ modal = NoDialog /\ fg = Other /\ baseline = Unset
  /\ errors = FALSE /\ conf = Default
  /\ addons = [a \in Addons |-> "NOT_INSTALLED"]

\* Jobs of the main thread that change something.
Jobs == {"scenario", "install", "remove", "assign", "restore", "press"}

-------------------------------------------------------------------------------
(* The handlers that run on the main thread.  A job is its kind and its subject.*)

\* _restore assigns the snapshot's sections, then empties those it lacks: none is removed.
Restored(s) == IF s \in Known THEN "base" ELSE IF conf[s] = "absent" THEN "absent" ELSE "empty"

\* config_restore; an assignment that raises ends it half way.
Restore(ok) ==
  \E done \in IF ok THEN {Sections} ELSE SUBSET Sections :
    conf' = [s \in Sections |-> IF s \in done THEN Restored(s) ELSE conf[s]]

\* config_set: a value the section takes, or an assignment that raises.
Assign(s, ok) == conf' = IF ok THEN [conf EXCEPT ![s] = "changed"] ELSE conf

\* addons_state: what addonHandler says of an add-on, and of one it does not have.
StateOf(a) == addons[a]

\* addons_install extracts the bundle; it raises if that or onInstall fails, and nothing stays.
Install(a, ok) == addons' = IF ok THEN [addons EXCEPT ![a] = "PENDING_INSTALL"] ELSE addons

\* addons_remove raises LookupError for an add-on that is not there.
Remove(a, ok) ==
  /\ ok = (StateOf(a) # "NOT_INSTALLED")
  /\ addons' = IF ok THEN [addons EXCEPT ![a] = "PENDING_REMOVE"] ELSE addons

\* _CapturingHandler.emit: every record is taken, also one whose message cannot be formatted.  The
\* tap holds them until it is cleared; that it evicts beyond its capacity is CappedLog's.
Emits(error) == errors' = (errors \/ error)

\* A queued scenario opens a dialog, does something else, or raises, which is logged.
Scenario(n, ok) ==
  \/ ok /\ modal' = n /\ fg' = n /\ UNCHANGED errors
  \/ ok /\ UNCHANGED <<modal, fg, errors>>
  \/ ~ok /\ Emits(TRUE) /\ UNCHANGED <<modal, fg>>

\* The main thread runs a job to its end; one that fails late is logged by its runner.
Does(job, ok, late) ==
  /\ CASE job[1] = "restore" -> Restore(ok) /\ UNCHANGED addons
       [] job[1] = "assign"  -> Assign(job[2], ok) /\ UNCHANGED addons
       [] job[1] = "install" -> Install(job[2], ok) /\ UNCHANGED conf
       [] job[1] = "remove"  -> Remove(job[2], ok) /\ UNCHANGED conf
       [] OTHER              -> UNCHANGED <<addons, conf>>
  /\ IF job[1] = "scenario" THEN Scenario(job[2], ok)
     ELSE /\ (Emits(late /\ ~ok) \/ Emits(job[1] = "press"))
          /\ UNCHANGED <<modal, fg>>
  /\ UNCHANGED <<up, baseline>>

\* run_on_main_thread returns or re-raises: the job ran, after all that was queued before it.
Answer(job, ok) ==
  /\ up /\ modal = NoDialog /\ queue = <<>>
  /\ Does(job, ok, FALSE) /\ UNCHANGED queue

\* TimeoutError: the job stays queued, and runs when the main thread comes to it.  Those that
\* only look are left out, as they change nothing.
TimeOut(job) ==
  /\ up
  /\ queue' = IF job[1] \in Jobs THEN Append(queue, job) ELSE queue
  /\ UNCHANGED <<up, modal, fg, baseline, errors, addons, conf>>

\* queueHandler.pumpAll
RunJob ==
  /\ up /\ modal = NoDialog /\ queue # <<>>
  /\ \E ok \in BOOLEAN : Does(Head(queue), ok, TRUE)
  /\ queue' = Tail(queue)

-------------------------------------------------------------------------------
(* The handlers that run on the server's thread, whatever the main thread does.*)

RememberBaseline == up /\ baseline' = fg /\ UNCHANGED <<up, queue, modal, fg, errors, addons, conf>>

QueueScenario(n) ==
  /\ up /\ queue' = Append(queue, <<"scenario", n>>)
  /\ UNCHANGED <<up, modal, fg, baseline, errors, addons, conf>>

\* simulate_modal starts: _take_baseline.
TakeBaseline == up /\ baseline' = Unset /\ UNCHANGED <<up, queue, modal, fg, errors, addons, conf>>

\* What simulate_modal waits for: a window of this process that was not there before.
NewWindow(initial) == fg \notin {Other, initial}

\* _send_vk: the dialog closes and another window comes forward, or it ignores the key.
SendGesture(initial) ==
  /\ up /\ NewWindow(initial)
  /\ \/ fg = modal /\ modal' = NoDialog /\ fg' \in {Other, Main}
     \/ UNCHANGED <<modal, fg>>
  /\ UNCHANGED <<up, queue, baseline, errors, addons, conf>>

ClearLog == up /\ errors' = FALSE /\ UNCHANGED <<up, queue, modal, fg, baseline, addons, conf>>

-------------------------------------------------------------------------------
(* The process.                                                                *)

\* What the next start makes of an add-on; an incompatible one is disabled.
Started(s) ==
  CASE s = "PENDING_INSTALL" -> {"ENABLED", "DISABLED"}
    [] s = "PENDING_REMOVE"  -> {"NOT_INSTALLED"}
    [] OTHER                 -> {s}

\* What was in memory is gone; saveConfigurationOnExit is off, so the configuration is too.
Forgotten ==
  /\ queue' = <<>> /\ modal' = NoDialog /\ fg' = Other /\ baseline' = Unset
  /\ errors' = FALSE /\ conf' = Default

Relaunch ==
  /\ up' = TRUE /\ Forgotten
  /\ addons' \in [Addons -> UNION {Started(addons[a]) : a \in Addons}]
  /\ \A a \in Addons : addons'[a] \in Started(addons[a])

\* NVDA dies, or is ended and does not start again.
Die == up' = FALSE /\ Forgotten /\ UNCHANGED addons

\* The states _state_of tells apart, and the absence of an add-on.
AddonStates == {"NOT_INSTALLED", "PENDING_INSTALL", "ENABLED", "DISABLED", "PENDING_REMOVE"}

NvdaTypeOK ==
  /\ up \in BOOLEAN /\ errors \in BOOLEAN
  /\ \A i \in DOMAIN queue : queue[i][1] \in Jobs
  /\ modal \in Nat /\ fg \in {Main} \cup Nat /\ baseline \in {Unset, Main} \cup Nat
  /\ addons \in [Addons -> AddonStates]
  /\ conf \in [Sections -> {"absent", "base", "changed", "empty"}]
===============================================================================
