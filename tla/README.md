# A formal model of nvda-testkit

nvda-testkit drives a real NVDA (a Windows screen reader) from pytest. Its two
halves run in different processes: a *spy* add-on inside NVDA captures what NVDA
speaks, shows and logs and serves it over XML-RPC, and a *host* library starts
NVDA, sends it gestures and waits for speech. This directory holds TLA+ models of
both, the TLC runs that check them on small instances and the TLAPS proofs of
what holds for every instance.

Paths are relative to the repository: `spy/` stands for
`spy/globalPlugins/nvda_testkit_spy/`, `host/` for `src/nvda_testkit/`.

## Running it

    tlc -config MCMainThread.cfg MCMainThread
    tlapm MainThreadProofs.tla

`PROJECT.json` lists the runs with what each is expected to show, the lines each
definition stands for, and for every checked property a mutant of the model that
breaks it. A mutant is kept beside the definition it mutates ("Mutant of X").

## 1. Inventory

### Inside NVDA (spy/)

| Component | State | Operations | What is hard | What makes it correct |
|---|---|---|---|---|
| Capped log (`capped_log.py`) | kept items, count of dropped ones, under an RLock | append, index, since, mark_last, clear | indexes handed out before an eviction or a clear are used after it | it answers as a log that never evicts, restricted to the newest entries |
| Main-thread calls (`mainthread.py`, `input_api.py`, `eval_api.py`) | NVDA's event queue; per call an outcome cell and three events; the list of sent gestures | run_on_main_thread, keys_press, keys_type, keys_sent, exec_nowait | two threads; a timeout leaves the job queued; failures told by the runner or the caller | a returned call is a barrier; a failure is told once; recorded gestures were processed, in order; the RPC thread always comes back |
| Speech tap (`speech_tap.py`) | a capped log and a count of cancellations | the two handlers of NVDA's speech events; index, since, clear, cancel_count | handlers and clear have two steps each on different threads | the count covers the cancelled sequences the log holds |
| Braille and log taps | a capped log each | a handler, since, clear | as above | as the capped log |
| Spy server (`server.py`, `registry.py`) | listening socket, session token, handshake file | start, stop, dispatch with token check, wait_until_idle, quit | stop runs on the thread that the handler being served waits for; the file outlives or misses the process | idle means idle; shutdown is bounded; the file names a live server |
| Modal dialogs (`modal_api.py`) | remembered foreground window | remember baseline, simulate_modal | the window may change before, during or never | the gesture goes to the new dialog only |
| Configuration, add-ons (`config_api.py`, `addons_api.py`) | NVDA's own | get, set, snapshot, restore; install, remove, state | half-done restores; changes pending until a restart | restore returns to the snapshot |

### On the host (host/)

| Component | State | Operations | What is hard | What makes it correct |
|---|---|---|---|---|
| NVDA process (`process.py`, `handshake.py`) | the Popen handle, the accepted handshake, who owns the process | start, quit, kill, restart, adopt_relaunched_handshake | NVDA restarts itself as another process; it hangs, crashes, ignores a quit, announces itself late; one handshake file for all | nothing spawned is lost; the client talks to a live, current process; every operation ends |
| RPC client (`rpcclient.py`, `wire.py`) | a port and two tokens, that of the handshake and that of the session | call, poll_until, close | a port is used again, an NVDA of an earlier session still listens | no call is executed by a process it was not meant for, and its caller copes with one that is lost, refused or carried out late |
| Client (`client.py`, `actionmark.py`) | the RPC client, last_action, the baseline configuration | mark_action, reset, restart_harness, restart_nvda, exec_nowait, simulate_modal | the mark must follow clears and relaunches; the wait for idle has a budget | speech heard after a mark is the action's |
| Hearing (`dsl/hearing.py`, `dsl/waiting.py`) | the entry mark and pid of a block | should_hear, should_not_hear, expecting_speech | a block may relaunch NVDA; text spoken at the deadline | nothing old is shown, nothing new is missed; an absence is that of the last check |
| Dialogs (`dsl/dialogs.py`) | whether a dialog is open | open, close, dialog, close_leftover | the flag and the dialog may disagree | a dialog left open is closed and reported |
| Lifecycle (`dsl/lifecycle.py`) | names of installed add-ons | install, remove, undo_all | each step restarts NVDA and may fail | what a test installed is undone, and no more; a failure does not keep the others from being undone |
| Facade, teardown, plugin (`dsl/nvda.py`, `dsl/teardown.py`, `plugin.py`) | fixtures of several scopes | steps, finish, run_all, reset | a step that raises, a job that runs late, an NVDA that dies | every teardown step runs; the next test starts clean or is failed; errors are reported |
| Provisioning (`provisioning.py`, `cli.py`, `portable.py`) | a temporary directory, a process | provision, provision_fake, teardown | a step fails or is interrupted after others succeeded | nothing is left behind but what could not be stopped or removed |
| Launcher cache (`download.py`, `resolve.py`) | files and hash pins shared by sessions | ensure_launcher | crash between two files; concurrent sessions | what is returned is what was pinned |
| Texts, matching, settings, versions | none that lasts | formatting, parsing | - | - |

### How they interact

A test calls the client; the client sends one XML-RPC request at a time; the spy's
single server thread dispatches it, and for most requests queues a function on
NVDA's main thread and waits for it with a timeout. NVDA's main thread calls the
taps as it speaks. Process and spy meet in the handshake file: the spy writes port,
pid and token after it listens and removes the file when it stops; the host polls
for it. Marks connect the two logs of time: the host stores an index of the spy's
log and later asks for what came since.

## 2. Modules

| Module | Models | Run | Proofs |
|---|---|---|---|
| `CappedLogOps` | the methods of `CappedLog` as operators on a log | (used by the next and by `Hearing`) | `CappedLogLemmas` |
| `CappedLog` | one capped log, its callers, and the indexes they keep | `capped_log` | `CappedLogProofs` |
| `AppendLog` | abstract: a log that never evicts | refined by `CappedLog` | |
| `MainThread` | RPC thread and main thread, job by job | `main_thread`, `lost_failure`, `busy_idle`, `sent_incomplete` | `MainThreadProofs` |
| `WorkQueue` | abstract: jobs run once each, in order; callers told at most once | refined by `MainThread` | |
| `Hearing` | tap, marks, clears, relaunches and the verdict of a wait | `hearing`, `cleared_mark` | `HearingProofs` |
| `ActionMark` | the wait for idle before an action, and whose speech follows | `action_mark` | `ActionMarkProofs` |
| `NvdaProcess` | the host's hold on NVDA processes, their spies' ports and tokens | `nvda_process`, `foreign_handshake` | `NvdaProcessProofs` |
| `LauncherCache` | one cache entry, file access by file access | (used by the next) | `ProvisioningProofs` |
| `Provisioning` | sessions that take a launcher from it, unpack it, start NVDA and tear down | `provisioning` | `ProvisioningProofs` |
| `NvdaUnderTest` | what a test changes in NVDA: jobs, dialog, foreground, log, add-ons, configuration | (used by the next) | `TestSessionProofs` |
| `TestSession` | fixtures, steps and teardown of the tests of a session, over `NvdaUnderTest` | `test_session` | `TestSessionProofs` |

`MCx` modules and their `.cfg` files give the constants values.

**CappedLog.** The log is the record `[items, dropped]`, the two fields of the
class; each method holds the lock from first to last line and is one step. The
model keeps the full history and the indexes ever handed out, which the code does
not have, to say what `since(index)` ought to return. `ImplementsAppendLog` is the
refinement to `AppendLog`: what the capped log keeps and numbers is the tail of
what was appended.

**MainThread.** A job has its place in the queue, its kind, and the outcome cell and
events of `run_on_main_thread`. Both threads take one step per operation on shared
state: the runner starts, completes or raises, looks at `timed_out`, sets
`finished`; the caller is woken or expires, sets `timed_out`, looks at the outcome.
`Post` stands for every event NVDA queues itself. `keys_type` is one call that
queues several gestures; `wait_until_idle` has its look at the queue as a step after
the no-op returned.

**NvdaProcess.** Processes have phases and run beside the host; the host's methods
are split where it sleeps or where another process may act: quit requested, awaited,
timed out; spawn, poll, see the file, open it, succeed or fail; trigger a self-restart,
await the replacement's handshake, adopt or give up. A session may find an NVDA of
an earlier one booting or running, or its handshake file. A spy listens on a port
that only the living do not share, so a client made for a dead process may reach
another one (`Reached`); `Accepts` is what the two tokens, whose draws are taken to
differ, make of that. A plugin that fails to start leaves an NVDA without a spy
(`SpyFails`), and takes the handshake file with it, whoever wrote that. `Ousted` is
external: an NVDA that starts asks one that runs to quit. The call of `restart_nvda`
may also get no answer from an NVDA that lives (`TriggerLost`, the socket's timeout)
or the spy's own timeout (`TriggerFails`): it is then perhaps carried out later
(`queued`, `RestartLate`).

The host kills in two ways. Its own child it kills by its handle, and that takes
effect: the process executes nothing more, though `kill()` waits only 30 seconds for
it to vanish (`Gone` says no more than that). An adopted process it kills by its
number, best-effort: `ReleaseAdopted` ends it or not, and forgets it either way.
`AdoptedAreStopped` therefore lets two kinds of adopted process outlive the session:
one `_kill_pid` was sent for (`refused`), and one that served `restart_nvda`'s call
too slowly, so that another was adopted in its place (`unheard`). What it excludes is
a process that is forgotten on any other path: through a restart of either kind, a
failed start, an adoption that timed out.

**LauncherCache, Provisioning.** `ensure_launcher` has a step for every access to
one of its three files: the look, each note read, the digest taken, each unlink, the
download, `os.replace`, each note truncated and then written. Sessions take no lock;
each may fail (`CacheFault`) or be killed (`Crash`) between any two steps, and the
entry may hold anything to begin with, since a CI cache restores what some other run
left. Files are told apart by their content. `Provisioning` gives the four users of
a launcher - the plugin, the plugin with FakeNvda, `nvda-testkit provision` and
`doctor --full` - their own way through the same actions. At the end `Kill` or `Quit`
and then `RemoveWorkdir` are separate steps, and each works or does not: `quit()` may
raise or leave NVDA running, `rmtree` ignores errors, and Windows does not remove the
files of a program that runs (`InUse`). `NothingLeftBehind` says that on every path,
whichever step raised, each was asked, the removal after the stop: an NVDA that is left
is one the session tried to stop, a directory that is left is one it tried to remove
and could not.

**NvdaUnderTest, TestSession.** The host is one thread, so a test session is a list
of calls still to make (`todo`) in the fixture it is in (`phase`); `Raise` sends an
error where the code's `try` and `finally` send it: through the rest of `reset`, out
of a `with nvda.dialog()` block, to the next stage of `run_all`. NVDA is on the other
side of the calls: `Answer` is a call that came back, after everything queued before
it (what `MainThread`'s `AnsweredIsBarrier` proves); `TimeOut` leaves its job in the
queue; a modal dialog stops the queue but not the handlers that `modal_api.py` runs
on the server's thread. `problems` is what pytest reports of the test, `failures`
what `undo_all` failed at: it goes on after each, but raises the first only (`Reports`).

**Hearing.** NVDA's main thread speaks and cancels at any step of the host, in the
steps its handlers have; `speech_clear` holds its lock over two steps. The host marks, clears,
resets, relaunches (by either way), enters and leaves `expecting_speech` blocks, and
waits. A wait is a check, then a look at the clock, then an answer or another check, and
NVDA may speak between any two of them. `AbsenceIsReal` says of a wait that ends without
the text that the last check was made late enough and looked at enough: nothing of what
NVDA had said by then, from after the mark and still in the log at the end, matches.
What is said between that check and the look at the clock is missed by the code. Each
utterance carries a number the code does not have, so that "after the mark" has a
meaning independent of indexes.

**ActionMark.** Each event and utterance carries the action it follows from. The
spy's log is taken as one that never evicts and `wait_until_idle` as `MainThread`
shows it: answered True when its no-op was run and the queue was found empty, with
perhaps an event in the main thread's hand.

## 3. Runs, bounds and what they show

| Run | Expect | Bounds | Shows |
|---|---|---|---|
| `capped_log` | pass | 2 kept of 4 appended, 2 items | evictions and clears under kept indexes |
| `main_thread` | pass | 4 jobs, texts of 2 | every order of timeout, failure and hang of two requests with others' events between them |
| `nvda_process` | pass | 4 processes, 2 ports | what an earlier session left, a first process, its replacement and the one started after losing track of that; a port used again |
| `provisioning` | pass | 2 sessions of each kind, 2 contents | a crash or failure of one session at any file access, then the other after it or interleaved with it, over every initial state of the entry |
| `test_session` | pass | 2 tests of 2 steps, 2 add-ons, 2 sections, 1 fault | a test that leaves a dialog, add-ons, settings, late jobs and log errors behind, in any pair, the teardown that meets them, and the test after it |
| `hearing` | pass | 2 kept of 4 utterances, 3 processes, 3 restarts of the log, 1 cancellation between clears | marks that are two epochs old, evictions past a mark, a block that relaunches twice, a crash anywhere |
| `action_mark` | pass | 3 actions, 3 utterances, queue of 2 | two earlier actions' events still queued or in hand at a mark |
| `lost_failure`, `busy_idle`, `sent_incomplete` | violation | 3 jobs, texts of 2 | see "Disagreements" |
| `foreign_handshake` | violation | 3 processes, 2 ports | see "Disagreements" |
| `cleared_mark` | violation | 2 kept of 2 utterances, 1 process, 1 restart of the log | see "Disagreements" |

The violation runs have smaller bounds than the passing run of their module, with
which their counterexamples are found at once.

All invariants but cardinalities are about pairs (a mark and an utterance, a job and
an earlier one), so a third of each kind is what lets one be overtaken while
another is in use. In `test_session` a
fault is a call that times out though NVDA is free, a death of NVDA, a start that
fails or a key Windows rejects; calls that time out because a dialog blocks NVDA are
not counted.
For the properties under "What is proved" the bounds do not matter.

Deadlock is checked in every run; where a bounded session ends, a `SessionOver`
step says so.

**Fairness.** `MainThread`: the RPC thread is scheduled and its waits have timeouts
(`WF(RpcStep)`); nothing is assumed of NVDA, which may hang, except in the premise
`NvdaResponds` of `EveryJobExecuted`. `NvdaProcess`: the host runs and its deadlines
pass: weak fairness of its steps, and strong fairness of giving up a start, since
polling alternates with looking. `ActionMark`: the host runs, and the budget is
spent however often NVDA answers that it is busy (`SF(BudgetSpent)`, since asking
again and spending the budget alternate). `Hearing` has no liveness property: its
waits end by their deadline alone. `Provisioning` and `TestSession` have none
either: their steps are sequential, and what could hang them is below them
(`EveryRequestAnswered`, `EveryOperationEnds`).

### Disagreements with documentation and tests

Five runs expect a violation; `PROJECT.json` quotes the sentence each contradicts.

1. `lost_failure`: a job failing between its caller's timeout and `timed_out.set()`
   is neither logged nor raised (`mainthread.py`).
2. `busy_idle`: `wait_until_idle` answers True with a job in the main thread's hand.
3. `sent_incomplete`: `keys.sent()` lacks gestures processed after their caller timed out.
4. `foreign_handshake`: `start()` takes the handshake of any NVDA that announces itself
   while it polls: one a killed session left booting, or a replacement it gave up on.
5. `cleared_mark`: `speech.clear()` leaves `last_action` ahead of the emptied log, so
   `should_hear` misses what is said next.

Others were met while modelling. The models contain the behaviour, and the properties
are stated so as to allow it:

* `close_dialog("tab")`, or any gesture the dialog ignores, notes the dialog as closed
  while it is up (`dialogs.py:39`); `guide/dsl.adoc:93` says that a test that ends
  with a dialog open fails after the kit closes it. Here the steps that follow time out,
  and it is `reset` that fails, of this test as a warning and of the next as an error
  (`CleanStart`).
* An `install_addon()` whose call timed out is carried out by NVDA later and is not
  noted (`lifecycle.py:36`), although `guide/dsl.adoc:73` promises to remove what a
  test installed. `InstalledIsUndone` is about what was noted.
* `fresh_nvda` relaunches NVDA but leaves its add-ons (`plugin.py:111`), although
  `guide/dsl.adoc:62` speaks of a clean add-on state.
* `addon_under_test` returns without looking whether the add-on is enabled
  (`plugin.py:161-164`); its docstring says "installed and enabled". An incompatible
  one is disabled, as `SharedAddonStays` admits.
* `reset` clears the log before it waits, in `config.restore`, for jobs of the test
  that are still queued: one of them may log an error into the next test.
* Errors logged before a relaunch or a `log.clear()` inside a test, or followed by as
  many records as the log tap keeps (10000), are gone before `check_at_teardown` looks:
  `ErrorsAreReported` is about those in the log at the end. The model's log of errors has
  no capacity; eviction is `CappedLog`'s.
* `undo_all` raises the first of its failures only (`lifecycle.py:73`): a second add-on
  that could not be removed stays installed and nothing reports it, although
  `guide/dsl.adoc:99` says that the problems are reported together as one teardown error.
  `InstalledIsUndone` says which add-ons can stay, and that the teardown does not pass.
* `_kill_pid` does not look whether it ended the adopted process (`process.py:284`), and
  the handshake is dropped after it; the next NVDA started, or the session's end, meets
  a process nobody tracks.
* Two sessions that meet at a cold or untrusted cache entry may discard each other's
  launcher (`FileNotFoundError`, or "Launcher not found"), or leave notes of the
  other's file; the next session alone downloads again. `AloneFindsTheLauncher` and its
  neighbours say what a session by itself may rely on, `RunsOnlyWhatIsPublished` what
  holds whoever else is there.
* A handshake file that vanishes, or is being replaced, while `start()` opens it
  raises an `OSError` that is no `NvdaStartupError` (`process.py:196`, `246`): the new
  process is not killed at once. It stays `_proc`, so the next `quit()` still finds it
  (`OwnsWhatItSpawned`).

## 4. What is proved

Every theorem is checked by TLAPS down to its leaves, from the named assumptions on
the constants only (bounds are natural numbers, a capacity is positive).

* `CappedLogProofs`: `CappedLogInvariant`, `CappedLogRefinement`. The inductive
  invariant says the items are the tail of the history that starts after `dropped`;
  the refinement needs it to know what an index past the tail stands for.
* `MainThreadProofs`: `MainThreadInvariant` and from it `BarrierHolds`,
  `FailureIsToldOnce`, `SentIsProcessed`, `IdleIsNearlyOver`, `MainThreadRefinement`.
  The invariant numbers jobs in queue order: what waits is a run of consecutive
  numbers, everything below the current job is over. Without it nothing follows from
  a job's being finished about those before it.
* `HearingProofs`: `HearingInvariant` and from it `OnlyNewIsShown`, `NewIsShown`,
  `AbsenceHolds` (with `Listened`: between the check and the look at the clock, what was
  said by the time of the check and is in the log from after the mark does not match, and
  it cannot come to be in it). The invariant: the items' numbers are `base + position`; a mark of
  the log's present epoch has `at = base + index`, an older one lies behind `base`;
  and every mark in use is of this epoch, at index 0, or was overtaken by a clear of
  the test's own. The last conjunct is what reset, `_reattach` and `_search_mark`
  maintain, and each of them is needed.
  `CancelledCountHolds` rests on `Counted`: a cancellation is counted before it is marked,
  so while the handler is between the two the count is one ahead, unless the host
  emptied the log meanwhile; and while `speech_clear` is between emptying and resetting
  nothing marked can come in, since it holds the lock the handler counts under.
* `ActionMarkProofs`: `ActionMarkInvariant`, `AttributionHolds`. The invariant adds
  that after a quiet end of the wait the queue and the hand hold nothing of an
  earlier action, and that events only beget events of their own action.

* `NvdaProcessProofs`: `NvdaProcessInvariant` and from it `HandlesAreKept`,
  `HandshakesAreFresh`, `ClientFollows`, `AdoptedStop`, `TypesHold`. The
  invariant says, place by place of the host, what it holds: no process where it is
  about to start one, no handshake while it waits for one. A process that ended stays
  ended, so the file cannot again name a process the host has retired; a process that
  is exchanged for its replacement is one whose spy no longer serves, unless it was too
  slow to answer; so the handshake names the only adopted process that may serve and has
  not been struck at. Types need a
  count: every process that was started or promised has a number (`Promised`).
* `ProvisioningProofs`: `ProvisioningInvariant` and from it `PublishedIsHonoured`,
  `NothingStays`, `AloneFinds`, `AloneTrusted`, `AloneRuns`, `TypesHold`. For what is left
  behind: which places on the way to an end still have an NVDA to stop or a directory to
  remove. For a published
  digest: once some session trusts the launcher, it can only be removed or replaced by
  a download with that digest. For a session alone at the entry: how far it has come
  (`AloneAtWork`), and that an entry that is trusted while nobody is changing it
  (`Settled`) is left as it is by every session that comes to it later.
* `TestSessionProofs`: `SessionInvariant` and from it `SessionTypeOK`,
  `SessionCleanStart`, `SessionLeftoverIsClosed`, `SessionInstalledIsUndone`,
  `SessionSharedAddonStays`, `SessionFreshDialogIsRecognised`,
  `SessionErrorsAreReported`, for any number of tests, steps, add-ons, sections and
  faults. None of the properties is inductive: each is what the last call of a fixture
  or stage has seen, so the invariant follows the calls the host has still to make.
  `Shape` gives the lists of calls each fixture and stage can be at, `Ordered` the
  neighbours in them, and the other parts say what is true at which of those places:
  - `Beginning` (`CleanStart`): the last call of `reset`, `config.restore`, is answered
    only after all that was queued before it; where it is not, `raise` is noted behind it
    and the body is never reached. A relaunch leaves nothing in memory.
  - `LeftOver` (`LeftoverIsClosed`): `close_leftover` can only come to its end through an
    answer to `wait_until_idle`, which no dialog lets through, or a relaunch or a death.
  - `Undone` (`InstalledIsUndone`): an add-on that was noted is still to be looked at,
    still to be removed, pending with a relaunch to come, gone, or among the `failures`
    (itself, or the relaunch); one of these is reported (`Told`); and
    once it is gone no late `addons_install` is queued that could bring it back.
  - `Sharing` (`SharedAddonStays`): unless a test touched it, no call and no queued job
    outside `addon_under_test` names its add-on, and the fixture is ready only after
    install and relaunch.
  - `Dialogs` (`FreshDialogIsRecognised`): scenarios are numbered, and one about to be
    queued has a number that neither a window nor the remembered foreground has.
  - `Erring` (`ErrorsAreReported`): the first stage looks at the log before any stage may
    relaunch NVDA, and an NVDA that died since makes it fail, too.

**Only model-checked.** Every safety invariant and safety action property of the passing
runs, and both refinements, are also proved. Liveness (`EveryRequestAnswered`, `EveryJobExecuted`,
`EveryOperationEnds`, `EveryActionIsSent`) and anything with ENABLED is out of this prover's
reach, as are induction over data and recursive operators (the models use none).

## 5. Left out, and why

* A pid the operating system uses again, which would make an old handshake, or an
  `expecting_speech` block, take a new process for the old one: processes are
  numbered and a number is not used twice.
* How long things take. `SpyServer.stop` waits up to five seconds for a handler that
  waits for the thread `stop` runs on; a long `keys_type` outlasts the client's socket
  timeout. The models let such waits end at any moment, and say what is true then.
* What jobs, gestures and scenarios do inside NVDA beyond what the variables name;
  which values a configuration section holds, and paths inside it.
* Several entries of the launcher cache: they share no file.
* Texts of messages, matching by regular expression, serialisation, option parsing,
  rendering `nvda.ini`, unpacking archives, parsing what the update server answers: no
  state and no concurrency.
* The braille tap's handler, `poll_until` and the waits for a log record: the waits are
  `wait_until` again, the log is `CappedLog`.

## 6. Plan

Modelled: all components with state of their own; proved: all their safety properties.
What could follow:

1. `TestSession` over `MainThread`: that a call of `MainThread` that returns is an
   `Answer`, and one that expires a `TimeOut`, as a refinement rather than by
   `AnsweredIsBarrier` alone.
2. The waits for a log record and `poll_until`, which are `wait_until` over other logs.
