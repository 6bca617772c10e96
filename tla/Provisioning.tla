----------------------------- MODULE Provisioning -----------------------------
(***************************************************************************)
(* How a session comes by an NVDA and gets rid of it: provisioning.py for  *)
(* the pytest plugin, and the two commands of cli.py that do part of the   *)
(* same.  Every session resolves a launcher, takes it from the cache they  *)
(* share (LauncherCache), and runs it to unpack a portable NVDA; the       *)
(* plugin starts that NVDA, or FakeNvda, which needs no launcher, and      *)
(* stops it when the tests are over.                                       *)
(*                                                                         *)
(* NvdaProcess models the start and the stop of the process; here they     *)
(* succeed or fail.  What the session asks of the operating system at the  *)
(* end is asked once: an NVDA may outlive quit() and kill(), and rmtree    *)
(* ignores what it cannot remove, such as the files of a program that      *)
(* still runs.  A session may be killed anywhere.                          *)
(***************************************************************************)
EXTENDS LauncherCache

CONSTANT KeepPortable   \* the setting keep_portable

ASSUME KeepAssumption == KeepPortable \in BOOLEAN

VARIABLES
  kind,      \* who provisions: the plugin, or a command
  ran,       \* the launcher the session ran to unpack its portable copy
  workdirs,  \* sessions whose temporary directory exists
  nvdas,     \* sessions whose NVDA runs
  unstopped, \* ghost: sessions that tried to stop their NVDA, which runs on
  undeleted  \* ghost: sessions that tried to remove a directory no NVDA used, and could not

ghosts   == <<unstopped, undeleted>>
hostVars == <<kind, ran, workdirs, nvdas, ghosts>>
vars     == <<cacheVars, hostVars>>

\* "provision" downloads, and unpacks to a path the user names; "doctor --full" checks that
\* both work, in a temporary directory.
Kinds == {"plugin", "fake", "provision", "doctor"}

Ended == {"failed", "missing", "done", "crashed"}

Init ==
  /\ CacheInit
  /\ kind \in [Sessions -> Kinds] /\ ran = [s \in Sessions |-> None]
  /\ workdirs = {} /\ nvdas = {} /\ unstopped = {} /\ undeleted = {}

\* _refuse_parallel_nvda, for a session of pytest that has workers.
Refuse(s) ==
  /\ pc[s] = "start" /\ kind[s] \in {"plugin", "fake"} /\ Goto(s, "failed")
  /\ UNCHANGED <<published, filesVars, payload, expected, alone, hostVars>>

\* An unsupported platform, or LauncherResolutionError: nothing was made yet.
ResolveFails(s) ==
  /\ pc[s] = "start" /\ kind[s] # "fake" /\ Goto(s, "failed")
  /\ UNCHANGED <<published, filesVars, payload, expected, alone, hostVars>>

\* resolve_launcher succeeds, and ensure_launcher runs.
Obtain(s) == kind[s] # "fake" /\ EnsureLauncher(s) /\ UNCHANGED hostVars

\* provision_fake: the directory, and the rest is as with an NVDA that was unpacked.
MakeFakeWorkdir(s) ==
  /\ pc[s] = "start" /\ kind[s] = "fake" /\ Goto(s, "seed")
  /\ workdirs' = workdirs \cup {s}
  /\ UNCHANGED <<published, filesVars, payload, expected, alone, kind, ran, nvdas, ghosts>>

\* tempfile.mkdtemp, which may fail, unless the user named a path; or none was, and the command
\* is done.
MakeWorkdir(s) ==
  /\ pc[s] = "cached"
  /\ \/ Goto(s, "unpack") /\ workdirs' = workdirs \cup {t \in {s} : kind[t] # "provision"}
     \/ kind[s] # "provision" /\ Goto(s, "failed") /\ UNCHANGED workdirs
     \/ kind[s] = "provision" /\ Goto(s, "done") /\ UNCHANGED workdirs
  /\ UNCHANGED <<published, filesVars, payload, expected, alone, kind, ran, nvdas, ghosts>>

\* create_portable fails before the launcher runs, or after: it exits with an error or in too
\* long a time, or leaves no nvda.exe.
MayHaveRun(s) ==
  \/ UNCHANGED ran
  \/ pc[s] = "unpack" /\ launcher # None /\ ran' = [ran EXCEPT ![s] = launcher]

\* A step raises, KeyboardInterrupt included: what follows is the kill() of an NVDA that was
\* spawned, and the finally that removes the directory.
Abandon(s) ==
  /\ pc[s] \in {"unpack", "seed", "starting"}
  /\ Goto(s, IF pc[s] = "starting" THEN "kill"
             ELSE IF kind[s] = "provision" THEN "failed" ELSE "clean")
  /\ MayHaveRun(s)
  /\ UNCHANGED <<published, filesVars, payload, expected, alone, kind, workdirs, nvdas, ghosts>>

\* create_portable: the launcher in the cache now is the one that runs.
Unpack(s) ==
  /\ pc[s] = "unpack" /\ launcher # None
  /\ ran' = [ran EXCEPT ![s] = launcher]
  /\ Goto(s, CASE kind[s] = "plugin" -> "seed"
               [] kind[s] = "doctor" -> "leave"
               [] OTHER -> "done")
  /\ UNCHANGED <<published, filesVars, payload, expected, alone, kind, workdirs, nvdas, ghosts>>

\* extract_addon put the spy into the copy: Popen.
Launch(s) ==
  /\ pc[s] = "seed" /\ Goto(s, "starting")
  /\ nvdas' = nvdas \cup {s}
  /\ UNCHANGED <<published, filesVars, payload, expected, alone, kind, ran, workdirs, ghosts>>

\* The handshake arrived: the tests run.
Up(s) ==
  /\ pc[s] = "starting" /\ Goto(s, "up")
  /\ UNCHANGED <<published, filesVars, payload, expected, alone, hostVars>>

\* quit() or kill() ends the NVDA, or not: it raises, the process does not end, or the one that
\* runs is not the one the session tracks (NvdaProcess).
Stopping(s) ==
  \/ nvdas' = nvdas \ {s} /\ UNCHANGED unstopped
  \/ unstopped' = unstopped \cup (nvdas \cap {s}) /\ UNCHANGED nvdas

\* process.kill(), when start() raised.
Kill(s) ==
  /\ pc[s] = "kill" /\ Goto(s, "clean")
  /\ Stopping(s)
  /\ UNCHANGED <<published, filesVars, payload, expected, alone, kind, ran, workdirs, undeleted>>

\* Mutant of Quit: the directory is removed only if quit() returns.
QuitUnguarded(s) ==
  /\ pc[s] = "up" /\ (Goto(s, "remove") \/ Goto(s, "done"))
  /\ Stopping(s)
  /\ UNCHANGED <<published, filesVars, payload, expected, alone, kind, ran, workdirs, undeleted>>

\* Provisioned.teardown: quit() whether or not close() raises, and the directory comes next
\* whether or not quit() does.
Quit(s) ==
  /\ pc[s] = "up" /\ Goto(s, "remove")
  /\ Stopping(s)
  /\ UNCHANGED <<published, filesVars, payload, expected, alone, kind, ran, workdirs, undeleted>>

\* Windows does not remove the files of a program that runs; FakeNvda, a script outside the
\* directory, keeps none of them.
InUse(s) == s \in nvdas /\ kind[s] # "fake"

\* rmtree: what it cannot remove stays.
Removing(s) ==
  \/ ~InUse(s) /\ workdirs' = workdirs \ {s} /\ UNCHANGED undeleted
  \/ undeleted' = undeleted \cup {t \in workdirs \cap {s} : ~InUse(t)} /\ UNCHANGED workdirs

\* The finally of provision and provision_fake, the end of teardown, and of doctor's "with",
\* which is the only one that raises if the directory stays.
RemoveWorkdir(s) ==
  /\ pc[s] \in {"clean", "remove", "leave"}
  /\ IF pc[s] = "remove" /\ KeepPortable THEN UNCHANGED <<workdirs, undeleted>> ELSE Removing(s)
  /\ Goto(s, IF pc[s] = "clean" \/ (pc[s] = "leave" /\ s \in workdirs') THEN "failed" ELSE "done")
  /\ UNCHANGED <<published, filesVars, payload, expected, alone, kind, ran, nvdas, unstopped>>

\* The session is killed: what it made stays.
Crash(s) ==
  /\ pc[s] \notin Ended \cup {"start"} /\ Goto(s, "crashed")
  /\ UNCHANGED <<published, filesVars, payload, expected, alone, hostVars>>

AllOver == (\A s \in Sessions : pc[s] \in Ended) /\ UNCHANGED vars

Next ==
  \/ \E s \in Sessions :
       \/ Refuse(s) \/ ResolveFails(s) \/ Obtain(s) \/ MakeFakeWorkdir(s)
       \/ MakeWorkdir(s) \/ Unpack(s) \/ Abandon(s)
       \/ Launch(s) \/ Up(s) \/ Kill(s) \/ Quit(s) \/ RemoveWorkdir(s) \/ Crash(s)
  \/ AllOver

Spec == Init /\ [][Next]_vars

-------------------------------------------------------------------------------
TypeOK ==
  /\ CacheTypeOK
  /\ pc \in [Sessions -> CachePcs \cup Ended \cup
                         {"start", "cached", "unpack", "seed", "starting", "up", "kill", "clean",
                          "remove", "leave"}]
  /\ kind \in [Sessions -> Kinds] /\ ran \in [Sessions -> Contents \cup {None}]
  /\ workdirs \subseteq Sessions /\ nvdas \subseteq Sessions
  /\ unstopped \subseteq Sessions /\ undeleted \subseteq Sessions

\* A launcher with a published digest is run only if it has that digest, whatever the cache
\* held before, whatever the server sent, and whoever else uses the cache (download.py:62-109).
RunsOnlyWhatIsPublished ==
  \A s \in Sessions : published # None /\ ran[s] # None => ran[s] = published

\* A session that had the cache to itself finds the launcher it checked, pinned or placed still
\* there: FileNotFoundError is for sessions that share an entry.
AloneFindsTheLauncher ==
  \A s \in Sessions : alone[s] => /\ pc[s] # "missing"
                                  /\ pc[s] = "cached" => launcher # None

\* ... and leaves an entry the next session trusts, after any sequence of interrupted ones.
AloneLeavesTrusted == \A s \in Sessions : alone[s] /\ pc[s] = "cached" => Trusted

\* ... and runs what it downloaded, or what a digest vouched for: never what a session that
\* was interrupted before it could write the notes left behind (download.py:102-108).
AloneRunsWhatItTrusts ==
  \A s \in Sessions : alone[s] /\ ran[s] # None => ran[s] \in {payload[s], expected[s]}

\* A session that ended, unless it was killed, leaves only what it could not get rid of, on
\* whichever path it ended: an NVDA it tried to stop, and a directory it tried to remove after
\* that, and could not because this NVDA was using it or because the system refused.  The
\* setting keep_portable keeps the directory of one that got as far as running tests.
NothingLeftBehind ==
  \A s \in Sessions : pc[s] \in Ended \ {"crashed"} =>
    /\ s \in nvdas => s \in unstopped
    /\ s \in workdirs => \/ s \in undeleted
                         \/ InUse(s)
                         \/ KeepPortable /\ pc[s] = "done"
===============================================================================
