----------------------------- MODULE NvdaProcess ------------------------------
(***************************************************************************)
(* The host's hold on NVDA: which processes run, which one the host owns,  *)
(* and which one its RPC client talks to.                                  *)
(*                                                                         *)
(* NvdaProcess (process.py) starts a process and waits for the handshake   *)
(* file its spy writes; quits it, or kills it when it does not quit; and   *)
(* adopts the process NVDA starts in its own place when NVDA restarts      *)
(* itself.  NvdaClient (client.py) rebuilds its RPC client after either    *)
(* restart; Provisioned (provisioning.py) starts the first process and     *)
(* tears everything down at the end of the session.                        *)
(*                                                                         *)
(* The host is one thread.  Processes run beside it: they boot, announce   *)
(* themselves (or never do), crash, hang, ignore a request to quit.  All   *)
(* of them share one handshake file, one that an earlier session left      *)
(* behind included, and the ports their spies listen on are used again.    *)
(* Deadlines of the host may pass at any moment, those of its sockets      *)
(* included.  Killing one's own child takes effect: it executes nothing    *)
(* more, though it may be gone only after kill() has stopped waiting.      *)
(* Killing an adopted process, by its number, may fail and nobody notices. *)
(*                                                                         *)
(* A call carries two tokens (rpcclient.py): that of the handshake, which  *)
(* every spy draws anew, as an HTTP header, and that of the session, which *)
(* NVDA finds in its environment, as the first argument.  No two spies     *)
(* draw the same, so the header names a process.                           *)
(***************************************************************************)
EXTENDS Integers, FiniteSets

CONSTANTS
  MaxProcesses,   \* bound: processes of a session, numbered as they are started
  Ports           \* ports a spy may be given

ASSUME ProcessAssumption == MaxProcesses \in Nat \ {0, 1} /\ IsFiniteSet(Ports) /\ Ports # {}

Pids == 1 .. MaxProcesses

None == 0               \* no process: an absent file, handle or handshake

VARIABLES
  \* the processes
  phase,        \* what each process is doing
  born,         \* how many were started: the next one gets the next number
  queued,       \* those that may still execute a restart whose caller has given up
  restarting,   \* those that will start a replacement before they exit
  file,         \* whose handshake the handshake file holds
  port,         \* the port each spy has, or had
  own,          \* processes that have this session's token in their environment
  \* NvdaProcess
  proc,         \* _proc: the process started by Popen
  handshake,    \* _handshake: the process that announced itself
  ownership,    \* _ownership
  \* NvdaClient and Provisioned
  rpc,          \* the process the RPC client talks to
  pc,           \* where the host is
  op,           \* the operation it performs
  \* ghosts: what the properties remember
  spawned,      \* processes started by Popen
  adopted,      \* processes taken over by adopt_relaunched_handshake
  retired,      \* processes that were killed, or that the host knows to have ended
  refused,      \* adopted processes that _kill_pid did not end
  unheard       \* adopted ones that served but let the client's socket time out

worldVars == <<phase, born, queued, restarting, file, port, own>>
holdVars  == <<proc, handshake, ownership>>
ghostVars == <<spawned, adopted, retired, refused, unheard>>
vars      == <<worldVars, holdVars, rpc, pc, op, ghostVars>>

\* p executes nothing any more.  It may still be vanishing if it was killed: kill() waits for that
\* only so long, but drops its handle, and nobody looks at the process again.
Gone(p) == phase[p] = "gone"

Alive(p) == phase[p] \notin {"unborn", "gone"}

\* A session begins by provisioning: the first process is about to be started.  An earlier
\* session that was killed may have left one running, or its handshake file.
Init ==
  /\ \/ /\ born = 0 /\ phase = [p \in Pids |-> "unborn"] /\ file = None
     \/ /\ born = 1
        /\ \E before \in {"booting", "serving", "gone"} :
             /\ phase = [p \in Pids |-> IF p = 1 THEN before ELSE "unborn"]
             /\ file \in {None} \cup {p \in {1} : before # "booting"}
  /\ retired = {p \in Pids : Gone(p)}
  /\ port = [p \in Pids |-> CHOOSE n \in Ports : TRUE]
  /\ queued = {} /\ restarting = {} /\ own = {}
  /\ proc = None /\ handshake = None /\ ownership = "spawned"
  /\ rpc = None /\ pc = "start" /\ op = "provision"
  /\ spawned = {} /\ adopted = {} /\ refused = {} /\ unheard = {}

\* Every process that exists or was promised has a number.
Room == born + Cardinality(queued \cup restarting) < MaxProcesses

\* Kills processes, whatever they are doing.
Terminate(ps) ==
  /\ phase' = [p \in Pids |-> IF p \in ps /\ Alive(p) THEN "gone" ELSE phase[p]]
  /\ queued' = queued \ ps /\ restarting' = restarting \ ps
  /\ retired' = retired \cup ps

\* GlobalPlugin.terminate: a spy that has a server stops it before NVDA goes on.
Told(p) == [phase EXCEPT ![p] = IF phase[p] = "serving" THEN "stopping" ELSE "leaving"]

-------------------------------------------------------------------------------
(* Calls.                                                                      *)

\* Whoever listens now on the port of the process a client was made for.
Reached(client) == {p \in Pids : client # None /\ phase[p] = "serving" /\ port[p] = port[client]}

\* TokenCheckingHandler goes by the header, Dispatcher by the first argument.
Accepts(p, client) == p = client /\ p \in own

\* p executes a call of the client: what it asks of NVDA is that it stops.
Executes(p, client) ==
  /\ p \in Reached(client) /\ Accepts(p, client)
  /\ phase' = Told(p)

-------------------------------------------------------------------------------
(* quit() and kill().                                                          *)

\* Where a finished quit() leads: restart() goes on to start(), teardown() is done.
AfterQuit == IF op = "teardown" THEN "down" ELSE "start"

\* Mutant of ReleaseAdopted: the relaunched process is not stopped.
ReleaseOriginalOnly ==
  /\ pc = "quit" /\ ownership = "adopted"
  /\ Terminate({proc} \ {None})
  /\ proc' = None /\ handshake' = None /\ ownership' = "spawned"
  /\ pc' = AfterQuit
  /\ UNCHANGED <<born, file, port, own, rpc, op, spawned, adopted, refused, unheard>>

\* Mutant of ReleaseAdopted: the original handle is dropped without reaping it.
ReleaseHandshakeOnly ==
  /\ pc = "quit" /\ ownership = "adopted"
  /\ \E struck \in SUBSET ({handshake} \ {None}) :
       Terminate(struck) /\ refused' = refused \cup ({handshake} \ ({None} \cup struck))
  /\ proc' = None /\ handshake' = None /\ ownership' = "spawned"
  /\ pc' = AfterQuit
  /\ UNCHANGED <<born, file, port, own, rpc, op, spawned, adopted, unheard>>

\* _release_adopted: _kill_pid tries to stop the relaunched process, and whether it did is not
\* looked at; the original process is killed.
ReleaseAdopted ==
  /\ pc = "quit" /\ ownership = "adopted"
  /\ \E struck \in SUBSET ({handshake} \ {None}) :
       /\ Terminate(struck \cup ({proc} \ {None}))
       /\ refused' = refused \cup ({handshake} \ ({None} \cup struck))
  /\ proc' = None /\ handshake' = None /\ ownership' = "spawned"
  /\ pc' = AfterQuit
  /\ UNCHANGED <<born, file, port, own, rpc, op, spawned, adopted, unheard>>

\* There is nothing to quit, or it exited by itself; the handshake is kept.
QuitFindsItGone ==
  /\ pc = "quit" /\ ownership = "spawned"
  /\ proc # None => Gone(proc)
  /\ proc' = None
  /\ retired' = retired \cup ({proc} \ {None})
  /\ pc' = AfterQuit
  /\ UNCHANGED <<worldVars, handshake, ownership, rpc, op, spawned, adopted, refused, unheard>>

\* _request_quit: "nvda.exe --quit", which finds any NVDA, or the RPC method quit, sent to
\* whoever wrote the handshake.  Errors are suppressed, and the request may be ignored.
RequestQuit ==
  /\ pc = "quit" /\ ownership = "spawned" /\ proc # None /\ ~Gone(proc)
  /\ \/ UNCHANGED phase
     \/ \E p \in Pids : phase[p] \in {"serving", "mute"} /\ phase' = Told(p)
     \/ \E p \in Pids : Executes(p, handshake)
  /\ pc' = "quitting"
  /\ UNCHANGED <<born, queued, restarting, file, port, own, holdVars, rpc, op, ghostVars>>

\* _exited_within returns True.
QuitObserved ==
  /\ pc = "quitting" /\ Gone(proc)
  /\ proc' = None
  /\ retired' = retired \cup {proc}
  /\ pc' = AfterQuit
  /\ UNCHANGED <<worldVars, handshake, ownership, rpc, op, spawned, adopted, refused, unheard>>

\* Mutant of QuitTimedOut: the exit is awaited without a deadline.
QuitWaits ==
  /\ pc = "quitting" /\ ~Gone(proc)
  /\ UNCHANGED vars

\* _exited_within returns False, at its last look: kill(), which waits for the end only so long.
QuitTimedOut ==
  /\ pc = "quitting"
  /\ Terminate({proc})
  /\ proc' = None /\ handshake' = None
  /\ pc' = AfterQuit
  /\ UNCHANGED <<born, file, port, own, ownership, rpc, op, spawned, adopted, refused, unheard>>

-------------------------------------------------------------------------------
(* start().                                                                    *)

\* Mutant of ResetForStart: the handshake file is left in place.
ResetKeepsFile ==
  /\ pc = "start"
  /\ handshake' = None /\ ownership' = "spawned"
  /\ pc' = "spawn"
  /\ UNCHANGED <<worldVars, proc, rpc, op, ghostVars>>

\* _reset_for_start: a handshake left over from an earlier process is unlinked.
ResetForStart ==
  /\ pc = "start"
  /\ file' = None /\ handshake' = None /\ ownership' = "spawned"
  /\ pc' = "spawn"
  /\ UNCHANGED <<phase, born, queued, restarting, port, own, proc, rpc, op, ghostVars>>

\* _environment: the session's token is in it, and NVDA's children inherit it.
WithToken(p) == own' = own \cup {p}

\* subprocess.Popen
Spawn ==
  /\ pc = "spawn"
  /\ born' = born + 1
  /\ phase' = [phase EXCEPT ![born + 1] = "booting"]
  /\ proc' = born + 1 /\ WithToken(born + 1)
  /\ spawned' = spawned \cup {born + 1}
  /\ pc' = "polling"
  /\ UNCHANGED <<queued, restarting, file, port, handshake, ownership, rpc, op>>
  /\ UNCHANGED <<adopted, retired, refused, unheard>>

\* Popen raises OSError, which is no TestkitError: restart_harness does not close its client.
SpawnFails ==
  /\ pc = "spawn"
  /\ pc' = IF op = "provision" THEN "down" ELSE "idle"
  /\ UNCHANGED <<worldVars, holdVars, rpc, op, ghostVars>>

\* One round of _await_handshake: _raise_if_exited finds the process running.
PollAlive ==
  /\ pc = "polling" /\ ~Gone(proc)
  /\ pc' = "reading"
  /\ UNCHANGED <<worldVars, holdVars, rpc, op, ghostVars>>

\* _read_handshake: the file may be absent still.
PollAgain ==
  /\ pc = "reading" /\ file = None
  /\ pc' = "polling"
  /\ UNCHANGED <<worldVars, holdVars, rpc, op, ghostVars>>

\* It is there, and is opened next.
FileSeen ==
  /\ pc = "reading" /\ file # None
  /\ pc' = "opening"
  /\ UNCHANGED <<worldVars, holdVars, rpc, op, ghostVars>>

\* start() accepts any handshake; the client attaches to it.
StartSucceeds ==
  /\ pc = "opening" /\ file # None
  /\ handshake' = file /\ rpc' = file
  /\ pc' = "idle"
  /\ UNCHANGED <<worldVars, proc, ownership, op, ghostVars>>

\* start() raises NvdaStartupError after kill(); restart_harness closes its client, and
\* provisioning gives up.
GiveUpStart ==
  /\ Terminate({proc})
  /\ proc' = None /\ handshake' = None /\ rpc' = None
  /\ pc' = IF op = "provision" THEN "down" ELSE "idle"
  /\ UNCHANGED <<born, file, port, own, ownership, op, spawned, adopted, refused, unheard>>

\* The process exited, or did not announce itself in time.
StartFails == pc = "polling" /\ GiveUpStart

\* What was announced is no handshake of this protocol: ProtocolMismatchError.
Mismatched == pc = "opening" /\ file # None /\ GiveUpStart

\* The file was removed since, or is being replaced: an OSError, which is no TestkitError, so
\* start() does not kill and restart_harness does not close; provisioning does kill.
FileGone ==
  /\ pc = "opening"
  /\ IF op = "provision"
     THEN Terminate({proc}) /\ proc' = None /\ pc' = "down"
     ELSE UNCHANGED <<phase, queued, restarting, retired, proc>> /\ pc' = "idle"
  /\ UNCHANGED <<born, file, port, own, handshake, ownership, rpc, op>>
  /\ UNCHANGED <<spawned, adopted, refused, unheard>>

-------------------------------------------------------------------------------
(* The operations a test may call between two others.                          *)

\* restart_harness: quit(), then start().
RestartHarness ==
  /\ pc = "idle" /\ Room
  /\ pc' = "quit" /\ op' = "restart_harness"
  /\ UNCHANGED <<worldVars, holdVars, rpc, ghostVars>>

\* Provisioned.teardown: closes the client, then quit().
Teardown ==
  /\ pc = "idle"
  /\ rpc' = None
  /\ pc' = "quit" /\ op' = "teardown"
  /\ UNCHANGED <<worldVars, holdVars, ghostVars>>

\* restart_nvda unlinks the handshake before NVDA is told to restart.
RestartNvda ==
  /\ pc = "idle" /\ Room
  /\ handshake # None
  /\ file' = None
  /\ pc' = "trigger" /\ op' = "restart_nvda"
  /\ UNCHANGED <<phase, born, queued, restarting, port, own, holdVars, rpc, ghostVars>>

\* core.restart() runs inside NVDA, and the call returns or loses its connection.
TriggerRestart ==
  /\ pc = "trigger"
  /\ \E p \in Pids : Executes(p, rpc) /\ restarting' = restarting \cup {p}
  /\ pc' = "adopting"
  /\ UNCHANGED <<born, queued, file, port, own, holdVars, rpc, op, ghostVars>>

\* p may execute the call some time, although the caller waits no longer.
MayRunLate(p) == queued' \in {queued, queued \cup {q \in {p} : Accepts(q, rpc)}}

\* Nobody answers, or nobody in time (_SOCKET_TIMEOUT): ConnectionLost is suppressed, whatever
\* it means.
TriggerLost ==
  /\ pc = "trigger"
  /\ \/ Reached(rpc) = {} /\ UNCHANGED <<queued, unheard>>
     \/ /\ \E p \in Reached(rpc) : MayRunLate(p)
        /\ unheard' = unheard \cup (adopted \cap Reached(rpc))
  /\ pc' = "adopting"
  /\ UNCHANGED <<phase, born, restarting, file, port, own, holdVars, rpc, op>>
  /\ UNCHANGED <<spawned, adopted, retired, refused>>

\* AuthError: another NVDA has the port, or the handshake was not of this session.
TriggerRejected ==
  /\ pc = "trigger"
  /\ \E p \in Reached(rpc) : ~Accepts(p, rpc)
  /\ pc' = "idle"
  /\ UNCHANGED <<worldVars, holdVars, rpc, op, ghostVars>>

\* Any other error is raised, such as the timeout of a job that runs later all the same.
TriggerFails ==
  /\ pc = "trigger"
  /\ \E p \in Reached(rpc) : Accepts(p, rpc) /\ MayRunLate(p)
  /\ pc' = "idle"
  /\ UNCHANGED <<phase, born, restarting, file, port, own, holdVars, rpc, op, ghostVars>>

\* Mutant of Adopt: an absent file is taken for a new process.
AdoptUnread ==
  /\ pc = "adopting" /\ file # handshake
  /\ handshake' = file /\ ownership' = "adopted" /\ rpc' = file
  /\ adopted' = adopted \cup {file}
  /\ pc' = "idle"
  /\ UNCHANGED <<worldVars, proc, op, spawned, retired, refused, unheard>>

\* Mutant of Adopt: restart_nvda keeps its RPC client.
AdoptWithoutReattach ==
  /\ pc = "adopting" /\ file \notin {None, handshake}
  /\ handshake' = file /\ ownership' = "adopted"
  /\ adopted' = adopted \cup {file}
  /\ pc' = "idle"
  /\ UNCHANGED <<worldVars, proc, rpc, op, spawned, retired, refused, unheard>>

\* adopt_relaunched_handshake accepts any process but the one it replaces.
Adopt ==
  /\ pc = "adopting" /\ file \notin {None, handshake}
  /\ handshake' = file /\ ownership' = "adopted" /\ rpc' = file
  /\ adopted' = adopted \cup {file}
  /\ pc' = "idle"
  /\ UNCHANGED <<worldVars, proc, op, spawned, retired, refused, unheard>>

\* HandshakeTimeout is raised, or the error of a file that vanished while it was read; the old
\* hold on NVDA is kept.
AdoptTimedOut ==
  /\ pc = "adopting"
  /\ pc' = "idle"
  /\ UNCHANGED <<worldVars, holdVars, rpc, op, ghostVars>>

-------------------------------------------------------------------------------
(* The processes, each with the spy inside.                                    *)

hostVars == <<holdVars, rpc, pc, op, ghostVars>>

\* SpyServer.start: the server listens on a port nobody has, then the handshake file is replaced.
Announce(p) ==
  /\ phase[p] = "booting"
  /\ phase' = [phase EXCEPT ![p] = "serving"]
  /\ \E n \in Ports : /\ \A q \in Pids : phase[q] = "serving" => port[q] # n
                      /\ port' = [port EXCEPT ![p] = n]
  /\ file' = p
  /\ UNCHANGED <<born, queued, restarting, own, hostVars>>

\* GlobalPlugin.__init__ fails: the taps and the server are taken down again, with the
\* handshake file, whoever wrote it, if it came to the server.
SpyFails(p) ==
  /\ phase[p] = "booting"
  /\ phase' = [phase EXCEPT ![p] = "mute"]
  /\ file' \in {file, None}
  /\ UNCHANGED <<born, queued, restarting, port, own, hostVars>>

\* An NVDA that starts asks one that runs to quit.
Ousted(p) ==
  /\ phase[p] \in {"serving", "mute"} /\ \E q \in Pids : phase[q] = "booting"
  /\ phase' = Told(p)
  /\ UNCHANGED <<born, queued, restarting, file, port, own, hostVars>>

\* SpyServer.stop, which waits only so long for a call in hand: removes the file, whoever
\* wrote it.
SpyStops(p) ==
  /\ phase[p] = "stopping"
  /\ phase' = [phase EXCEPT ![p] = "leaving"]
  /\ file' = None
  /\ UNCHANGED <<born, queued, restarting, port, own, hostVars>>

\* The job of a restart nobody waits for any more comes to its turn.
RestartLate(p) ==
  /\ p \in queued /\ phase[p] = "serving"
  /\ phase' = Told(p)
  /\ queued' = queued \ {p} /\ restarting' = restarting \cup {p}
  /\ UNCHANGED <<born, file, port, own, hostVars>>

\* NVDA starts its replacement after its plugins were terminated.
Relaunch(p) ==
  /\ phase[p] = "leaving" /\ p \in restarting
  /\ born' = born + 1
  /\ phase' = [phase EXCEPT ![born + 1] = "booting"]
  /\ WithToken(born + 1)
  /\ queued' = queued \ {p} /\ restarting' = restarting \ {p}
  /\ UNCHANGED <<file, port, hostVars>>

Exit(p) ==
  /\ phase[p] = "leaving" /\ p \notin restarting
  /\ phase' = [phase EXCEPT ![p] = "gone"]
  /\ queued' = queued \ {p}
  /\ UNCHANGED <<born, restarting, file, port, own, hostVars>>

\* A crash leaves the handshake file behind.
Crash(p) ==
  /\ Alive(p)
  /\ phase' = [phase EXCEPT ![p] = "gone"]
  /\ queued' = queued \ {p} /\ restarting' = restarting \ {p}
  /\ UNCHANGED <<born, file, port, own, hostVars>>

-------------------------------------------------------------------------------
SessionOver == pc = "down" /\ UNCHANGED vars

\* What the host does by itself once an operation is under way.
HostStep ==
  \/ ReleaseAdopted \/ QuitFindsItGone \/ RequestQuit \/ QuitObserved \/ QuitTimedOut
  \/ ResetForStart \/ Spawn \/ SpawnFails \/ PollAlive \/ PollAgain
  \/ FileSeen \/ StartSucceeds \/ StartFails \/ Mismatched \/ FileGone
  \/ TriggerRestart \/ TriggerLost \/ TriggerRejected \/ TriggerFails \/ Adopt \/ AdoptTimedOut

Operation == RestartHarness \/ Teardown \/ RestartNvda

Next ==
  \/ ReleaseAdopted \/ QuitFindsItGone \/ RequestQuit \/ QuitObserved \/ QuitTimedOut
  \/ ResetForStart \/ Spawn \/ SpawnFails \/ PollAlive \/ PollAgain
  \/ FileSeen \/ StartSucceeds \/ StartFails \/ Mismatched \/ FileGone
  \/ TriggerRestart \/ TriggerLost \/ TriggerRejected \/ TriggerFails \/ Adopt \/ AdoptTimedOut
  \/ RestartHarness \/ Teardown \/ RestartNvda
  \/ \E p \in Pids : \/ Announce(p) \/ SpyFails(p) \/ Ousted(p) \/ SpyStops(p)
                    \/ RestartLate(p) \/ Relaunch(p) \/ Exit(p) \/ Crash(p)
  \/ SessionOver

\* The host runs, and the deadline of start() passes however often it polls.  Nothing is
\* assumed of any process.
Spec == Init /\ [][Next]_vars /\ WF_vars(HostStep) /\ SF_vars(StartFails)

-------------------------------------------------------------------------------
Phases == {"unborn", "booting", "serving", "mute", "stopping", "leaving", "gone"}

Places == {"idle", "quit", "quitting", "start", "spawn", "polling", "reading", "opening",
           "trigger", "adopting", "down"}

\* Type invariant of the processes and of the host's hold on them.
TypeOK ==
  /\ phase \in [Pids -> Phases] /\ born \in 0 .. MaxProcesses
  /\ queued \subseteq Pids /\ restarting \subseteq Pids /\ file \in Pids \cup {None}
  /\ port \in [Pids -> Ports] /\ own \subseteq Pids
  /\ proc \in Pids \cup {None} /\ handshake \in Pids \cup {None}
  /\ ownership \in {"spawned", "adopted"}
  /\ rpc \in Pids \cup {None} /\ pc \in Places
  /\ op \in {"provision", "restart_harness", "restart_nvda", "teardown"}
  /\ spawned \subseteq Pids /\ adopted \subseteq Pids /\ retired \subseteq Pids
  /\ refused \subseteq Pids /\ unheard \subseteq Pids

\* The host never loses the handle of a process it started: one that still runs and was not
\* killed is _proc, whatever failed, and none is left once the session is down (start, quit,
\* kill, _release_adopted, process.py).
OwnsWhatItSpawned ==
  /\ \A p \in spawned : Gone(p) \/ p = proc
  /\ pc = "down" => proc = None

\* Between two operations the handshake is never that of a process the host has killed or seen
\* end, nor of one that had ended before the session began: a stale handshake file is not
\* believed (_reset_for_start, restart_nvda's unlink).
NeverAttachedToRetired == pc = "idle" => handshake \notin retired

\* Between two operations the RPC client talks to the process NvdaProcess holds the handshake
\* of, if there is one and the client is open; so version, restart_nvda's exclude_pid and the
\* calls mean the same process (_reattach, client.py).
ClientFollowsProcess == pc = "idle" /\ None \notin {rpc, handshake} => rpc = handshake

\* The host does not forget a process it adopted: one that still serves when the session is down
\* is one that _kill_pid was sent for and did not end, or one whose answer to restart_nvda did
\* not come in time, so that another was adopted instead (_release_adopted, process.py;
\* restart_nvda, client.py).
AdoptedAreStopped ==
  pc = "down" => \A p \in adopted \ (refused \cup unheard) : phase[p] \notin {"booting", "serving", "mute"}

\* Every operation ends, by returning or by raising, however NVDA hangs.
EveryOperationEnds == pc \notin {"idle", "down"} ~> pc \in {"idle", "down"}

-------------------------------------------------------------------------------
(* What the code's documents say and the code does not do.                     *)

\* "Owns one NVDA (or FakeNvda) process and its handshake" (process.py:115): the handshake
\* of a process that was spawned is that process's own.
HandshakeIsOwn ==
  pc = "idle" /\ ownership = "spawned" /\ proc # None /\ handshake # None => handshake = proc

===============================================================================
