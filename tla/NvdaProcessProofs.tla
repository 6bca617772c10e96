--------------------------- MODULE NvdaProcessProofs ---------------------------
(***************************************************************************)
(* The host's hold on NVDA for any number of processes and ports.          *)
(*                                                                         *)
(* What carries the argument: a process that ended stays ended, so a       *)
(* handshake file that was removed can only come back from a process whose *)
(* end the host has not seen; and wherever the host goes on to start a     *)
(* process it holds no other.                                              *)
(***************************************************************************)
EXTENDS NvdaProcess, TLAPS, FiniteSetTheorems

\* A process the host has set out to start, itself or by way of NVDA.
Pending ==
  \/ pc = "trigger"
  \/ pc \in {"quit", "quitting", "start", "spawn"} /\ op # "teardown"

\* Which operation the host is in, and that every process it will start has a number.
Promised ==
  /\ pc \in {"start", "spawn", "polling", "reading", "opening"} =>
       op \in {"provision", "restart_harness"}
  /\ pc \in {"quit", "quitting"} => op \in {"restart_harness", "teardown"}
  /\ born + Cardinality(queued \cup restarting) + (IF Pending THEN 1 ELSE 0) <= MaxProcesses

\* Processes are numbered as they are born, and only one that was born is known.
Numbered ==
  /\ \A p \in Pids : phase[p] = "unborn" <=> p > born
  /\ proc <= born /\ handshake <= born /\ file <= born
  /\ \A p \in spawned : p <= born

\* The host holds what it started, and nothing while it is about to start another.
Held ==
  /\ \A p \in spawned : Gone(p) \/ p = proc
  /\ pc \in {"start", "spawn", "down"} => proc = None
  /\ pc \in {"quitting", "polling", "reading", "opening"} => proc # None

\* Only a process that has served can have announced itself.
Served == {"serving", "stopping", "leaving", "gone"}

Announced ==
  /\ file # None => phase[file] \in Served
  /\ handshake # None => phase[handshake] \in Served

\* What the host believes comes from a file it removed before the last process ended.
Fresh ==
  /\ \A p \in retired : Gone(p)
  /\ pc \in {"idle", "trigger", "adopting"} =>
       handshake \notin retired /\ (handshake # None => rpc = handshake)
  /\ pc \in {"spawn", "polling", "reading", "opening"} => handshake = None
  /\ pc \in {"spawn", "polling", "reading", "opening", "trigger", "adopting"} => file \notin retired

\* Of the adopted processes only the one that holds the handshake may still serve, besides those
\* that _kill_pid did not end or that let a call time out; it is given up only when its spy is
\* stopping.
Adopted ==
  /\ pc \notin {"idle", "quit", "trigger", "adopting"} => ownership = "spawned"
  /\ pc \in {"trigger", "adopting"} => handshake # None
  /\ pc = "adopting" /\ handshake \in adopted => phase[handshake] # "serving" \/ handshake \in unheard
  /\ \A p \in adopted \ (refused \cup unheard) :
                        \/ phase[p] \in Served \ {"serving"}
                        \/ phase[p] = "serving" /\ p = handshake /\ ownership = "adopted"

IInv == TypeOK /\ Promised /\ Numbered /\ Held /\ Announced /\ Fresh /\ Adopted

LEMMA InitInv == Init => IInv
<1> SUFFICES ASSUME Init PROVE IInv
  OBVIOUS
<1> USE ProcessAssumption DEF Init, Pids, None
<1>1. TypeOK
  BY DEF TypeOK, Phases, Places
<1>2. Promised
  <2>1. Cardinality(queued \cup restarting) = 0
    <3>1. queued \cup restarting = {}
      OBVIOUS
    <3> QED
      BY <3>1, FS_EmptySet
  <2> QED
    BY <2>1 DEF Promised, Pending
<1>3. Numbered /\ Held /\ Announced /\ Fresh /\ Adopted
  BY DEF Numbered, Held, Announced, Served, Fresh, Adopted, Gone
<1> QED
  BY <1>1, <1>2, <1>3 DEF IInv

\* How many processes are about to be started, when one begins or ceases to be.
LEMMA Counting ==
  ASSUME NEW S \in SUBSET Pids
  PROVE  /\ Cardinality(S) \in Nat
         /\ S # {} => Cardinality(S) >= 1
         /\ \A T \in SUBSET S : Cardinality(T) <= Cardinality(S)
         /\ \A p : Cardinality(S \cup {p}) <= Cardinality(S) + 1
         /\ \A p \in S : Cardinality(S \ {p}) = Cardinality(S) - 1
<1>1. IsFiniteSet(S)
  <2>1. IsFiniteSet(Pids)
    BY ProcessAssumption, FS_Interval DEF Pids
  <2> QED
    BY <2>1, FS_Subset
<1>2. Cardinality(S) \in Nat /\ (S # {} => Cardinality(S) >= 1)
  <2>1. Cardinality(S) \in Nat /\ (Cardinality(S) = 0 <=> S = {})
    BY <1>1, FS_CardinalityType, FS_EmptySet
  <2> QED
    BY <2>1
<1>3. \A T \in SUBSET S : Cardinality(T) <= Cardinality(S)
  BY <1>1, FS_Subset
<1>4. ASSUME NEW p PROVE Cardinality(S \cup {p}) <= Cardinality(S) + 1
  <2>1. CASE p \in S
    <3>1. Cardinality(S \cup {p}) = Cardinality(S)
      <4>1. S \cup {p} = S
        BY <2>1
      <4> QED
        BY <4>1, Zenon
    <3> QED
      BY <1>2, <3>1
  <2>2. CASE p \notin S
    <3>1. Cardinality(S \cup {p}) = Cardinality(S) + 1
      BY <1>1, <2>2, FS_AddElement
    <3> QED
      BY <1>2, <3>1
  <2> QED
    BY <2>1, <2>2
<1>5. ASSUME NEW p \in S PROVE Cardinality(S \ {p}) = Cardinality(S) - 1
  BY <1>1, FS_RemoveElement
<1> QED
  BY <1>2, <1>3, <1>4, <1>5

\* A process that is started has a number.
LEMMA HasNumber ==
  ASSUME TypeOK, Promised
  PROVE  pc = "spawn" \/ restarting # {} => born + 1 \in Pids /\ born + 1 # None
<1>1. /\ Cardinality(queued \cup restarting) \in Nat
      /\ restarting # {} => Cardinality(queued \cup restarting) >= 1
  <2>1. queued \cup restarting \in SUBSET Pids
    BY DEF TypeOK
  <2> QED
    BY <2>1, Counting
<1>2. born \in Nat /\ (pc = "spawn" => Pending)
  BY ProcessAssumption DEF TypeOK, Promised, Pending
<1> QED
  BY <1>1, <1>2, ProcessAssumption DEF Promised, Pids, None

\* Ending a process: quit() and kill().
LEMMA QuitSteps ==
  ASSUME IInv,
         ReleaseAdopted \/ QuitFindsItGone \/ RequestQuit \/ QuitObserved \/ QuitTimedOut
  PROVE  (TypeOK /\ Numbered /\ Held /\ Announced /\ Fresh /\ Adopted)'
<1> USE ProcessAssumption DEF IInv, TypeOK, Phases, Places, Numbered, Held, Announced, Served,
        Fresh, Adopted, Gone, Alive, Pids, None, worldVars, holdVars, ghostVars,
        hostVars
<1>1. CASE ReleaseAdopted
  BY <1>1 DEF ReleaseAdopted, Terminate, AfterQuit
<1>2. CASE QuitFindsItGone
  BY <1>2 DEF QuitFindsItGone, AfterQuit
<1>3. CASE RequestQuit
  <2>1. CASE UNCHANGED phase
    BY <1>3, <2>1 DEF RequestQuit
  <2>2. ASSUME NEW p \in Pids, phase[p] \in {"serving", "mute"}, phase' = Told(p)
        PROVE  (TypeOK /\ Numbered /\ Held /\ Announced /\ Fresh /\ Adopted)'
    BY <1>3, <2>2 DEF RequestQuit, Told
  <2>3. ASSUME NEW p \in Pids, Executes(p, handshake)
        PROVE  (TypeOK /\ Numbered /\ Held /\ Announced /\ Fresh /\ Adopted)'
    BY <1>3, <2>3 DEF RequestQuit, Executes, Told, Reached, Accepts
  <2> QED
    BY <1>3, <2>1, <2>2, <2>3 DEF RequestQuit
<1>4. CASE QuitObserved
  BY <1>4 DEF QuitObserved, AfterQuit
<1>5. CASE QuitTimedOut
  BY <1>5 DEF QuitTimedOut, Terminate, AfterQuit
<1> QED
  BY <1>1, <1>2, <1>3, <1>4, <1>5

\* Starting one: start().
LEMMA StartSteps ==
  ASSUME IInv,
         ResetForStart \/ Spawn \/ SpawnFails \/ PollAlive \/ PollAgain \/ FileSeen
           \/ StartSucceeds \/ StartFails \/ Mismatched \/ FileGone
  PROVE  (TypeOK /\ Numbered /\ Held /\ Announced /\ Fresh /\ Adopted)'
<1> USE ProcessAssumption DEF IInv, TypeOK, Phases, Places, Numbered, Held, Announced, Served,
        Fresh, Adopted, Gone, Alive, Pids, None, worldVars, holdVars, ghostVars,
        hostVars
<1>1. CASE ResetForStart
  BY <1>1 DEF ResetForStart
<1>2. CASE Spawn
  BY <1>2, HasNumber DEF Spawn, WithToken
<1>3. CASE SpawnFails
  BY <1>3 DEF SpawnFails
<1>4. CASE PollAlive
  BY <1>4 DEF PollAlive
<1>5. CASE PollAgain
  BY <1>5 DEF PollAgain
<1>6. CASE FileSeen
  BY <1>6 DEF FileSeen
<1>7. CASE StartSucceeds
  BY <1>7 DEF StartSucceeds
<1>8. CASE StartFails
  BY <1>8 DEF StartFails, GiveUpStart, Terminate
<1>9. CASE Mismatched
  BY <1>9 DEF Mismatched, GiveUpStart, Terminate
<1>10. CASE FileGone
  <2>1. CASE op = "provision"
    <3>1. Terminate({proc}) /\ proc' = None /\ pc' = "down"
      BY <1>10, <2>1 DEF FileGone
    <3>2. UNCHANGED <<born, file, port, own, handshake, ownership, rpc, op, spawned, adopted, refused, unheard>>
      BY <1>10 DEF FileGone
    <3> QED
      BY <1>10, <3>1, <3>2 DEF FileGone, Terminate
  <2>2. CASE op # "provision"
    <3>1. UNCHANGED <<phase, queued, restarting, retired, proc>> /\ pc' = "idle" /\ pc = "opening"
      BY <1>10, <2>2 DEF FileGone
    <3>2. UNCHANGED <<born, file, port, own, handshake, ownership, rpc, op, spawned, adopted, refused, unheard>>
      BY <1>10 DEF FileGone
    <3> QED
      BY <3>1, <3>2
  <2> QED
    BY <2>1, <2>2
<1> QED
  BY <1>1, <1>2, <1>3, <1>4, <1>5, <1>6, <1>7, <1>8, <1>9, <1>10

\* What the client does: restart_nvda, restart_harness, teardown.
LEMMA ClientSteps ==
  ASSUME IInv,
         TriggerRestart \/ TriggerLost \/ TriggerRejected \/ TriggerFails \/ Adopt
           \/ AdoptTimedOut \/ RestartHarness \/ Teardown \/ RestartNvda
  PROVE  (TypeOK /\ Numbered /\ Held /\ Announced /\ Fresh /\ Adopted)'
<1> USE ProcessAssumption DEF IInv, TypeOK, Phases, Places, Numbered, Held, Announced, Served,
        Fresh, Adopted, Gone, Alive, Pids, None, worldVars, holdVars, ghostVars,
        hostVars
<1>1. CASE TriggerRestart
  BY <1>1 DEF TriggerRestart, Executes, Told, Reached, Accepts
<1>2. CASE TriggerLost
  <2>1. queued' \subseteq Pids
    <3>1. CASE UNCHANGED queued
      BY <3>1
    <3>2. ASSUME NEW p \in Pids, MayRunLate(p) PROVE queued' \subseteq Pids
      BY <3>2 DEF MayRunLate
    <3> QED
      BY <1>2, <3>1, <3>2 DEF TriggerLost, Reached
  <2>2. /\ unheard' \in SUBSET Pids /\ unheard \subseteq unheard'
        /\ handshake \in adopted => phase[handshake] # "serving" \/ handshake \in unheard'
    <3>1. handshake # None /\ rpc = handshake
      BY <1>2 DEF TriggerLost
    <3>2. CASE Reached(rpc) = {} /\ UNCHANGED unheard
      BY <3>1, <3>2 DEF Reached
    <3>3. CASE unheard' = unheard \cup (adopted \cap Reached(rpc))
      BY <3>1, <3>3 DEF Reached
    <3> QED
      BY <1>2, <3>2, <3>3 DEF TriggerLost
  <2>3. /\ pc = "trigger" /\ pc' = "adopting"
        /\ UNCHANGED <<phase, born, restarting, file, port, own, holdVars, rpc, op>>
        /\ UNCHANGED <<spawned, adopted, retired, refused>>
    BY <1>2 DEF TriggerLost
  <2> QED
    BY <2>1, <2>2, <2>3
<1>3. CASE TriggerRejected
  BY <1>3 DEF TriggerRejected
<1>4. CASE TriggerFails
  <2>1. queued' \subseteq Pids
    <3>1. PICK p \in Pids : MayRunLate(p)
      BY <1>4 DEF TriggerFails, Reached
    <3> QED
      BY <3>1 DEF MayRunLate
  <2> QED
    BY <1>4, <2>1 DEF TriggerFails
<1>5. CASE Adopt
  BY <1>5 DEF Adopt
<1>6. CASE AdoptTimedOut
  BY <1>6 DEF AdoptTimedOut
<1>7. CASE RestartHarness
  BY <1>7 DEF RestartHarness
<1>8. CASE Teardown
  BY <1>8 DEF Teardown
<1>9. CASE RestartNvda
  BY <1>9 DEF RestartNvda
<1> QED
  BY <1>1, <1>2, <1>3, <1>4, <1>5, <1>6, <1>7, <1>8, <1>9

\* What a process does by itself.
LEMMA ProcessSteps ==
  ASSUME IInv, NEW p \in Pids,
         Announce(p) \/ SpyFails(p) \/ Ousted(p) \/ SpyStops(p) \/ RestartLate(p) \/ Relaunch(p) \/ Exit(p)
           \/ Crash(p)
  PROVE  (TypeOK /\ Numbered /\ Held /\ Announced /\ Fresh /\ Adopted)'
<1> USE ProcessAssumption DEF IInv, TypeOK, Phases, Places, Numbered, Held, Announced, Served,
        Fresh, Adopted, Gone, Alive, Pids, None, worldVars, holdVars, ghostVars,
        hostVars
<1>1. CASE Announce(p)
  BY <1>1 DEF Announce
<1>2. CASE SpyFails(p)
  BY <1>2 DEF SpyFails
<1>3. CASE Ousted(p)
  BY <1>3 DEF Ousted, Told
<1>4. CASE SpyStops(p)
  BY <1>4 DEF SpyStops
<1>8. CASE RestartLate(p)
  BY <1>8 DEF RestartLate, Told
<1>5. CASE Relaunch(p)
  <2>1. born + 1 \in Pids /\ born + 1 # None /\ phase[born + 1] = "unborn"
    BY <1>5, HasNumber DEF Relaunch
  <2>2. /\ phase' = [phase EXCEPT ![born + 1] = "booting"] /\ born' = born + 1
        /\ queued' = queued \ {p} /\ restarting' = restarting \ {p} /\ own' = own \cup {born + 1}
        /\ UNCHANGED <<file, port, hostVars>>
    BY <1>5 DEF Relaunch, WithToken
  <2> QED
    BY <2>1, <2>2
<1>6. CASE Exit(p)
  BY <1>6 DEF Exit
<1>7. CASE Crash(p)
  BY <1>7 DEF Crash
<1> QED
  BY <1>1, <1>2, <1>3, <1>4, <1>5, <1>6, <1>7, <1>8

\* Promises are kept, dropped or made in steps of the host that have room for them.
LEMMA PromisedStep ==
  ASSUME IInv, TypeOK',
         \/ ReleaseAdopted \/ QuitFindsItGone \/ RequestQuit \/ QuitObserved \/ QuitTimedOut
         \/ ResetForStart \/ Spawn \/ SpawnFails \/ PollAlive \/ PollAgain
         \/ FileSeen \/ StartSucceeds \/ StartFails \/ Mismatched \/ FileGone
         \/ TriggerRestart \/ TriggerLost \/ TriggerRejected \/ TriggerFails \/ Adopt \/ AdoptTimedOut
         \/ RestartHarness \/ Teardown \/ RestartNvda
  PROVE  Promised'
<1> DEFINE Due == queued \cup restarting
           Sum == born + Cardinality(Due) + (IF Pending THEN 1 ELSE 0)
<1>1. /\ Cardinality(Due) \in Nat /\ Cardinality(Due') \in Nat
      /\ Due' \subseteq Due => Cardinality(Due') <= Cardinality(Due)
      /\ \A p : Due' = Due \cup {p} => Cardinality(Due') <= Cardinality(Due) + 1
  <2>1. Due \in SUBSET Pids /\ Due' \in SUBSET Pids
    BY DEF IInv, TypeOK
  <2> HIDE DEF Due
  <2> QED
    BY <2>1, Counting
<1>2. /\ born \in Nat /\ MaxProcesses \in Nat /\ Sum <= MaxProcesses
      /\ pc \in {"start", "spawn", "polling", "reading", "opening"} =>
           op \in {"provision", "restart_harness"}
      /\ pc \in {"quit", "quitting"} => op \in {"restart_harness", "teardown"}
  BY ProcessAssumption DEF IInv, TypeOK, Promised
<1>3. \/ Due' \subseteq Due
      \/ /\ pc = "trigger" /\ pc' \in {"adopting", "idle"} /\ UNCHANGED <<born, op>>
         /\ \E p : Due' = Due \cup {p}
  <2>1. CASE TriggerRestart
    BY <2>1 DEF TriggerRestart
  <2>2. CASE TriggerLost
    BY <2>2 DEF TriggerLost, MayRunLate
  <2>3. CASE TriggerFails
    BY <2>3 DEF TriggerFails, MayRunLate
  <2>4. CASE ReleaseAdopted \/ QuitFindsItGone \/ RequestQuit \/ QuitObserved \/ QuitTimedOut
    BY <2>4 DEF ReleaseAdopted, QuitFindsItGone, RequestQuit, QuitObserved, QuitTimedOut, Terminate,
                worldVars
  <2>5. CASE \/ ResetForStart \/ Spawn \/ SpawnFails \/ PollAlive \/ PollAgain
             \/ FileSeen \/ StartSucceeds \/ StartFails \/ Mismatched \/ FileGone
    BY <2>5 DEF ResetForStart, Spawn, SpawnFails, PollAlive, PollAgain, FileSeen, StartSucceeds,
                StartFails, Mismatched, FileGone, GiveUpStart, Terminate, worldVars
  <2>6. CASE TriggerRejected \/ Adopt \/ AdoptTimedOut \/ RestartHarness \/ Teardown \/ RestartNvda
    BY <2>6 DEF TriggerRejected, Adopt, AdoptTimedOut, RestartHarness, Teardown, RestartNvda,
                worldVars
  <2> QED
    BY <2>1, <2>2, <2>3, <2>4, <2>5, <2>6
<1>4. CASE pc = "trigger" /\ pc' \in {"adopting", "idle"} /\ UNCHANGED <<born, op>>
           /\ \E p : Due' = Due \cup {p}
  <2>1. Cardinality(Due') <= Cardinality(Due) + 1
    <3> HIDE DEF Due
    <3> QED
      BY <1>1, <1>4, Zenon
  <2>2. Sum' <= MaxProcesses
    <3> HIDE DEF Due
    <3> QED
      BY <1>1, <1>2, <1>4, <2>1 DEF Pending
  <2> QED
    BY <1>4, <2>2 DEF Promised
<1>5. CASE Due' \subseteq Due
  <2>1. Cardinality(Due') <= Cardinality(Due) /\ Cardinality(Due) \in Nat /\ Cardinality(Due') \in Nat
    BY <1>1, <1>5
  <2>2. Room => born + Cardinality(Due) < MaxProcesses
    BY DEF Room
  <2>3. /\ Sum' <= MaxProcesses
        /\ pc' \in {"start", "spawn", "polling", "reading", "opening"} =>
             op' \in {"provision", "restart_harness"}
        /\ pc' \in {"quit", "quitting"} => op' \in {"restart_harness", "teardown"}
    <3> HIDE DEF Due
    <3> USE DEF Pending
    <3>1. CASE ReleaseAdopted \/ QuitTimedOut
      BY <1>2, <2>1, <3>1 DEF ReleaseAdopted, QuitTimedOut, AfterQuit
    <3>2. CASE QuitFindsItGone \/ RequestQuit \/ QuitObserved
      BY <1>2, <2>1, <3>2 DEF QuitFindsItGone, RequestQuit, QuitObserved, AfterQuit, worldVars
    <3>3. CASE ResetForStart \/ Spawn \/ SpawnFails
      BY <1>2, <2>1, <3>3 DEF ResetForStart, Spawn, SpawnFails, worldVars
    <3>4. CASE PollAlive \/ PollAgain \/ FileSeen \/ StartSucceeds
      BY <1>2, <2>1, <3>4 DEF PollAlive, PollAgain, FileSeen, StartSucceeds, worldVars
    <3>5. CASE StartFails \/ Mismatched \/ FileGone
      BY <1>2, <2>1, <3>5 DEF StartFails, Mismatched, FileGone, GiveUpStart
    <3>6. CASE TriggerRestart \/ TriggerLost \/ TriggerRejected \/ TriggerFails
      BY <1>2, <2>1, <3>6 DEF TriggerRestart, TriggerLost, TriggerRejected, TriggerFails, worldVars
    <3>7. CASE Adopt \/ AdoptTimedOut
      BY <1>2, <2>1, <3>7 DEF Adopt, AdoptTimedOut, worldVars
    <3>8. CASE RestartHarness \/ RestartNvda
      BY <1>2, <2>1, <2>2, <3>8 DEF RestartHarness, RestartNvda, worldVars
    <3>9. CASE Teardown
      BY <1>2, <2>1, <3>9 DEF Teardown, worldVars
    <3> QED
      BY <3>1, <3>2, <3>3, <3>4, <3>5, <3>6, <3>7, <3>8, <3>9
  <2> QED
    BY <2>3 DEF Promised
<1> QED
  BY <1>3, <1>4, <1>5

\* A process that relaunches keeps a promise; one that dies breaks it.
LEMMA PromisedByProcess ==
  ASSUME IInv, TypeOK', NEW p \in Pids,
         \/ Announce(p) \/ SpyFails(p) \/ Ousted(p) \/ SpyStops(p)
         \/ RestartLate(p) \/ Relaunch(p) \/ Exit(p) \/ Crash(p)
  PROVE  Promised'
<1> DEFINE Due == queued \cup restarting
<1>1. UNCHANGED <<pc, op>>
  BY DEF Announce, SpyFails, Ousted, SpyStops, RestartLate, Relaunch, Exit, Crash, hostVars
<1>2. /\ Cardinality(Due) \in Nat /\ Cardinality(Due') \in Nat /\ born \in Nat
      /\ Due' \subseteq Due => Cardinality(Due') <= Cardinality(Due)
      /\ p \in Due => Cardinality(Due \ {p}) = Cardinality(Due) - 1
  <2>1. Due \in SUBSET Pids /\ Due' \in SUBSET Pids /\ born \in Nat
    BY ProcessAssumption DEF IInv, TypeOK
  <2> HIDE DEF Due
  <2> QED
    BY <2>1, Counting
<1>3. \/ Due' \subseteq Due /\ born' = born
      \/ p \in Due /\ Due' = Due \ {p} /\ born' = born + 1
  BY DEF Announce, SpyFails, Ousted, SpyStops, RestartLate, Relaunch, Exit, Crash
<1>4. born' + Cardinality(Due') <= born + Cardinality(Due)
  <2>1. CASE Due' \subseteq Due /\ born' = born
    <3> HIDE DEF Due
    <3> QED
      BY <1>2, <2>1
  <2>2. CASE p \in Due /\ Due' = Due \ {p} /\ born' = born + 1
    <3> HIDE DEF Due
    <3>1. Cardinality(Due') = Cardinality(Due) - 1
      BY <1>2, <2>2, Zenon
    <3> QED
      BY <1>2, <2>2, <3>1
  <2> QED
    BY <1>3, <2>1, <2>2
<1>5. Pending' <=> Pending
  BY <1>1 DEF Pending
<1>6. born \in Nat /\ born' \in Nat /\ MaxProcesses \in Nat
  BY ProcessAssumption DEF IInv, TypeOK
<1>7. born + Cardinality(Due) + (IF Pending THEN 1 ELSE 0) <= MaxProcesses
  BY DEF IInv, Promised
<1>8. born' + Cardinality(Due') + (IF Pending' THEN 1 ELSE 0) <= MaxProcesses
  <2> HIDE DEF Due
  <2> QED
    BY <1>2, <1>4, <1>5, <1>6, <1>7
<1> QED
  BY <1>1, <1>8 DEF IInv, Promised

LEMMA NextInv == IInv /\ [Next]_vars => IInv'
<1> SUFFICES ASSUME IInv, [Next]_vars PROVE IInv'
  OBVIOUS
<1>1. CASE UNCHANGED vars
  BY <1>1 DEF IInv, TypeOK, Promised, Pending, Numbered, Held, Announced, Fresh, Adopted, Gone, vars, worldVars, holdVars, ghostVars
<1>2. CASE \/ ReleaseAdopted \/ QuitFindsItGone \/ RequestQuit \/ QuitObserved \/ QuitTimedOut
  BY <1>2, QuitSteps, PromisedStep DEF IInv
<1>3. CASE \/ ResetForStart \/ Spawn \/ SpawnFails \/ PollAlive \/ PollAgain
           \/ FileSeen \/ StartSucceeds \/ StartFails \/ Mismatched \/ FileGone
  BY <1>3, StartSteps, PromisedStep DEF IInv
<1>4. CASE \/ TriggerRestart \/ TriggerLost \/ TriggerRejected \/ TriggerFails \/ Adopt
           \/ AdoptTimedOut \/ RestartHarness \/ Teardown \/ RestartNvda
  BY <1>4, ClientSteps, PromisedStep DEF IInv
<1>5. ASSUME NEW p \in Pids, \/ Announce(p) \/ SpyFails(p) \/ Ousted(p) \/ SpyStops(p)
                             \/ RestartLate(p) \/ Relaunch(p) \/ Exit(p) \/ Crash(p)
      PROVE  IInv'
  BY <1>5, ProcessSteps, PromisedByProcess DEF IInv
<1> QED
  BY <1>1, <1>2, <1>3, <1>4, <1>5 DEF Next, SessionOver

\* The inductive invariant, for any number of processes and ports (process.py, client.py).
THEOREM NvdaProcessInvariant == Spec => []IInv
<1> QED
  BY InitInv, NextInv, PTL DEF Spec

\* Every variable keeps its type: no process is started beyond the bound (process.py, client.py).
THEOREM TypesHold == Spec => []TypeOK
<1>1. IInv => TypeOK
  BY DEF IInv
<1> QED
  BY <1>1, NvdaProcessInvariant, PTL

\* The host never loses the handle of a process it started that still runs (start, quit, kill,
\* _release_adopted, process.py).
THEOREM HandlesAreKept == Spec => []OwnsWhatItSpawned
<1>1. IInv => OwnsWhatItSpawned
  BY DEF IInv, Held, OwnsWhatItSpawned
<1> QED
  BY <1>1, NvdaProcessInvariant, PTL

\* A handshake of a process whose end the host has seen is never believed again
\* (_reset_for_start, process.py; restart_nvda, client.py).
THEOREM HandshakesAreFresh == Spec => []NeverAttachedToRetired
<1>1. IInv => NeverAttachedToRetired
  BY DEF IInv, Fresh, NeverAttachedToRetired
<1> QED
  BY <1>1, NvdaProcessInvariant, PTL

\* The RPC client and NvdaProcess mean the same process (_reattach, client.py).
THEOREM ClientFollows == Spec => []ClientFollowsProcess
<1>1. IInv => ClientFollowsProcess
  BY DEF IInv, Fresh, ClientFollowsProcess
<1> QED
  BY <1>1, NvdaProcessInvariant, PTL

\* An adopted process that still serves when the session is down was not forgotten: _kill_pid was
\* sent for it, or another was adopted when its answer did not come (_release_adopted,
\* process.py; restart_nvda, client.py).
THEOREM AdoptedStop == Spec => []AdoptedAreStopped
<1>1. IInv => AdoptedAreStopped
  BY DEF IInv, TypeOK, Adopted, Served, AdoptedAreStopped
<1> QED
  BY <1>1, NvdaProcessInvariant, PTL

================================================================================
