-------------------------- MODULE ProvisioningProofs ---------------------------
(***************************************************************************)
(* What holds of any number of sessions that share a cache entry, fail or  *)
(* are killed anywhere: a published digest is honoured by everything that  *)
(* is ever run, and a session that ends leaves only what it could not get  *)
(* rid of.                                                                 *)
(*                                                                         *)
(* The first argument: once some session trusts the launcher, it can only  *)
(* be removed, or replaced by a download that has the same digest.         *)
(***************************************************************************)
EXTENDS Provisioning, TLAPS

\* Steps taken only when no digest is published.
Unpublished == {"read256", "read1", "open1", "write1", "hash256", "open256", "write256"}

\* A session that trusts the launcher finds it gone or with the published digest; what a
\* session compares with is that digest.
Honoured ==
  published # None =>
    \A s \in Sessions :
      /\ ran[s] \in {None, published}
      /\ pc[s] \in {"cached", "unpack"} => launcher \in {None, published}
      /\ pc[s] = "compare" => expected[s] = published
      /\ pc[s] \notin Unpublished

\* Where a session is while it has an NVDA or a directory, what it tried before it got further,
\* and who never gets where.
Accounted ==
  \A s \in Sessions :
    /\ s \in nvdas => \/ pc[s] \in {"starting", "up", "kill", "crashed"}
                      \/ s \in unstopped /\ pc[s] \in {"clean", "remove", "failed", "done"}
    /\ s \in workdirs =>
         \/ pc[s] \in {"unpack", "seed", "starting", "up", "kill", "clean", "remove", "leave",
                       "crashed"}
         \/ pc[s] \in {"failed", "done"} /\ (s \in undeleted \/ InUse(s))
         \/ KeepPortable /\ pc[s] = "done"
    /\ s \in workdirs => kind[s] # "provision"
    /\ kind[s] = "fake" => pc[s] \notin CachePcs \cup {"cached", "unpack"}

\* Where the entry's files or notes are about to change.
Changing == {"discard", "discard1", "discard256", "fetch", "place", "open1", "write1",
             "hash256", "open256", "write256"}

\* A trusted entry that nobody changes: whoever looks at it will trust it.
Settled ==
  /\ Trusted
  /\ \A u \in Sessions :
       /\ pc[u] \notin Changing
       /\ pc[u] = "compare" => expected[u] = launcher
       /\ pc[u] \in {"read256", "read1"} => published = None
       /\ pc[u] = "read1" => sha256 \notin Contents

\* How far a session that has the entry to itself has come.
AloneAtWork(s) ==
  /\ pc[s] \in {"read256", "read1", "compare"} => launcher # None
  /\ pc[s] \in {"read256", "read1"} => published = None
  /\ pc[s] = "read1" => sha256 \notin Contents
  /\ pc[s] = "compare" /\ expected[s] = launcher => Trusted
  /\ pc[s] \in {"open1", "write1", "hash256", "open256", "write256"} =>
       published = None /\ launcher = payload[s] /\ launcher # None
  /\ pc[s] \in {"open256", "write256"} => expected[s] = launcher

Alone ==
  \A s \in Sessions :
    /\ pc[s] = "place" => payload[s] # None
    /\ pc[s] \in CachePcs \cup {"start", "cached", "unpack"} => ran[s] = None
    /\ alone[s] =>
         /\ Using(s) => \A u \in Sessions \ {s} : ~Using(u)
         /\ AloneAtWork(s)
         /\ pc[s] \in {"cached", "unpack"} => Settled /\ launcher \in {payload[s], expected[s]}
         /\ ran[s] # None => ran[s] \in {payload[s], expected[s]}
         /\ pc[s] # "missing"

Basics == TypeOK /\ Honoured /\ Accounted

IInv == Basics /\ Alone

LEMMA InitInv == Init => IInv
<1> SUFFICES ASSUME Init PROVE IInv
  OBVIOUS
<1>1. TypeOK
  BY DEF Init, CacheInit, TypeOK, CacheTypeOK
<1>2. Honoured
  BY DEF Init, CacheInit, Honoured, Unpublished
<1>3. Accounted
  BY DEF Init, CacheInit, Accounted, CachePcs
<1>4. Alone
  BY DEF Init, CacheInit, Alone
<1> QED
  BY <1>1, <1>2, <1>3, <1>4 DEF IInv, Basics

\* Any step of the cache.
LEMMA CacheStep ==
  ASSUME Basics, NEW s \in Sessions, kind[s] # "fake", EnsureLauncher(s), UNCHANGED hostVars
  PROVE  Basics'
<1> USE DEF Basics, TypeOK, CacheTypeOK, Honoured, Accounted, InUse, Unpublished, CachePcs, Ended,
            Goto, filesVars, hostVars, ghosts, None, Empty
<1>1. CASE Enter(s)
  BY <1>1 DEF Enter
<1>2. CASE Look(s)
  BY <1>2 DEF Look
<1>3. CASE ReadSha256(s) \/ ReadSha1(s)
  BY <1>3 DEF ReadSha256, ReadSha1, Note
<1>4. CASE Compare(s)
  BY <1>4 DEF Compare
<1>5. CASE Discard(s)
  BY <1>5 DEF Discard
<1>6. CASE Fetch(s)
  BY <1>6 DEF Fetch
<1>7. CASE Place(s)
  BY <1>7 DEF Place
<1>8. CASE Mismatch(s) \/ Missing(s) \/ CacheFault(s)
  BY <1>8 DEF Mismatch, Missing, CacheFault
<1>9. CASE PinSha1(s) \/ HashSha256(s) \/ PinSha256(s)
  BY <1>9 DEF PinSha1, HashSha256, PinSha256
<1> QED
  BY <1>1, <1>2, <1>3, <1>4, <1>5, <1>6, <1>7, <1>8, <1>9 DEF EnsureLauncher

\* A session's directory and its NVDA come and go with its own steps.
LEMMA SessionStep ==
  ASSUME Basics, NEW s \in Sessions,
         Refuse(s) \/ ResolveFails(s) \/ MakeFakeWorkdir(s) \/ MakeWorkdir(s) \/ Unpack(s)
           \/ Abandon(s) \/ Launch(s) \/ Up(s) \/ Kill(s) \/ Quit(s) \/ RemoveWorkdir(s)
           \/ Crash(s)
  PROVE  Basics'
<1> USE DEF Basics, TypeOK, CacheTypeOK, Honoured, Accounted, InUse, Unpublished, CachePcs, Ended,
            Goto, filesVars, hostVars, ghosts, None, Kinds
<1>1. CASE Refuse(s) \/ ResolveFails(s)
  BY <1>1 DEF Refuse, ResolveFails
<1>2. CASE MakeFakeWorkdir(s)
  BY <1>2 DEF MakeFakeWorkdir
<1>3. CASE MakeWorkdir(s)
  BY <1>3 DEF MakeWorkdir
<1>4. CASE Unpack(s)
  BY <1>4 DEF Unpack
<1>5. CASE Abandon(s)
  BY <1>5 DEF Abandon, MayHaveRun
<1>6. CASE Launch(s) \/ Up(s)
  BY <1>6 DEF Launch, Up
<1>7. CASE Kill(s) \/ Quit(s)
  BY <1>7 DEF Kill, Quit, Stopping
<1>8. CASE RemoveWorkdir(s)
  BY <1>8 DEF RemoveWorkdir, Removing
<1>9. CASE Crash(s)
  BY <1>9 DEF Crash
<1> QED
  BY <1>1, <1>2, <1>3, <1>4, <1>5, <1>6, <1>7, <1>8, <1>9

\* A trusted entry stays as it is, whoever looks at it.
LEMMA SettledStays ==
  ASSUME Basics, Settled, NEW s \in Sessions, EnsureLauncher(s)
  PROVE  Settled' /\ UNCHANGED <<published, filesVars>>
<1> USE DEF Basics, TypeOK, CacheTypeOK, Settled, Changing, Goto, filesVars, None, Empty
<1>1. CASE Enter(s)
  BY <1>1 DEF Enter, Trusted
<1>2. CASE Look(s)
  <2>1. launcher # None /\ (published # None => published = launcher)
    BY DEF Trusted
  <2>2. expected' = [expected EXCEPT ![s] = published] /\ UNCHANGED <<published, filesVars>>
    BY <1>2 DEF Look
  <2>3. pc' = [pc EXCEPT ![s] = IF published # None THEN "compare" ELSE "read256"]
    BY <1>2, <2>1 DEF Look
  <2>4. Trusted'
    BY <2>2 DEF Trusted
  <2>5. ASSUME NEW u \in Sessions
        PROVE  /\ pc'[u] \notin Changing
               /\ pc'[u] = "compare" => expected'[u] = launcher
               /\ pc'[u] \in {"read256", "read1"} => published = None
               /\ pc'[u] = "read1" => sha256 \notin Contents
    BY <2>1, <2>2, <2>3
  <2> QED
    BY <2>2, <2>4, <2>5
<1>3. CASE ReadSha256(s) \/ ReadSha1(s)
  BY <1>3 DEF ReadSha256, ReadSha1, Note, Trusted
<1>4. CASE Compare(s)
  BY <1>4 DEF Compare, Trusted
<1>5. CASE Discard(s) \/ Fetch(s) \/ Place(s) \/ Mismatch(s)
  BY <1>5 DEF Discard, Fetch, Place, Mismatch
<1>6. CASE Missing(s) \/ CacheFault(s)
  BY <1>6 DEF Missing, CacheFault, Trusted
<1>7. CASE PinSha1(s) \/ HashSha256(s) \/ PinSha256(s)
  BY <1>7 DEF PinSha1, HashSha256, PinSha256
<1> QED
  BY <1>1, <1>2, <1>3, <1>4, <1>5, <1>6, <1>7 DEF EnsureLauncher

\* What a step of the cache leaves of another session.
LEMMA CacheFrame ==
  ASSUME Basics, NEW s \in Sessions, EnsureLauncher(s), NEW t \in Sessions \ {s}
  PROVE  /\ pc'[t] = pc[t] /\ payload'[t] = payload[t] /\ expected'[t] = expected[t]
         /\ alone'[t] => alone[t]
         /\ alone'[t] /\ Using(t) => Using(s)
         /\ published' = published
  BY DEF Basics, TypeOK, CacheTypeOK, Goto, Using, CachePcs, EnsureLauncher, Enter, Look, Note,
         ReadSha256, ReadSha1, Compare, Discard, Fetch, Place, Mismatch, PinSha1, HashSha256,
         PinSha256, Missing, CacheFault, filesVars

\* The session that steps: where it gets to, if it has the entry to itself.
LEMMA AloneSteps ==
  ASSUME IInv, NEW s \in Sessions, EnsureLauncher(s), UNCHANGED hostVars, alone'[s]
  PROVE  /\ Using(s)' => \A u \in Sessions \ {s} : ~Using(u)'
         /\ AloneAtWork(s)'
         /\ pc'[s] = "cached" => Settled' /\ launcher' \in {payload'[s], expected'[s]}
         /\ pc'[s] \notin {"missing", "unpack"}
<1> USE DEF Basics, TypeOK, CacheTypeOK, CachePcs, Goto, filesVars, None, Empty, hostVars
<1>1. CASE Enter(s)
  BY <1>1 DEF Enter, Using, AloneAtWork
<1>2. CASE ~Enter(s)
  <2>1. pc[s] \in CachePcs /\ alone' = alone
    BY <1>2 DEF EnsureLauncher, Look, Note, ReadSha256, ReadSha1, Compare, Discard, Fetch, Place,
                Mismatch, PinSha1, HashSha256, PinSha256, Missing, CacheFault
  <2>2. /\ \A u \in Sessions \ {s} : ~Using(u)
        /\ AloneAtWork(s)
        /\ pc[s] = "place" => payload[s] # None
    BY <2>1 DEF IInv, Alone, Using
  <2>3. \A u \in Sessions \ {s} : ~Using(u)' /\ pc'[u] \notin CachePcs
    <3>1. \A u \in Sessions \ {s} : pc'[u] = pc[u]
      BY CacheFrame DEF IInv
    <3> QED
      BY <3>1, <2>2 DEF Using
  <2>4. pc'[s] = "cached" /\ Trusted' => Settled'
    BY <2>3 DEF Settled, Changing
  <2> SUFFICES /\ AloneAtWork(s)'
               /\ pc'[s] = "cached" => Trusted' /\ launcher' \in {payload'[s], expected'[s]}
               /\ pc'[s] \notin {"missing", "unpack"}
    BY <2>3, <2>4
  <2>5. TypeOK
    BY DEF IInv
  <2> USE DEF AloneAtWork
  <2>6. CASE Look(s)
    BY <2>2, <2>5, <2>6 DEF Look, Trusted
  <2>7. CASE ReadSha256(s) \/ ReadSha1(s)
    BY <2>2, <2>5, <2>7 DEF ReadSha256, ReadSha1, Note, Trusted
  <2>8. CASE Compare(s)
    BY <2>2, <2>5, <2>8 DEF Compare, Trusted
  <2>9. CASE Discard(s) \/ Fetch(s) \/ Mismatch(s)
    BY <2>2, <2>5, <2>9 DEF Discard, Fetch, Mismatch
  <2>10. CASE Place(s)
    BY <2>2, <2>5, <2>10 DEF Place, Trusted
  <2>11. CASE PinSha1(s) \/ HashSha256(s) \/ PinSha256(s)
    BY <2>2, <2>5, <2>11 DEF PinSha1, HashSha256, PinSha256, Trusted
  <2>12. CASE Missing(s) \/ CacheFault(s)
    BY <2>2, <2>5, <2>12 DEF Missing, CacheFault
  <2> QED
    BY <1>2, <2>6, <2>7, <2>8, <2>9, <2>10, <2>11, <2>12 DEF EnsureLauncher
<1> QED
  BY <1>1, <1>2

\* A session that sits still while another one takes a step of the cache.
LEMMA OthersSteps ==
  ASSUME IInv, NEW s \in Sessions, EnsureLauncher(s), UNCHANGED hostVars,
         NEW t \in Sessions \ {s}, alone'[t]
  PROVE  /\ Using(t)' => \A u \in Sessions \ {t} : ~Using(u)'
         /\ AloneAtWork(t)'
         /\ pc'[t] \in {"cached", "unpack"} => Settled' /\ launcher' \in {payload'[t], expected'[t]}
         /\ ran'[t] # None => ran'[t] \in {payload'[t], expected'[t]}
         /\ pc'[t] # "missing"
<1>1. /\ pc'[t] = pc[t] /\ payload'[t] = payload[t] /\ expected'[t] = expected[t]
      /\ alone[t] /\ (Using(t) => Using(s)) /\ ran' = ran
  BY CacheFrame DEF IInv, hostVars
<1>2. /\ Using(t) => ~Using(s)
      /\ pc[t] \in {"cached", "unpack"} => Settled /\ launcher \in {payload[t], expected[t]}
      /\ ran[t] # None => ran[t] \in {payload[t], expected[t]}
      /\ pc[t] # "missing"
  BY <1>1 DEF IInv, Alone
<1>3. pc'[t] \notin CachePcs \cup {"cached"}
  BY <1>1, <1>2 DEF Using
<1>4. ~Using(t)' /\ AloneAtWork(t)'
  BY <1>3 DEF Using, AloneAtWork, CachePcs
<1>5. CASE pc[t] = "unpack"
  <2>1. Settled' /\ launcher' = launcher
    BY <1>2, <1>5, SettledStays DEF IInv, filesVars
  <2> QED
    BY <1>1, <1>2, <1>4, <2>1
<1>6. CASE pc[t] # "unpack"
  BY <1>1, <1>2, <1>3, <1>4, <1>6
<1> QED
  BY <1>5, <1>6

\* A step of the cache, for everybody.
LEMMA AloneCacheStep ==
  ASSUME IInv, NEW s \in Sessions, EnsureLauncher(s), UNCHANGED hostVars
  PROVE  Alone'
<1>1. ran' = ran /\ ran[s] = None
  BY DEF IInv, Alone, hostVars, EnsureLauncher, Enter, Look, Note, ReadSha256, ReadSha1, Compare,
         Discard, Fetch, Place, Mismatch, PinSha1, HashSha256, PinSha256, Missing, CacheFault,
         CachePcs
<1>2. pc'[s] = "place" => payload'[s] # None
  BY CacheAssumption
     DEF IInv, Basics, TypeOK, CacheTypeOK, Goto, EnsureLauncher, Enter, Look, Note, ReadSha256,
         ReadSha1, Compare, Discard, Fetch, Place, Mismatch, PinSha1, HashSha256, PinSha256,
         Missing, CacheFault, None
<1>3. ASSUME NEW t \in Sessions \ {s}
      PROVE  /\ pc'[t] = "place" => payload'[t] # None
             /\ pc'[t] \in CachePcs \cup {"start", "cached", "unpack"} => ran'[t] = None
  <2>1. pc'[t] = pc[t] /\ payload'[t] = payload[t]
    BY <1>3, CacheFrame DEF IInv
  <2> QED
    BY <1>1, <2>1 DEF IInv, Alone
<1>4. ASSUME alone'[s]
      PROVE  /\ Using(s)' => \A u \in Sessions \ {s} : ~Using(u)'
             /\ AloneAtWork(s)'
             /\ pc'[s] \in {"cached", "unpack"} =>
                  Settled' /\ launcher' \in {payload'[s], expected'[s]}
             /\ ran'[s] # None => ran'[s] \in {payload'[s], expected'[s]}
             /\ pc'[s] # "missing"
  BY <1>1, <1>4, AloneSteps
<1>5. ASSUME NEW t \in Sessions \ {s}, alone'[t]
      PROVE  /\ Using(t)' => \A u \in Sessions \ {t} : ~Using(u)'
             /\ AloneAtWork(t)'
             /\ pc'[t] \in {"cached", "unpack"} =>
                  Settled' /\ launcher' \in {payload'[t], expected'[t]}
             /\ ran'[t] # None => ran'[t] \in {payload'[t], expected'[t]}
             /\ pc'[t] # "missing"
  BY <1>5, OthersSteps
<1> QED
  BY <1>1, <1>2, <1>3, <1>4, <1>5 DEF Alone

\* The other steps of a session leave the entry alone, and get on with what it got.
LEMMA AloneSessionStep ==
  ASSUME IInv, NEW s \in Sessions,
         Refuse(s) \/ ResolveFails(s) \/ MakeFakeWorkdir(s) \/ MakeWorkdir(s) \/ Unpack(s)
           \/ Abandon(s) \/ Launch(s) \/ Up(s) \/ Kill(s) \/ Quit(s) \/ RemoveWorkdir(s)
           \/ Crash(s)
  PROVE  Alone'
<1> USE DEF IInv, Basics, TypeOK, CacheTypeOK, filesVars, hostVars
<1>1. UNCHANGED <<published, filesVars, payload, expected, alone>>
  BY DEF Refuse, ResolveFails, MakeFakeWorkdir, MakeWorkdir, Unpack, Abandon, Launch, Up, Kill,
         Quit, RemoveWorkdir, Crash
<1>2. \E next \in (Ended \ {"missing"}) \cup {"seed", "unpack", "starting", "up", "kill", "clean",
                                            "remove", "leave"} :
        /\ pc' = [pc EXCEPT ![s] = next]
        /\ next = "unpack" => pc[s] = "cached"
  BY DEF Goto, Ended, Refuse, ResolveFails, MakeFakeWorkdir, MakeWorkdir, Unpack, Abandon, Launch,
         Up, Kill, Quit, RemoveWorkdir, Crash
<1>3. \/ ran' = ran
      \/ pc[s] = "unpack" /\ pc'[s] # "unpack" /\ ran' = [ran EXCEPT ![s] = launcher]
  BY DEF Goto, MayHaveRun, Ended, Refuse, ResolveFails, MakeFakeWorkdir, MakeWorkdir, Unpack,
         Abandon, Launch, Up, Kill, Quit, RemoveWorkdir, Crash
<1>4. PICK next \in (Ended \ {"missing"}) \cup {"seed", "unpack", "starting", "up", "kill", "clean",
                                            "remove", "leave"} :
        /\ pc' = [pc EXCEPT ![s] = next]
        /\ next = "unpack" => pc[s] = "cached"
  BY <1>2
<1>5. ASSUME NEW t \in Sessions
      PROVE  /\ t # s => pc'[t] = pc[t]
             /\ pc'[s] = next /\ pc'[s] \notin CachePcs \cup {"start", "cached", "missing"}
  BY <1>4 DEF Ended, CachePcs
<1>6. Settled => Settled'
  BY <1>1, <1>4, <1>5 DEF Settled, Trusted, Changing, CachePcs
<1>7. ASSUME NEW t \in Sessions PROVE Using(t)' => Using(t)
  BY <1>5 DEF Using
<1>8. ASSUME NEW t \in Sessions
      PROVE  /\ pc'[t] = "place" => payload'[t] # None
             /\ pc'[t] \in CachePcs \cup {"start", "cached", "unpack"} => ran'[t] = None
  BY <1>1, <1>3, <1>4, <1>5 DEF Alone, CachePcs
<1>9. ASSUME NEW t \in Sessions, alone'[t]
      PROVE  /\ Using(t)' => \A u \in Sessions \ {t} : ~Using(u)'
             /\ AloneAtWork(t)'
             /\ pc'[t] \in {"cached", "unpack"} =>
                  Settled' /\ launcher' \in {payload'[t], expected'[t]}
             /\ ran'[t] # None => ran'[t] \in {payload'[t], expected'[t]}
             /\ pc'[t] # "missing"
  <2>1. alone[t] /\ payload'[t] = payload[t] /\ expected'[t] = expected[t] /\ launcher' = launcher
    BY <1>1, <1>9
  <2>2. /\ Using(t) => \A u \in Sessions \ {t} : ~Using(u)
        /\ AloneAtWork(t)
        /\ pc[t] \in {"cached", "unpack"} => Settled /\ launcher \in {payload[t], expected[t]}
        /\ ran[t] # None => ran[t] \in {payload[t], expected[t]}
        /\ pc[t] # "missing"
    BY <2>1 DEF Alone
  <2>3. Using(t)' => \A u \in Sessions \ {t} : ~Using(u)'
    BY <1>7, <2>2
  <2>4. AloneAtWork(t)'
    <3>1. CASE t = s
      BY <1>5, <3>1 DEF AloneAtWork, CachePcs
    <3>2. CASE t # s
      BY <1>1, <1>5, <2>2, <3>2 DEF AloneAtWork, Trusted
    <3> QED
      BY <3>1, <3>2
  <2>5. pc'[t] \in {"cached", "unpack"} => pc[t] \in {"cached", "unpack"}
    BY <1>4, <1>5
  <2>6. ran'[t] # None => ran'[t] \in {payload[t], expected[t]}
    BY <1>3, <2>2
  <2>7. pc'[t] # "missing"
    BY <1>5, <2>2
  <2> QED
    BY <1>6, <2>1, <2>2, <2>3, <2>4, <2>5, <2>6, <2>7
<1> QED
  BY <1>8, <1>9 DEF Alone

LEMMA NextInv == IInv /\ [Next]_vars => IInv'
<1> SUFFICES ASSUME IInv, [Next]_vars PROVE IInv'
  OBVIOUS
<1>1. CASE UNCHANGED vars
  BY <1>1 DEF IInv, Basics, TypeOK, CacheTypeOK, Honoured, Accounted, Alone, AloneAtWork, Settled, InUse,
              Trusted, Using, vars, cacheVars, filesVars, hostVars, ghosts
<1>2. ASSUME NEW s \in Sessions, Obtain(s) PROVE IInv'
  BY <1>2, CacheStep, AloneCacheStep DEF Obtain, IInv
<1>3. ASSUME NEW s \in Sessions,
             Refuse(s) \/ ResolveFails(s) \/ MakeFakeWorkdir(s) \/ MakeWorkdir(s) \/ Unpack(s)
               \/ Abandon(s) \/ Launch(s) \/ Up(s) \/ Kill(s) \/ Quit(s) \/ RemoveWorkdir(s)
           \/ Crash(s)
      PROVE IInv'
  BY <1>3, SessionStep, AloneSessionStep DEF IInv
<1> QED
  BY <1>1, <1>2, <1>3 DEF Next, AllOver

\* The inductive invariant, for any number of sessions and contents (LauncherCache, Provisioning).
THEOREM ProvisioningInvariant == Spec => []IInv
<1> QED
  BY InitInv, NextInv, PTL DEF Spec

\* Every variable keeps its type (LauncherCache, Provisioning).
THEOREM TypesHold == Spec => []TypeOK
<1>1. IInv => TypeOK
  BY DEF IInv, Basics
<1> QED
  BY <1>1, ProvisioningInvariant, PTL

\* Whatever the cache held, whatever the server sent and whoever else uses the entry, only a
\* launcher with the published digest is run (ensure_launcher, download.py).
THEOREM PublishedIsHonoured == Spec => []RunsOnlyWhatIsPublished
<1>1. IInv => RunsOnlyWhatIsPublished
  BY DEF IInv, Basics, Honoured, RunsOnlyWhatIsPublished
<1> QED
  BY <1>1, ProvisioningInvariant, PTL

\* A session that ends, by returning or by raising, has tried to stop its NVDA and then to
\* remove its directory, on every path, and leaves at most what that did not get rid of
\* (provision, provision_fake, Provisioned.teardown, provisioning.py).
THEOREM NothingStays == Spec => []NothingLeftBehind
<1>1. IInv => NothingLeftBehind
  BY DEF IInv, Basics, Accounted, InUse, NothingLeftBehind, Ended
<1> QED
  BY <1>1, ProvisioningInvariant, PTL

\* With the entry to itself a session never loses the launcher it checked, pinned or placed
\* (ensure_launcher, download.py).
THEOREM AloneFinds == Spec => []AloneFindsTheLauncher
<1>1. IInv => AloneFindsTheLauncher
  BY DEF IInv, Alone, Settled, Trusted, AloneFindsTheLauncher
<1> QED
  BY <1>1, ProvisioningInvariant, PTL

\* ... leaves an entry the next one trusts, whatever interrupted the sessions before it
\* (_cached_is_trusted, download.py).
THEOREM AloneTrusted == Spec => []AloneLeavesTrusted
<1>1. IInv => AloneLeavesTrusted
  BY DEF IInv, Alone, Settled, AloneLeavesTrusted
<1> QED
  BY <1>1, ProvisioningInvariant, PTL

\* ... and runs what it downloaded or what a digest vouched for, also if other sessions came to
\* the entry in the meantime (create_portable, portable.py).
THEOREM AloneRuns == Spec => []AloneRunsWhatItTrusts
<1>1. IInv => AloneRunsWhatItTrusts
  BY DEF IInv, Alone, AloneRunsWhatItTrusts
<1> QED
  BY <1>1, ProvisioningInvariant, PTL

================================================================================
