---------------------------- MODULE LauncherCache -----------------------------
(***************************************************************************)
(* The launcher cache of download.py: one entry of the cache directory,    *)
(* shared by every session of the machine.                                 *)
(*                                                                         *)
(* An entry is three files: the launcher and, when nvaccess publishes no   *)
(* digest for it, two notes with the digests of the first download.        *)
(* ensure_launcher has a step for every access to one of them: sessions    *)
(* take no lock, and each may be killed between any two steps.  A file is  *)
(* its content, told apart by its digest; a session's partial file is its  *)
(* own until os.replace, and is the payload here.                          *)
(***************************************************************************)
EXTENDS FiniteSets

CONSTANTS
  Sessions,   \* processes that call ensure_launcher, once each
  Contents    \* what the server may send, and an entry may hold

None  == "none"    \* no such file, no digest, no payload
Empty == "empty"   \* a note opened for writing: truncated, not written yet

ASSUME CacheAssumption == {None, Empty} \cap Contents = {}

VARIABLES
  published,      \* LauncherInfo.sha1 of this entry; None for alpha and pinned versions
  launcher,       \* the cached launcher
  sha1, sha256,   \* the notes beside it
  pc,             \* where each session is
  payload,        \* what it downloaded
  expected,       \* the digest it checks the launcher against, or is about to note
  alone           \* ghost: nobody else used the entry while it did

filesVars == <<launcher, sha1, sha256>>
cacheVars == <<published, filesVars, pc, payload, expected, alone>>

CachePcs == {"look", "read256", "read1", "compare", "discard", "discard1", "discard256", "fetch",
             "place", "open1", "write1", "hash256", "open256", "write256"}

\* A session uses the entry from its first look until it does something with what it got.
Using(s) == pc[s] \in CachePcs \cup {"cached"}

\* An entry may be absent, whole, of an earlier interrupted session, or restored by CI from
\* somewhere else.
CacheInit ==
  /\ published \in Contents \cup {None}
  /\ launcher \in Contents \cup {None}
  /\ sha1 \in Contents \cup {None, Empty} /\ sha256 \in Contents \cup {None, Empty}
  /\ pc = [s \in Sessions |-> "start"]
  /\ payload = [s \in Sessions |-> None] /\ expected = [s \in Sessions |-> None]
  /\ alone = [s \in Sessions |-> FALSE]

Goto(s, next) == pc' = [pc EXCEPT ![s] = next]

\* The caller resolved the launcher and calls ensure_launcher.
Enter(s) ==
  /\ pc[s] = "start" /\ Goto(s, "look")
  /\ alone' = [t \in Sessions |-> IF t = s THEN \A u \in Sessions \ {s} : ~Using(u)
                                  ELSE alone[t] /\ ~Using(t)]
  /\ UNCHANGED <<published, filesVars, payload, expected>>

\* Mutant of Look: what is in the cache is taken as it is.
LookWithoutChecking(s) ==
  /\ pc[s] = "look" /\ Goto(s, IF launcher = None THEN "fetch" ELSE "cached")
  /\ UNCHANGED <<published, filesVars, payload, expected, alone>>

\* Mutant of Look: a note stands for the launcher.
LookForNote(s) ==
  /\ pc[s] = "look"
  /\ Goto(s, IF launcher = None /\ sha256 = None THEN "fetch"
             ELSE IF published # None THEN "compare" ELSE "read256")
  /\ expected' = [expected EXCEPT ![s] = published]
  /\ UNCHANGED <<published, filesVars, payload, alone>>

\* target.exists(), and which digest _cached_is_trusted goes by.
Look(s) ==
  /\ pc[s] = "look"
  /\ Goto(s, IF launcher = None THEN "fetch" ELSE IF published # None THEN "compare" ELSE "read256")
  /\ expected' = [expected EXCEPT ![s] = published]
  /\ UNCHANGED <<published, filesVars, payload, alone>>

\* Mutant of Note: an empty note is a digest.
NoteAsItIs(s, note, otherwise) ==
  /\ expected' = [expected EXCEPT ![s] = note]
  /\ Goto(s, IF note # None THEN "compare" ELSE otherwise)
  /\ UNCHANGED <<published, filesVars, payload, alone>>

\* _read_note: a note that is missing or empty counts for nothing.
Note(s, note, otherwise) ==
  /\ expected' = [expected EXCEPT ![s] = IF note \in Contents THEN note ELSE None]
  /\ Goto(s, IF note \in Contents THEN "compare" ELSE otherwise)
  /\ UNCHANGED <<published, filesVars, payload, alone>>

ReadSha256(s) == pc[s] = "read256" /\ Note(s, sha256, "read1")

\* Mutant of ReadSha1: a launcher without notes is trusted.
ReadSha1OrTrust(s) == pc[s] = "read1" /\ Note(s, sha1, "cached")

ReadSha1(s) == pc[s] = "read1" /\ Note(s, sha1, "discard")

Compare(s) ==
  /\ pc[s] = "compare" /\ launcher # None
  /\ Goto(s, IF launcher = expected[s] THEN "cached" ELSE "discard")
  /\ UNCHANGED <<published, filesVars, payload, expected, alone>>

\* _discard: the launcher, then its notes.
Discard(s) ==
  /\ \/ pc[s] = "discard" /\ launcher' = None /\ Goto(s, "discard1") /\ UNCHANGED <<sha1, sha256>>
     \/ pc[s] = "discard1" /\ sha1' = None /\ Goto(s, "discard256") /\ UNCHANGED <<launcher, sha256>>
     \/ pc[s] = "discard256" /\ sha256' = None /\ Goto(s, "fetch") /\ UNCHANGED <<launcher, sha1>>
  /\ UNCHANGED <<published, payload, expected, alone>>

\* fetch: whatever the server sends for that URL today.
Fetch(s) ==
  /\ pc[s] = "fetch" /\ Goto(s, "place")
  /\ \E c \in Contents : payload' = [payload EXCEPT ![s] = c]
  /\ UNCHANGED <<published, filesVars, expected, alone>>

\* Mutant of Place: the download is moved into place before its digest is checked.
PlaceUnchecked(s) ==
  /\ pc[s] = "place" /\ launcher' = payload[s]
  /\ Goto(s, IF published = None THEN "open1" ELSE "cached")
  /\ UNCHANGED <<published, sha1, sha256, payload, expected, alone>>

\* The partial file has the digest it should have, if any: os.replace.
Place(s) ==
  /\ pc[s] = "place" /\ published \in {None, payload[s]}
  /\ launcher' = payload[s]
  /\ Goto(s, IF published = None THEN "open1" ELSE "cached")
  /\ UNCHANGED <<published, sha1, sha256, payload, expected, alone>>

\* HashMismatchError: the partial file is removed.
Mismatch(s) ==
  /\ pc[s] = "place" /\ published \notin {None, payload[s]} /\ Goto(s, "failed")
  /\ UNCHANGED <<published, filesVars, payload, expected, alone>>

\* write_text of the first note: the digest of the payload.
PinSha1(s) ==
  /\ \/ pc[s] = "open1" /\ sha1' = Empty /\ Goto(s, "write1")
     \/ pc[s] = "write1" /\ sha1' = payload[s] /\ Goto(s, "hash256")
  /\ UNCHANGED <<published, launcher, sha256, payload, expected, alone>>

\* sha256_file(target): of the file in the cache, whoever placed it.
HashSha256(s) ==
  /\ pc[s] = "hash256" /\ launcher # None
  /\ expected' = [expected EXCEPT ![s] = launcher]
  /\ Goto(s, "open256")
  /\ UNCHANGED <<published, filesVars, payload, alone>>

PinSha256(s) ==
  /\ \/ pc[s] = "open256" /\ sha256' = Empty /\ Goto(s, "write256")
     \/ pc[s] = "write256" /\ sha256' = expected[s] /\ Goto(s, "cached")
  /\ UNCHANGED <<published, launcher, sha1, payload, expected, alone>>

\* FileNotFoundError: the launcher was there, and is gone.
Missing(s) ==
  /\ pc[s] \in {"compare", "hash256"} /\ launcher = None /\ Goto(s, "missing")
  /\ UNCHANGED <<published, filesVars, payload, expected, alone>>

\* Any file access or the download raises: disk full, file in use, no network.
CacheFault(s) ==
  /\ pc[s] \in CachePcs /\ Goto(s, "failed")
  /\ UNCHANGED <<published, filesVars, payload, expected, alone>>

EnsureLauncher(s) ==
  \/ Enter(s) \/ Look(s) \/ ReadSha256(s) \/ ReadSha1(s) \/ Compare(s) \/ Discard(s)
  \/ Fetch(s) \/ Place(s) \/ Mismatch(s) \/ PinSha1(s) \/ HashSha256(s) \/ PinSha256(s)
  \/ Missing(s) \/ CacheFault(s)

\* _cached_is_trusted, of the files as they are.
Trusted ==
  /\ launcher # None
  /\ launcher = IF published # None THEN published
                ELSE IF sha256 \in Contents THEN sha256 ELSE sha1

CacheTypeOK ==
  /\ published \in Contents \cup {None} /\ launcher \in Contents \cup {None}
  /\ sha1 \in Contents \cup {None, Empty} /\ sha256 \in Contents \cup {None, Empty}
  /\ payload \in [Sessions -> Contents \cup {None}]
  /\ expected \in [Sessions -> Contents \cup {None}]
  /\ alone \in [Sessions -> BOOLEAN]
===============================================================================
