--------------------------- MODULE TestSessionProofs ---------------------------
(***************************************************************************)
(* What a session of any number of tests keeps up: each begins with a      *)
(* clean NVDA, and what it leaves is reported and undone.                  *)
(*                                                                         *)
(* The argument goes along the calls the host has still to make (Shape):   *)
(* what the tests rely on is what the last call of a fixture saw, and a    *)
(* call that waits for the main thread is answered only when no job of     *)
(* anybody else is left.                                                   *)
(***************************************************************************)
EXTENDS TestSession, SequenceTheorems, TLAPS

\* The calls of the host, and the jobs a call may leave in NVDA.
PlainCalls == {"press", "relaunch", "opened", "entered", "raise", "clear", "restore", "remember",
               "queue", "take", "look", "idle", "logcheck"}
AddonCalls == {"install", "remove", "enabled", "gone", "undo"}

Calls == (PlainCalls \X {0}) \cup (AddonCalls \X Addons) \cup ({"assign"} \X Sections)

QueuedJobs == ({"restore", "press"} \X {0}) \cup ({"install", "remove"} \X Addons)
                \cup ({"assign"} \X Sections) \cup ({"scenario"} \X Nat)

\* What undo_all fails at, it raises one of.
Told == failures # {} => /\ phase \in {"undo", "reset", "idle"}
                         /\ \E p \in problems : p[1] = "undo" /\ p[2] \in failures

FlowTyped ==
  /\ phase \in Phases /\ (\A p \in problems : p[1] \in Phases)
  /\ shared \in {"unset", "ready", "failed"}
  /\ open \in BOOLEAN /\ block \in BOOLEAN /\ unwinding \in BOOLEAN
  /\ left \in [open : BOOLEAN, errors : BOOLEAN]
  /\ failures \subseteq Addons \cup {0} /\ Told

RestTyped ==
  /\ tests \in 0 .. MaxTests /\ steps \in 0 .. MaxSteps
  /\ uses \in BOOLEAN /\ paired \in BOOLEAN
  /\ installed \in Seq(Addons) /\ recorded \subseteq Addons /\ touched \subseteq Addons
  /\ last \in Nat /\ initial \in {Unset, Main} \cup Nat

Typed ==
  /\ NvdaTypeOK /\ queue \in Seq(QueuedJobs)
  /\ FlowTyped /\ todo \in Seq(Calls)
  /\ RestTyped /\ faults \in 0 .. MaxFaults

Has(call) == \E i \in DOMAIN todo : todo[i] = call

\* The lists of calls the fixtures and the stages make, from where the host is in them.
RestoreOnly      == <<Do("restore")>>
RestoreThenRaise == <<Do("restore"), Do("raise")>>
RaiseOnly        == <<Do("raise")>>
FreshReset       == <<Do("relaunch"), Do("clear"), Do("restore")>>
CheckOnly        == <<Do("logcheck")>>
LookIdleRaise    == <<Do("look"), Do("idle"), Do("raise")>>
IdleRaise        == <<Do("idle"), Do("raise")>>
RelaunchRaise    == <<Do("relaunch"), Do("raise")>>
InstallRelaunch  == <<<<"install", Bundle>>, Do("relaunch")>>
RelaunchOnly     == <<Do("relaunch")>>

Resetting   == {<<>>, Reset, RestoreOnly, RestoreThenRaise, RaiseOnly}
LeavingOver == {<<>>, Leftover, LookIdleRaise, IdleRaise, RaiseOnly, RelaunchRaise}

BodyCalls == {"press", "relaunch", "opened", "entered", "raise", "remember", "queue", "take", "look",
              "install", "remove", "enabled", "gone", "assign"}

Shape ==
  /\ phase = "idle" => todo = <<>>
  /\ phase = "shared" => todo \in {InstallRelaunch, RelaunchOnly, <<>>}
  /\ phase = "setup" => todo \in Resetting \cup {FreshReset}
  /\ phase = "reset" => todo \in Resetting
  /\ phase = "log" => todo \in {<<>>, CheckOnly}
  /\ phase = "leftover" => todo \in LeavingOver
  /\ phase = "undo" => \A i \in DOMAIN todo : todo[i][1] \in {"undo", "remove", "relaunch"}
  /\ phase = "body" => \A i \in DOMAIN todo : todo[i][1] \in BodyCalls

\* A dialog is looked for after its baseline was taken; a scenario is queued once, after the
\* foreground window was remembered.
Ordered(calls) ==
  /\ \A i \in DOMAIN calls : calls[i] = Do("look") => i = 1 \/ calls[i - 1] = Do("take")
  /\ \A i \in DOMAIN calls : calls[i] = Do("remember") =>
       i + 1 \in DOMAIN calls /\ calls[i + 1] = Do("queue")
  /\ \A i, j \in DOMAIN calls : calls[i] = Do("queue") /\ calls[j] = Do("queue") => i = j

Looking == /\ Ordered(todo)
           /\ todo # <<>> /\ todo[1] = Do("look") => initial # Unset

\* Nothing a test did is left but sections that are empty now.
Clean ==
  /\ \A s \in Sections : conf[s] \in IF s \in Known THEN {"base"} ELSE {"absent", "empty"}
  /\ modal = NoDialog /\ queue = <<>>

Beginning ==
  /\ phase \in {"shared", "setup"} =>
       ~open /\ ~block /\ ~unwinding /\ steps = 0 /\ ~left.open /\ ~left.errors
  /\ phase = "shared" => recorded = {}
  /\ phase = "setup" /\ todo = <<>> => Clean
  /\ phase = "body" /\ steps = 0 => todo = <<>> /\ ~block /\ ~unwinding /\ ~open /\ Clean

\* No dialog is up, and none is to come.
Quiet == modal = NoDialog /\ \A i \in DOMAIN queue : queue[i][1] # "scenario"

Reported == Problem("leftover") \in problems /\ ~open /\ Quiet

LeftOver ==
  /\ phase = "log" => left.open = open
  /\ phase = "leftover" /\ left.open =>
       /\ todo = <<>> => Reported
       /\ todo = RaiseOnly => modal = NoDialog /\ queue = <<>>
  /\ phase \in {"undo", "reset"} /\ left.open => Reported

\* What becomes of an add-on the test installed.
Excused(a) == failures \cap {a, 0} # {}

NoInstall == \A i \in DOMAIN queue : queue[i][1] # "install"

Undoing(a) ==
  \/ Excused(a)
  \/ Has(<<"undo", a>>) \/ Has(<<"remove", a>>)
  \/ NoInstall /\ addons[a] = "NOT_INSTALLED"
  \/ NoInstall /\ addons[a] = "PENDING_REMOVE" /\ Has(Do("relaunch"))

Undone ==
  /\ \A a \in recorded : \E i \in DOMAIN installed : installed[i] = a
  /\ \A i \in DOMAIN installed : installed[i] \in recorded
  /\ phase = "undo" => \A a \in recorded : Undoing(a)
  /\ phase = "reset" => \A a \in recorded :
                          Excused(a) \/ (NoInstall /\ addons[a] = "NOT_INSTALLED")

\* Only addon_under_test has to do with its add-on.
Good == {"ENABLED", "DISABLED"}

Sharing ==
  /\ uses /\ phase \in {"setup", "body"} => shared = "ready"
  /\ phase = "shared" => shared = "unset"
  /\ Bundle \notin touched =>
       /\ Bundle \notin recorded
       /\ phase # "shared" =>
            \A k \in {"install", "remove", "undo"} : ~Has(<<k, Bundle>>)
       /\ shared # "failed" =>
            \A i \in DOMAIN queue : queue[i] \notin {<<"install", Bundle>>, <<"remove", Bundle>>}
       /\ shared = "ready" => addons[Bundle] \in Good
       /\ phase = "shared" /\ todo = RelaunchOnly => addons[Bundle] = "PENDING_INSTALL"
       /\ phase = "shared" /\ todo = <<>> => addons[Bundle] \in Good

\* Scenarios are numbered; one that is about to be queued has a number nobody has seen.
Dialogs ==
  /\ fg <= last /\ baseline <= last
  /\ \A i \in DOMAIN queue : queue[i][1] = "scenario" => queue[i][2] <= last
  /\ Has(Do("queue")) =>
       /\ fg < last /\ last # NoDialog
       /\ \A i \in DOMAIN queue : queue[i][1] = "scenario" => queue[i][2] < last
  /\ last # NoDialog => baseline # last
  /\ paired => initial <= last /\ (last # NoDialog => initial # last)

Erring ==
  /\ phase = "log" /\ left.errors /\ FailOnLogErrors =>
       \/ Problem("log") \in problems
       \/ todo = CheckOnly /\ (errors \/ ~up)
  /\ phase \in {"leftover", "undo", "reset"} /\ left.errors /\ FailOnLogErrors =>
       Problem("log") \in problems

IInv == /\ Typed /\ Shape /\ Looking /\ Beginning /\ LeftOver /\ Undone /\ Sharing /\ Dialogs /\ Erring

-------------------------------------------------------------------------------
(* Sequences.                                                                  *)

\* What is left of a sequence after its first element.
LEMMA TailOf ==
  ASSUME NEW S, NEW t \in Seq(S), t # <<>>
  PROVE  /\ Tail(t) \in Seq(S) /\ DOMAIN Tail(t) = 1 .. Len(t) - 1
         /\ Len(t) \in Nat \ {0} /\ DOMAIN t = 1 .. Len(t)
         /\ Head(t) = t[1] /\ Head(t) \in S /\ 1 \in DOMAIN t
         /\ \A i \in DOMAIN Tail(t) : i + 1 \in DOMAIN t /\ Tail(t)[i] = t[i + 1] /\ Tail(t)[i] \in S
  OBVIOUS

\* Every other element is in the tail.
LEMMA InTail ==
  ASSUME NEW S, NEW t \in Seq(S), NEW i \in DOMAIN t, t[i] # Head(t)
  PROVE  \E j \in DOMAIN Tail(t) : Tail(t)[j] = t[i]
<1>1. t # <<>> /\ i \in 1 .. Len(t) /\ Len(t) \in Nat /\ i # 1
  OBVIOUS
<1>2. i - 1 \in DOMAIN Tail(t) /\ Tail(t)[i - 1] = t[i]
  BY <1>1, TailOf
<1> QED
  BY <1>2

\* A sequence and one more element.
LEMMA AppendOf ==
  ASSUME NEW S, NEW t \in Seq(S), NEW e \in S
  PROVE  /\ Append(t, e) \in Seq(S) /\ DOMAIN Append(t, e) = 1 .. Len(t) + 1
         /\ Len(t) \in Nat /\ DOMAIN t = 1 .. Len(t)
         /\ Append(t, e)[Len(t) + 1] = e
         /\ \A i \in DOMAIN t : i \in DOMAIN Append(t, e) /\ Append(t, e)[i] = t[i]
         /\ \A i \in DOMAIN Append(t, e) : Append(t, e)[i] = e \/ (i \in DOMAIN t /\ Append(t, e)[i] = t[i])
  BY AppendProperties

\* Finally has the calls it had, and the one that was to come.
LEMMA FinallyOf ==
  ASSUME NEW S, NEW t \in Seq(S), NEW c \in S
  PROVE  /\ Finally(t, c) \in Seq(S)
         /\ \E i \in DOMAIN Finally(t, c) : Finally(t, c)[i] = c
         /\ \A i \in DOMAIN t : i \in DOMAIN Finally(t, c) /\ Finally(t, c)[i] = t[i]
         /\ \A i \in DOMAIN Finally(t, c) :
              Finally(t, c)[i] = c \/ (i \in DOMAIN t /\ Finally(t, c)[i] = t[i])
<1>1. CASE \E i \in DOMAIN t : t[i] = c
  BY <1>1 DEF Finally
<1>2. CASE ~ \E i \in DOMAIN t : t[i] = c
  <2>1. Finally(t, c) = Append(t, c)
    BY <1>2 DEF Finally
  <2>2. Len(t) + 1 \in DOMAIN Append(t, c)
    BY AppendOf
  <2> QED
    BY <2>1, <2>2, AppendOf
<1> QED
  BY <1>1, <1>2

\* One call, before or after others.
LEMMA JoinOf ==
  ASSUME NEW S, NEW c \in S, NEW t \in Seq(S)
  PROVE  /\ <<c>> \o t \in Seq(S) /\ DOMAIN (<<c>> \o t) = 1 .. Len(t) + 1
         /\ Len(t) \in Nat /\ DOMAIN t = 1 .. Len(t)
         /\ (<<c>> \o t)[1] = c
         /\ \A i \in DOMAIN t : i + 1 \in DOMAIN (<<c>> \o t) /\ (<<c>> \o t)[i + 1] = t[i]
         /\ \A i \in DOMAIN (<<c>> \o t) : i = 1 \/ (i - 1 \in DOMAIN t /\ (<<c>> \o t)[i] = t[i - 1])
<1>1. <<c>> \in Seq(S) /\ Len(<<c>>) = 1 /\ <<c>>[1] = c
  OBVIOUS
<1>2. /\ <<c>> \o t \in Seq(S) /\ Len(<<c>> \o t) = 1 + Len(t)
      /\ \A i \in 1 .. 1 + Len(t) : (<<c>> \o t)[i] = IF i <= 1 THEN <<c>>[i] ELSE t[i - 1]
  BY <1>1, ConcatProperties
<1>3. Len(t) \in Nat /\ DOMAIN t = 1 .. Len(t)
  OBVIOUS
<1> QED
  BY <1>1, <1>2, <1>3

\* Lists of calls the steps of a test are written with.
LEMMA AndOneMore ==
  ASSUME NEW a, NEW b, NEW c
  PROVE  <<a, b>> \o <<c>> = <<a, b, c>>
<1> DEFINE S == {a, b, c}
<1>1. <<a, b>> \in Seq(S) /\ <<c>> \in Seq(S) /\ <<a, b, c>> \in Seq(S)
  OBVIOUS
<1>2. Len(<<a, b>> \o <<c>>) = 3 /\ <<a, b>> \o <<c>> \in Seq(S)
  BY <1>1, ConcatProperties
<1>3. \A i \in 1 .. 3 : (<<a, b>> \o <<c>>)[i] = <<a, b, c>>[i]
  BY <1>1, ConcatProperties
<1> QED
  BY <1>1, <1>2, <1>3, SeqEqual

LEMMA FirstTwo ==
  ASSUME NEW a, NEW b, NEW c
  PROVE  SubSeq(<<a, b, c>>, 1, 2) = <<a, b>>
<1> DEFINE S == {a, b, c}
<1>1. <<a, b>> \in Seq(S) /\ <<a, b, c>> \in Seq(S)
  OBVIOUS
<1>2. /\ SubSeq(<<a, b, c>>, 1, 2) \in Seq(S) /\ Len(SubSeq(<<a, b, c>>, 1, 2)) = 2
      /\ \A i \in 1 .. 2 : SubSeq(<<a, b, c>>, 1, 2)[i] = <<a, b, c>>[i]
  BY <1>1, SubSeqProperties
<1>3. Len(<<a, b>>) = 2 /\ \A i \in 1 .. 2 : SubSeq(<<a, b, c>>, 1, 2)[i] = <<a, b>>[i]
  BY <1>2
<1> HIDE DEF S
<1> QED
  BY <1>1, <1>2, <1>3, SeqEqual

\* A call without a subject is told by its kind.
LEMMA DoOf == \A k : Do(k)[1] = k /\ Do(k)[2] = 0 /\ (k \in PlainCalls => Do(k) \in Calls)
  BY DEF Do, Calls

\* The calls of the fixtures and the stages, one after the other.
LEMMA Lists ==
  /\ Head(Reset) = Do("clear") /\ Tail(Reset) = RestoreOnly /\ Reset # <<>>
  /\ Head(RestoreOnly) = Do("restore") /\ Tail(RestoreOnly) = <<>> /\ RestoreOnly # <<>>
  /\ Head(RestoreThenRaise) = Do("restore") /\ Tail(RestoreThenRaise) = RaiseOnly
  /\ RestoreThenRaise # <<>>
  /\ Head(RaiseOnly) = Do("raise") /\ Tail(RaiseOnly) = <<>> /\ RaiseOnly # <<>>
  /\ Head(FreshReset) = Do("relaunch") /\ Tail(FreshReset) = Reset /\ FreshReset # <<>>
  /\ Head(CheckOnly) = Do("logcheck") /\ Tail(CheckOnly) = <<>> /\ CheckOnly # <<>>
  /\ Head(Leftover) = Do("take") /\ Tail(Leftover) = LookIdleRaise /\ Leftover # <<>>
  /\ Head(LookIdleRaise) = Do("look") /\ Tail(LookIdleRaise) = IdleRaise /\ LookIdleRaise # <<>>
  /\ Head(IdleRaise) = Do("idle") /\ Tail(IdleRaise) = RaiseOnly /\ IdleRaise # <<>>
  /\ Head(RelaunchRaise) = Do("relaunch") /\ Tail(RelaunchRaise) = RaiseOnly /\ RelaunchRaise # <<>>
  /\ Head(InstallRelaunch) = <<"install", Bundle>> /\ Tail(InstallRelaunch) = RelaunchOnly
  /\ InstallRelaunch # <<>>
  /\ Head(RelaunchOnly) = Do("relaunch") /\ Tail(RelaunchOnly) = <<>> /\ RelaunchOnly # <<>>
  BY DEF Reset, RestoreOnly, RestoreThenRaise, RaiseOnly, FreshReset, CheckOnly, Leftover,
         LookIdleRaise, IdleRaise, RelaunchRaise, InstallRelaunch, RelaunchOnly

\* They are written in these ways.
LEMMA Written ==
  /\ <<Do("relaunch")>> \o Reset = FreshReset
  /\ SubSeq(Adding(Bundle), 1, 2) = InstallRelaunch
  /\ <<Do("relaunch"), Do("raise")>> = RelaunchRaise
  /\ <<Do("logcheck")>> = CheckOnly
  /\ \A c : Nowait \o <<c>> = <<Do("remember"), Do("queue"), c>>
<1>1. <<Do("relaunch")>> \o Reset = FreshReset
  <2> DEFINE S == {Do("relaunch"), Do("clear"), Do("restore")}
  <2>1. <<Do("relaunch")>> \in Seq(S) /\ Reset \in Seq(S) /\ FreshReset \in Seq(S)
    BY DEF Reset, FreshReset
  <2>2. Len(<<Do("relaunch")>> \o Reset) = 3 /\ <<Do("relaunch")>> \o Reset \in Seq(S)
    BY <2>1, ConcatProperties DEF Reset
  <2>3. \A i \in 1 .. 3 : (<<Do("relaunch")>> \o Reset)[i] = FreshReset[i]
    BY <2>1, ConcatProperties DEF Reset, FreshReset
  <2>4. Len(FreshReset) = 3
    BY DEF FreshReset
  <2> QED
    BY <2>1, <2>2, <2>3, <2>4, SeqEqual
<1>2. SubSeq(Adding(Bundle), 1, 2) = InstallRelaunch
  BY FirstTwo DEF Adding, InstallRelaunch
<1>3. \A c : Nowait \o <<c>> = <<Do("remember"), Do("queue"), c>>
  BY AndOneMore DEF Nowait
<1> QED
  BY <1>1, <1>2, <1>3 DEF RelaunchRaise, CheckOnly

-------------------------------------------------------------------------------
(* Where the host goes.                                                        *)

\* Every fixture and stage goes on with what is left of its calls.
LEMMA TailKeepsShape ==
  ASSUME Typed, Shape, Ordered(todo), todo # <<>>
  PROVE  /\ phase = "shared" => Tail(todo) \in {RelaunchOnly, <<>>}
         /\ phase \in {"setup", "reset"} => Tail(todo) \in Resetting
         /\ phase = "log" => Tail(todo) = <<>>
         /\ phase = "leftover" => Tail(todo) \in LeavingOver
         /\ Ordered(Tail(todo))
         /\ Tail(todo) # <<>> /\ Tail(todo)[1] = Do("look") => Head(todo) = Do("take")
<1>1. phase = "shared" => Tail(todo) \in {RelaunchOnly, <<>>}
  BY Lists DEF Shape
<1>2. phase \in {"setup", "reset"} => Tail(todo) \in Resetting
  BY Lists DEF Shape, Resetting
<1>3. phase = "log" => Tail(todo) = <<>>
  BY Lists DEF Shape
<1>4. phase = "leftover" => Tail(todo) \in LeavingOver
  BY Lists DEF Shape, LeavingOver
<1>5. /\ DOMAIN Tail(todo) = 1 .. Len(todo) - 1 /\ Len(todo) \in Nat \ {0} /\ DOMAIN todo = 1 .. Len(todo)
      /\ \A i \in DOMAIN Tail(todo) : i + 1 \in DOMAIN todo /\ Tail(todo)[i] = todo[i + 1]
      /\ Head(todo) = todo[1] /\ Tail(todo) \in Seq(Calls)
  BY TailOf DEF Typed
<1>6. Ordered(Tail(todo))
  <2>1. ASSUME NEW i \in DOMAIN Tail(todo), Tail(todo)[i] = Do("look")
        PROVE  i = 1 \/ Tail(todo)[i - 1] = Do("take")
    BY <1>5, <2>1 DEF Ordered
  <2>2. ASSUME NEW i \in DOMAIN Tail(todo), Tail(todo)[i] = Do("remember")
        PROVE  i + 1 \in DOMAIN Tail(todo) /\ Tail(todo)[i + 1] = Do("queue")
    <3>1. (i + 1) + 1 \in DOMAIN todo /\ todo[(i + 1) + 1] = Do("queue")
      BY <1>5, <2>2 DEF Ordered
    <3> QED
      BY <1>5, <3>1
  <2>3. ASSUME NEW i \in DOMAIN Tail(todo), NEW j \in DOMAIN Tail(todo),
               Tail(todo)[i] = Do("queue"), Tail(todo)[j] = Do("queue")
        PROVE  i = j
    <3>1. i + 1 = j + 1
      BY <1>5, <2>3 DEF Ordered
    <3> QED
      BY <1>5, <3>1
  <2> QED
    BY <2>1, <2>2, <2>3 DEF Ordered
<1>7. ASSUME Tail(todo) # <<>>, Tail(todo)[1] = Do("look")
      PROVE  Head(todo) = Do("take")
  <2>1. 1 \in DOMAIN Tail(todo)
    BY <1>5, <1>7
  <2>2. 2 \in DOMAIN todo /\ todo[2] = Do("look")
    BY <1>5, <1>7, <2>1
  <2> QED
    BY <1>5, <2>2 DEF Ordered
<1> QED
  BY <1>1, <1>2, <1>3, <1>4, <1>6, <1>7


\* The call the host is at tells where it is.
LEMMA HeadOf ==
  ASSUME Typed, Shape, todo # <<>>
  PROVE  /\ phase \in Phases \ {"idle"} /\ Head(todo) \in Calls /\ Head(todo) = todo[1]
         /\ phase = "shared" =>
              \/ todo = InstallRelaunch /\ Head(todo) = <<"install", Bundle>>
              \/ todo = RelaunchOnly /\ Head(todo) = Do("relaunch")
         /\ phase \in {"setup", "reset"} =>
              \/ todo = Reset /\ Head(todo) = Do("clear")
              \/ todo \in {RestoreOnly, RestoreThenRaise} /\ Head(todo) = Do("restore")
              \/ todo = RaiseOnly /\ Head(todo) = Do("raise")
              \/ phase = "setup" /\ todo = FreshReset /\ Head(todo) = Do("relaunch")
         /\ phase = "log" => todo = CheckOnly /\ Head(todo) = Do("logcheck")
         /\ phase = "leftover" =>
              \/ todo = Leftover /\ Head(todo) = Do("take")
              \/ todo = LookIdleRaise /\ Head(todo) = Do("look")
              \/ todo = IdleRaise /\ Head(todo) = Do("idle")
              \/ todo = RaiseOnly /\ Head(todo) = Do("raise")
              \/ todo = RelaunchRaise /\ Head(todo) = Do("relaunch")
         /\ phase = "undo" => Head(todo)[1] \in {"undo", "remove", "relaunch"}
         /\ phase = "body" => Head(todo)[1] \in BodyCalls
<1>1. Head(todo) \in Calls /\ Head(todo) = todo[1] /\ 1 \in DOMAIN todo
  BY TailOf DEF Typed
<1>2. phase \in Phases \ {"idle"}
  BY DEF Typed, FlowTyped, RestTyped, Shape
<1>3. phase = "shared" =>
        \/ todo = InstallRelaunch /\ Head(todo) = <<"install", Bundle>>
        \/ todo = RelaunchOnly /\ Head(todo) = Do("relaunch")
  BY Lists DEF Shape
<1>4. phase \in {"setup", "reset"} =>
        \/ todo = Reset /\ Head(todo) = Do("clear")
        \/ todo \in {RestoreOnly, RestoreThenRaise} /\ Head(todo) = Do("restore")
        \/ todo = RaiseOnly /\ Head(todo) = Do("raise")
        \/ phase = "setup" /\ todo = FreshReset /\ Head(todo) = Do("relaunch")
  BY Lists DEF Shape, Resetting
<1>5. phase = "log" => todo = CheckOnly /\ Head(todo) = Do("logcheck")
  BY Lists DEF Shape
<1>6. phase = "leftover" =>
        \/ todo = Leftover /\ Head(todo) = Do("take")
        \/ todo = LookIdleRaise /\ Head(todo) = Do("look")
        \/ todo = IdleRaise /\ Head(todo) = Do("idle")
        \/ todo = RaiseOnly /\ Head(todo) = Do("raise")
        \/ todo = RelaunchRaise /\ Head(todo) = Do("relaunch")
  BY Lists DEF Shape, LeavingOver
<1>7. phase = "undo" => Head(todo)[1] \in {"undo", "remove", "relaunch"}
  BY <1>1 DEF Shape
<1>8. phase = "body" => Head(todo)[1] \in BodyCalls
  BY <1>1 DEF Shape
<1> QED
  BY <1>1, <1>2, <1>3, <1>4, <1>5, <1>6, <1>7, <1>8

LEMMA KindTells ==
  ASSUME Typed, Shape, todo # <<>>
  PROVE  LET k == Head(todo)[1] IN
         /\ k = "undo" => phase = "undo"
         /\ k \in {"press", "assign", "enabled", "gone", "remember", "queue", "opened", "entered"} => phase = "body"
         /\ k = "install" => phase \in {"shared", "body"}
         /\ k = "remove" => phase \in {"body", "undo"}
         /\ k \in {"take", "look"} => phase \in {"body", "leftover"}
         /\ k = "idle" => phase = "leftover"
         /\ k \in {"clear", "restore"} => phase \in {"setup", "reset"}
         /\ k = "logcheck" => phase = "log"
<1>1. CASE phase = "shared"
  BY <1>1, HeadOf, DoOf
<1>2. CASE phase \in {"setup", "reset"}
  BY <1>2, HeadOf, DoOf
<1>3. CASE phase = "leftover"
  BY <1>3, HeadOf, DoOf
<1>4. CASE phase = "log"
  BY <1>4, HeadOf, DoOf
<1>5. CASE phase = "undo"
  BY <1>5, HeadOf
<1>6. CASE phase = "body"
  BY <1>6, HeadOf DEF BodyCalls
<1> QED
  BY <1>1, <1>2, <1>3, <1>4, <1>5, <1>6, HeadOf DEF Phases

\* What is left of reset after a call that raised: the others, and then to raise.
LEMMA FinallyRaise ==
  /\ Finally(RestoreOnly, Do("raise")) = RestoreThenRaise
  /\ Finally(<<>>, Do("raise")) = RaiseOnly
  /\ Finally(RaiseOnly, Do("raise")) = RaiseOnly
<1>1. ~ \E i \in DOMAIN RestoreOnly : RestoreOnly[i] = Do("raise")
  BY DEF RestoreOnly, Do
<1>2. Append(RestoreOnly, Do("raise")) = RestoreThenRaise
  <2>1. ASSUME NEW S, NEW a \in S, NEW b \in S PROVE Append(<<a>>, b) = <<a, b>>
    <3>1. <<a>> \in Seq(S) /\ <<a, b>> \in Seq(S) /\ Len(<<a>>) = 1 /\ Len(<<a, b>>) = 2
      BY <2>1
    <3>2. Append(<<a>>, b) \in Seq(S) /\ Len(Append(<<a>>, b)) = 2
      BY <2>1, <3>1, AppendProperties
    <3>3. \A i \in 1 .. 2 : Append(<<a>>, b)[i] = <<a, b>>[i]
      BY <2>1, <3>1, AppendProperties
    <3> QED
      BY <3>1, <3>2, <3>3, SeqEqual
  <2>2. Do("restore") \in Calls /\ Do("raise") \in Calls
    BY DoOf DEF PlainCalls
  <2> QED
    BY <2>1, <2>2 DEF RestoreOnly, RestoreThenRaise
<1>3. Append(<<>>, Do("raise")) = RaiseOnly
  BY DEF RaiseOnly
<1>4. 1 \in DOMAIN RaiseOnly /\ RaiseOnly[1] = Do("raise")
  BY DEF RaiseOnly
<1> QED
  BY <1>1, <1>2, <1>3, <1>4 DEF Finally

\* Where the host is after a call that raised.
LEMMA RaiseGoes ==
  ASSUME Typed, Shape, todo # <<>>, Raise
  PROVE  /\ phase \in {"setup", "reset"} =>
              /\ UNCHANGED <<open, block, unwinding, shared>>
              /\ \/ /\ UNCHANGED <<phase, problems, failures, left>> /\ Head(todo)[1] \in {"clear", "restore"}
                    /\ todo' \in {RestoreThenRaise, RaiseOnly}
                 \/ /\ phase = "setup" /\ phase' = "log" /\ todo' = StageCalls("log")
                    /\ problems' = problems \cup {Problem("setup")}
                    /\ left' = [open |-> open, errors |-> errors] /\ failures' = failures
                 \/ phase = "reset" /\ UNCHANGED <<phase, problems, failures, left>> /\ todo' = <<>>
         /\ phase = "shared" =>
              /\ phase' = "reset" /\ todo' = Reset /\ shared' = "failed" /\ problems' = {Problem("setup")}
              /\ UNCHANGED <<open, block, unwinding, failures, left>>
         /\ phase = "body" =>
              /\ UNCHANGED <<phase, shared, open, problems, failures, left>>
              /\ \/ ~unwinding /\ todo' = <<>> /\ UNCHANGED <<block, unwinding>>
                 \/ /\ unwinding' = TRUE /\ block' = FALSE
                    /\ todo' = IF block /\ open THEN CloseWith ELSE <<>>
         /\ phase = "leftover" =>
              /\ UNCHANGED <<phase, shared, block, unwinding, failures, left>>
              /\ \/ todo' = RelaunchRaise /\ UNCHANGED <<open, problems>>
                 \/ /\ todo' = <<>> /\ open' = FALSE /\ problems' = problems \cup {Problem("leftover")}
                    /\ todo \in {RaiseOnly, RelaunchRaise}
         /\ phase = "log" =>
              /\ UNCHANGED <<phase, shared, open, block, unwinding, failures, left>>
              /\ todo' = <<>> /\ problems' = problems \cup {Problem("log")}
         /\ phase = "undo" =>
              /\ UNCHANGED <<phase, shared, open, block, unwinding, left>>
              /\ todo' = Tail(todo) /\ failures' = failures \cup {Head(todo)[2]}
              /\ problems' = IF failures = {} THEN problems \cup {<<"undo", Head(todo)[2]>>} ELSE problems
<1>1. ASSUME phase \in {"setup", "reset"}
      PROVE  /\ UNCHANGED <<open, block, unwinding, shared>>
             /\ \/ /\ UNCHANGED <<phase, problems, failures, left>> /\ Head(todo)[1] \in {"clear", "restore"}
                   /\ todo' \in {RestoreThenRaise, RaiseOnly}
                \/ /\ phase = "setup" /\ phase' = "log" /\ todo' = StageCalls("log")
                   /\ problems' = problems \cup {Problem("setup")}
                   /\ left' = [open |-> open, errors |-> errors] /\ failures' = failures
                \/ phase = "reset" /\ UNCHANGED <<phase, problems, failures, left>> /\ todo' = <<>>
  <2>1. RaiseInReset
    BY <1>1 DEF Raise, RaiseInShared, RaiseInBody, RaiseInTeardown
  <2>2. UNCHANGED <<open, block, unwinding>>
    BY <2>1 DEF RaiseInReset
  <2>3. CASE Head(todo)[1] \in {"clear", "restore"}
    <3>1. Then(Finally(Tail(todo), Do("raise")))
      BY <2>1, <2>3 DEF RaiseInReset
    <3>2. todo \in {Reset, RestoreOnly, RestoreThenRaise}
      BY <1>1, <2>3, HeadOf, DoOf
    <3>3. Finally(Tail(todo), Do("raise")) \in {RestoreThenRaise, RaiseOnly}
      BY <3>2, Lists, FinallyRaise
    <3> QED
      BY <2>2, <2>3, <3>1, <3>3 DEF Then
  <2>4. CASE Head(todo)[1] \notin {"clear", "restore"}
    <3>1. IF phase = "setup" THEN Finish(TRUE) ELSE Then(<<>>)
      BY <2>1, <2>4 DEF RaiseInReset
    <3>2. Stages[1] = "log"
      BY DEF Stages
    <3> QED
      BY <1>1, <2>2, <3>1, <3>2 DEF Then, Finish
  <2> QED
    BY <2>3, <2>4
<1>2. ASSUME phase = "shared"
      PROVE  /\ phase' = "reset" /\ todo' = Reset /\ shared' = "failed" /\ problems' = {Problem("setup")}
             /\ UNCHANGED <<open, block, unwinding, failures, left>>
  BY <1>2 DEF Raise, RaiseInReset, RaiseInShared, RaiseInBody, RaiseInTeardown
<1>3. ASSUME phase = "body"
      PROVE  /\ UNCHANGED <<phase, shared, open, problems, failures, left>>
             /\ \/ ~unwinding /\ todo' = <<>> /\ UNCHANGED <<block, unwinding>>
                \/ /\ unwinding' = TRUE /\ block' = FALSE
                   /\ todo' = IF block /\ open THEN CloseWith ELSE <<>>
  BY <1>3 DEF Raise, RaiseInReset, RaiseInShared, RaiseInBody, RaiseInTeardown, Then
<1>4. ASSUME phase \in {"log", "leftover", "undo"}
      PROVE  RaiseInTeardown
  BY <1>4 DEF Raise, RaiseInReset, RaiseInShared, RaiseInBody
<1>f. phase \in {"log", "leftover"} => failures = {}
  BY DEF Typed, FlowTyped, Told
<1>5. ASSUME phase = "leftover"
      PROVE  /\ UNCHANGED <<phase, shared, block, unwinding, failures, left>>
             /\ \/ todo' = RelaunchRaise /\ UNCHANGED <<open, problems>>
                \/ /\ todo' = <<>> /\ open' = FALSE /\ problems' = problems \cup {Problem("leftover")}
                   /\ todo \in {RaiseOnly, RelaunchRaise}
  <2>1. UNCHANGED <<phase, shared, block, unwinding, failures, left>>
    BY <1>4, <1>5 DEF RaiseInTeardown, Reports
  <2>2. CASE Head(todo)[1] \notin {"relaunch", "raise"}
    BY <1>4, <1>5, <2>1, <2>2, Written DEF RaiseInTeardown
  <2>3. CASE Head(todo)[1] \in {"relaunch", "raise"}
    <3>1. todo' = <<>> /\ open' = (open /\ phase # "leftover")
             /\ problems' = problems \cup {<<phase, Head(todo)[2]>>}
      BY <1>4, <1>5, <1>f, <2>3 DEF RaiseInTeardown, Reports
    <3>2. todo \in {RaiseOnly, RelaunchRaise} /\ Head(todo) \in {Do("raise"), Do("relaunch")}
      BY <1>5, <2>3, HeadOf, DoOf
    <3>3. <<phase, Head(todo)[2]>> = Problem("leftover")
      BY <1>5, <3>2, DoOf DEF Problem
    <3> QED
      BY <1>5, <2>1, <3>1, <3>2, <3>3
  <2> QED
    BY <2>2, <2>3
<1>6. ASSUME phase = "log"
      PROVE  /\ UNCHANGED <<phase, shared, open, block, unwinding, failures, left>>
             /\ todo' = <<>> /\ problems' = problems \cup {Problem("log")}
  <2>1. UNCHANGED <<phase, shared, block, unwinding, failures, left>> /\ todo' = <<>>
          /\ open' = (open /\ phase # "leftover") /\ problems' = problems \cup {<<phase, Head(todo)[2]>>}
    BY <1>4, <1>6, <1>f DEF RaiseInTeardown, Reports
  <2>2. <<phase, Head(todo)[2]>> = Problem("log")
    BY <1>6, HeadOf, DoOf DEF Problem
  <2>3. open \in BOOLEAN
    BY DEF Typed, FlowTyped, RestTyped
  <2> QED
    BY <1>6, <2>1, <2>2, <2>3
<1>7. ASSUME phase = "undo"
      PROVE  /\ UNCHANGED <<phase, shared, open, block, unwinding, left>>
             /\ todo' = Tail(todo) /\ failures' = failures \cup {Head(todo)[2]}
             /\ problems' = IF failures = {} THEN problems \cup {<<"undo", Head(todo)[2]>>} ELSE problems
  <2>1. open \in BOOLEAN
    BY DEF Typed, FlowTyped, RestTyped
  <2> QED
    BY <1>4, <1>7, <2>1 DEF RaiseInTeardown, Reports
<1> QED
  BY <1>1, <1>2, <1>3, <1>5, <1>6, <1>7

\* The lists are of calls, and in order.
LEMMA FixtureLists ==
  ASSUME NEW t \in Resetting \cup LeavingOver \cup {FreshReset, CheckOnly, InstallRelaunch, RelaunchOnly, CloseWith}
  PROVE  t \in Seq(Calls) /\ Ordered(t)
<1>1. /\ \A k \in PlainCalls : Do(k) \in Calls
      /\ <<"install", Bundle>> \in Calls
  BY DoOf, SessionAssumption DEF Calls, AddonCalls
<1>2. /\ Reset \in Seq(Calls) /\ RestoreOnly \in Seq(Calls) /\ RestoreThenRaise \in Seq(Calls)
      /\ RaiseOnly \in Seq(Calls) /\ FreshReset \in Seq(Calls) /\ CheckOnly \in Seq(Calls)
      /\ Leftover \in Seq(Calls) /\ LookIdleRaise \in Seq(Calls) /\ IdleRaise \in Seq(Calls)
      /\ RelaunchRaise \in Seq(Calls) /\ InstallRelaunch \in Seq(Calls) /\ RelaunchOnly \in Seq(Calls)
      /\ CloseWith \in Seq(Calls) /\ <<>> \in Seq(Calls)
  BY <1>1 DEF PlainCalls, Reset, RestoreOnly, RestoreThenRaise, RaiseOnly, FreshReset, CheckOnly, Leftover,
       LookIdleRaise, IdleRaise, RelaunchRaise, InstallRelaunch, RelaunchOnly, CloseWith
<1>3. Ordered(Reset) /\ Ordered(RestoreOnly) /\ Ordered(RestoreThenRaise) /\ Ordered(RaiseOnly)
  BY DEF Ordered, Do, Reset, RestoreOnly, RestoreThenRaise, RaiseOnly
<1>4. Ordered(FreshReset) /\ Ordered(CheckOnly) /\ Ordered(InstallRelaunch) /\ Ordered(RelaunchOnly)
  BY DEF Ordered, Do, FreshReset, CheckOnly, InstallRelaunch, RelaunchOnly
<1>5. Ordered(Leftover)
  BY DEF Ordered, Do, Leftover
<1>6. Ordered(LookIdleRaise) /\ Ordered(IdleRaise) /\ Ordered(RelaunchRaise) /\ Ordered(CloseWith) /\ Ordered(<<>>)
  BY DEF Ordered, Do, LookIdleRaise, IdleRaise, RelaunchRaise, CloseWith
<1> QED
  BY <1>2, <1>3, <1>4, <1>5, <1>6 DEF Resetting, LeavingOver

\* The lists of a test's steps.
StepLists ==
  {RaiseOnly, <<Do("press")>>, RelaunchOnly, CloseWith, Nowait}
    \cup {<<Do("remember"), Do("queue"), Do("opened")>>, <<Do("remember"), Do("queue"), Do("entered")>>}
    \cup {Adding(a) : a \in Addons} \cup {Removing(a) : a \in Addons}
    \cup {<<<<"assign", s>>>> : s \in Sections}

LEMMA StepTakes == Guarded \cup Unguarded \subseteq StepLists
<1>1. Guarded \subseteq StepLists
  <2>1. CASE open
    BY <2>1 DEF Guarded, StepLists, RaiseOnly
  <2>2. CASE ~open
    BY <2>2, Written DEF Guarded, StepLists, RelaunchOnly
  <2> QED
    BY <2>1, <2>2
<1>2. Unguarded \subseteq StepLists
  BY DEF Unguarded, StepLists
<1> QED
  BY <1>1, <1>2

LEMMA StepCalls ==
  ASSUME NEW t \in StepLists
  PROVE  /\ t \in Seq(Calls) /\ Ordered(t) /\ t # <<>>
         /\ \A i \in DOMAIN t : t[i][1] \in BodyCalls
         /\ t[1] # Do("look")
<1> USE DEF BodyCalls, PlainCalls, AddonCalls
<1>1. \A k \in PlainCalls : Do(k) \in Calls
  BY DoOf
<1>2. CASE t \in {RaiseOnly, <<Do("press")>>, RelaunchOnly}
  <2>1. t \in Seq(Calls)
    <3>1. RaiseOnly \in Seq(Calls) /\ <<Do("press")>> \in Seq(Calls) /\ RelaunchOnly \in Seq(Calls)
      BY <1>1 DEF RaiseOnly, RelaunchOnly
    <3> QED
      BY <1>2, <3>1
  <2> QED
    BY <1>2, <2>1 DEF RaiseOnly, RelaunchOnly, Ordered, Do
<1>3. CASE t \in {CloseWith, Nowait}
  <2>1. t \in Seq(Calls)
    <3>1. CloseWith \in Seq(Calls) /\ Nowait \in Seq(Calls)
      BY <1>1 DEF CloseWith, Nowait
    <3> QED
      BY <1>3, <3>1
  <2> QED
    BY <1>3, <2>1 DEF CloseWith, Nowait, Ordered, Do
<1>4. CASE t = <<Do("remember"), Do("queue"), Do("opened")>>
  <2>1. t \in Seq(Calls)
    BY <1>1, <1>4
  <2> QED
    BY <1>4, <2>1 DEF Ordered, Do
<1>5. CASE t = <<Do("remember"), Do("queue"), Do("entered")>>
  <2>1. t \in Seq(Calls)
    BY <1>1, <1>5
  <2> QED
    BY <1>5, <2>1 DEF Ordered, Do
<1>6. ASSUME NEW a \in Addons, t = Adding(a) PROVE t \in Seq(Calls) /\ Ordered(t) /\ t # <<>>
         /\ (\A i \in DOMAIN t : t[i][1] \in BodyCalls) /\ t[1] # Do("look")
  <2>1. <<"install", a>> \in Calls /\ <<"enabled", a>> \in Calls
    BY DEF Calls
  <2>2. t \in Seq(Calls)
    BY <1>1, <1>6, <2>1 DEF Adding
  <2> QED
    BY <1>6, <2>2 DEF Ordered, Do, Adding
<1>7. ASSUME NEW a \in Addons, t = Removing(a) PROVE t \in Seq(Calls) /\ Ordered(t) /\ t # <<>>
         /\ (\A i \in DOMAIN t : t[i][1] \in BodyCalls) /\ t[1] # Do("look")
  <2>1. <<"remove", a>> \in Calls /\ <<"gone", a>> \in Calls
    BY DEF Calls
  <2>2. t \in Seq(Calls)
    BY <1>1, <1>7, <2>1 DEF Removing
  <2> QED
    BY <1>7, <2>2 DEF Ordered, Do, Removing
<1>8. ASSUME NEW s \in Sections, t = <<<<"assign", s>>>>
      PROVE t \in Seq(Calls) /\ Ordered(t) /\ t # <<>>
         /\ (\A i \in DOMAIN t : t[i][1] \in BodyCalls) /\ t[1] # Do("look")
  <2>1. <<"assign", s>> \in Calls
    BY DEF Calls
  <2>2. t \in Seq(Calls)
    BY <1>8, <2>1
  <2> QED
    BY <1>8, <2>2 DEF Ordered, Do
<1> QED
  BY <1>2, <1>3, <1>4, <1>5, <1>6, <1>7, <1>8 DEF StepLists

\* Only calls of the kinds of a test need an order.
LEMMA OrderedByKind ==
  ASSUME NEW t, \A i \in DOMAIN t : t[i][1] \in {"undo", "remove", "relaunch"}
  PROVE  Ordered(t)
  BY DEF Ordered, Do

\* The calls of undo_all, one for each add-on that was noted.
LEMMA ToUndoOf ==
  ASSUME Typed
  PROVE  /\ ToUndo \in Seq(Calls) /\ DOMAIN ToUndo = DOMAIN installed
         /\ \A i \in DOMAIN installed : ToUndo[i] = <<"undo", installed[i]>>
<1>1. Len(installed) \in Nat /\ DOMAIN installed = 1 .. Len(installed)
        /\ \A i \in DOMAIN installed : installed[i] \in Addons
  BY DEF Typed, RestTyped
<1>2. \A i \in DOMAIN installed : <<"undo", installed[i]>> \in Calls
  BY <1>1 DEF Calls, AddonCalls
<1> QED
  BY <1>1, <1>2 DEF ToUndo

\* The calls of a stage.
LEMMA StageCallsOf ==
  /\ StageCalls("log") = IF FailOnLogErrors THEN CheckOnly ELSE <<>>
  /\ StageCalls("leftover") = IF open THEN Leftover ELSE <<>>
  /\ StageCalls("undo") = ToUndo
  BY Written DEF StageCalls

LEMMA StageAfterOf == StageAfter("log") = "leftover" /\ StageAfter("leftover") = "undo"
<1>1. Stages[1] = "log" /\ Stages[2] = "leftover" /\ Stages[3] = "undo"
  BY DEF Stages
<1>2. (CHOOSE i \in 1 .. 2 : Stages[i] = "log") = 1
  BY <1>1
<1>3. (CHOOSE i \in 1 .. 2 : Stages[i] = "leftover") = 2
  BY <1>1
<1> QED
  BY <1>1, <1>2, <1>3 DEF StageAfter

\* Where the host is when a fixture or a stage is over.
LEMMA ProceedGoes ==
  ASSUME Proceed
  PROVE  \/ /\ phase = "shared" /\ phase' = "setup" /\ shared' = "ready"
            /\ todo' \in {Reset, FreshReset}
         \/ phase = "setup" /\ phase' = "body" /\ todo' = <<>> /\ shared' = shared
         \/ phase = "reset" /\ phase' = "idle" /\ todo' = <<>> /\ shared' = shared
         \/ /\ phase = "log" /\ phase' = "leftover" /\ shared' = shared
            /\ todo' = IF open THEN Leftover ELSE <<>>
         \/ phase = "leftover" /\ phase' = "undo" /\ todo' = ToUndo /\ shared' = shared
         \/ phase = "undo" /\ phase' = "reset" /\ todo' = Reset /\ shared' = shared
<1>1. Stages[1] = "log" /\ Stages[2] = "leftover" /\ Stages[3] = "undo"
  BY DEF Stages
<1>2. CASE phase = "shared"
  BY <1>1, <1>2, Written DEF Proceed, SetUp
<1>3. CASE phase = "setup"
  BY <1>1, <1>3 DEF Proceed
<1>4. CASE phase = "reset"
  BY <1>1, <1>4 DEF Proceed
<1>5. CASE phase = "log"
  BY <1>1, <1>5, StageAfterOf, StageCallsOf DEF Proceed
<1>6. CASE phase = "leftover"
  BY <1>1, <1>6, StageAfterOf, StageCallsOf DEF Proceed
<1>7. CASE phase = "undo"
  BY <1>1, <1>7 DEF Proceed
<1> QED
  BY <1>1, <1>2, <1>3, <1>4, <1>5, <1>6, <1>7 DEF Proceed

\* Where a test starts.
LEMMA StartGoes ==
  ASSUME StartTest
  PROVE  \/ /\ uses' = TRUE /\ shared = "unset" /\ phase' = "shared" /\ todo' = InstallRelaunch
            /\ problems' = {}
         \/ /\ uses' = TRUE /\ shared = "failed" /\ phase' = "reset" /\ todo' = Reset
            /\ problems' = {Problem("setup")}
         \/ /\ (uses' => shared \notin {"unset", "failed"})
            /\ phase' = "setup" /\ todo' \in {Reset, FreshReset} /\ problems' = {}
<1>1. CASE uses' = TRUE /\ shared = "unset"
  BY <1>1, Written DEF StartTest
<1>2. CASE uses' = TRUE /\ shared = "failed"
  BY <1>2 DEF StartTest
<1>3. CASE ~(uses' = TRUE /\ shared = "unset") /\ ~(uses' = TRUE /\ shared = "failed")
  BY <1>3, Written DEF StartTest, SetUp
<1> QED
  BY <1>1, <1>2, <1>3

-------------------------------------------------------------------------------
(* Shape and Looking.                                                          *)

\* No list the host turns to begins with a look.
LEMMA NoLookFirst ==
  \A t \in {Reset, RestoreOnly, RestoreThenRaise, RaiseOnly, FreshReset, CheckOnly, Leftover, RelaunchRaise,
            InstallRelaunch, CloseWith} : t # <<>> /\ t[1] # Do("look")
  BY DEF Do, Reset, RestoreOnly, RestoreThenRaise, RaiseOnly, FreshReset, CheckOnly, Leftover, RelaunchRaise,
         InstallRelaunch, CloseWith

\* The kinds of the calls that close a dialog.
LEMMA CloseWithKinds == \A i \in DOMAIN CloseWith : CloseWith[i][1] \in BodyCalls
  BY DEF CloseWith, Do, BodyCalls

\* What holds of the calls to come, wherever the host goes.
Looks == todo' # <<>> /\ todo'[1] = Do("look")

Moved == todo' \in Seq(Calls) /\ Shape' /\ Ordered(todo')

LEMMA TailMoves ==
  ASSUME Typed, Shape, Ordered(todo), todo # <<>>, phase' = phase, todo' = Tail(todo)
  PROVE  Moved /\ (Looks => Head(todo) = Do("take"))
<1>1. /\ Tail(todo) \in Seq(Calls)
      /\ \A i \in DOMAIN Tail(todo) : i + 1 \in DOMAIN todo /\ Tail(todo)[i] = todo[i + 1]
  BY TailOf DEF Typed
<1>2. phase = "undo" => \A i \in DOMAIN todo' : todo'[i][1] \in {"undo", "remove", "relaunch"}
  BY <1>1 DEF Shape
<1>3. phase = "body" => \A i \in DOMAIN todo' : todo'[i][1] \in BodyCalls
  BY <1>1 DEF Shape
<1>4. phase # "idle"
  BY HeadOf
<1>5. Shape'
  BY <1>2, <1>3, <1>4, TailKeepsShape DEF Shape
<1> QED
  BY <1>1, <1>5, TailKeepsShape DEF Moved, Looks

LEMMA RaiseMoves ==
  ASSUME Typed, Shape, Ordered(todo), todo # <<>>, Raise
  PROVE  Moved /\ ~Looks
<1>1. phase \in Phases \ {"idle"}
  BY HeadOf
<1>2. CASE phase \in {"setup", "reset"}
  <2>1. CASE UNCHANGED phase /\ todo' \in {RestoreThenRaise, RaiseOnly, <<>>}
    <3>1. todo' \in Resetting
      BY <2>1 DEF Resetting
    <3>2. Shape'
      BY <1>2, <2>1, <3>1 DEF Shape
    <3> QED
      BY <2>1, <3>1, <3>2, FixtureLists, NoLookFirst DEF Moved, Looks
  <2>2. CASE phase' = "log" /\ todo' = StageCalls("log")
    <3>1. todo' \in {<<>>, CheckOnly}
      BY <2>2, StageCallsOf
    <3>2. Shape'
      BY <2>2, <3>1 DEF Shape
    <3>3. <<>> \in Resetting
      BY DEF Resetting
    <3> QED
      BY <3>1, <3>2, <3>3, FixtureLists, NoLookFirst DEF Moved, Looks
  <2> QED
    BY <1>2, <2>1, <2>2, RaiseGoes
<1>3. CASE phase = "shared"
  <2>1. phase' = "reset" /\ todo' = Reset /\ Reset \in Resetting
    BY <1>3, RaiseGoes DEF Resetting
  <2>2. Shape'
    BY <2>1 DEF Shape
  <2> QED
    BY <2>1, <2>2, FixtureLists, NoLookFirst DEF Moved, Looks
<1>4. CASE phase = "body"
  <2>1. phase' = "body" /\ todo' \in {<<>>, CloseWith}
    BY <1>4, RaiseGoes
  <2>2. Shape'
    BY <2>1, CloseWithKinds DEF Shape
  <2>3. <<>> \in Resetting
    BY DEF Resetting
  <2> QED
    BY <2>1, <2>2, <2>3, FixtureLists, NoLookFirst DEF Moved, Looks
<1>5. CASE phase = "leftover"
  <2>1. phase' = "leftover" /\ todo' \in {<<>>, RelaunchRaise}
    BY <1>5, RaiseGoes
  <2>2. todo' \in LeavingOver
    BY <2>1 DEF LeavingOver
  <2>3. Shape'
    BY <2>1, <2>2 DEF Shape
  <2> QED
    BY <2>1, <2>2, <2>3, FixtureLists, NoLookFirst DEF Moved, Looks
<1>6. CASE phase = "log"
  <2>1. phase' = "log" /\ todo' = <<>> /\ <<>> \in Resetting
    BY <1>6, RaiseGoes DEF Resetting
  <2>2. Shape'
    BY <2>1 DEF Shape
  <2> QED
    BY <2>1, <2>2, FixtureLists, NoLookFirst DEF Moved, Looks
<1>7. CASE phase = "undo"
  <2>1. phase' = phase /\ todo' = Tail(todo)
    BY <1>7, RaiseGoes
  <2>2. Head(todo) # Do("take")
    BY <1>7, HeadOf, DoOf
  <2> QED
    BY <2>1, <2>2, TailMoves
<1> QED
  BY <1>1, <1>2, <1>3, <1>4, <1>5, <1>6, <1>7 DEF Phases

\* A step keeps the calls to come in shape.
LEMMA NextMoves ==
  ASSUME Typed, Shape, Looking, Next
  PROVE  Moved /\ (Looks => initial' # Unset)
<1>a. ASSUME todo' = todo, phase' = phase, initial' = initial PROVE Moved /\ (Looks => initial' # Unset)
  BY <1>a DEF Moved, Typed, Shape, Looking, Ordered, Looks
<1>b. ASSUME todo # <<>>, phase' = phase, todo' = Tail(todo), Head(todo) # Do("take")
      PROVE  Moved /\ ~Looks
  BY <1>b, TailMoves DEF Looking, Looks
<1>c. ASSUME todo # <<>>, Raise PROVE Moved /\ ~Looks
  BY <1>c, RaiseMoves DEF Looking, Looks
<1>k. /\ Do("take")[1] = "take" /\ \A K : Now(K) => todo # <<>> /\ Head(todo)[1] \in K
  BY DoOf DEF Now
<1>1. CASE Unreachable \/ TimesOut \/ Rejected \/ Raises
  BY <1>1, <1>c, <1>k DEF Unreachable, TimesOut, Rejected, Raises
<1>2. CASE Called
  <2>1. Now({"press", "assign", "restore", "install", "remove"}) /\ (Continue \/ Raise)
    BY <1>2 DEF Called
  <2>2. todo # <<>> /\ Head(todo) # Do("take")
    BY <2>1, <1>k
  <2> QED
    BY <2>1, <2>2, <1>b, <1>c DEF Continue, Then
<1>3. CASE Verified
  <2>1. Now({"enabled", "gone"}) /\ (Continue \/ Raise)
    BY <1>3 DEF Verified
  <2>2. todo # <<>> /\ Head(todo) # Do("take")
    BY <2>1, <1>k
  <2> QED
    BY <2>1, <2>2, <1>b, <1>c DEF Continue, Then
<1>4. CASE Undo
  <2>1. Now({"undo"}) /\ phase' = phase /\ (todo' = Tail(todo) \/ todo' = <<<<"remove", Subject>>>> \o Tail(todo))
    BY <1>4 DEF Undo, Continue, Then
  <2>2. todo # <<>> /\ Head(todo) # Do("take") /\ phase = "undo" /\ Head(todo) \in Calls
    BY <2>1, <1>k, HeadOf, KindTells
  <2>3. CASE todo' = <<<<"remove", Subject>>>> \o Tail(todo)
    <3>1. /\ Tail(todo) \in Seq(Calls)
          /\ \A i \in DOMAIN Tail(todo) : i + 1 \in DOMAIN todo /\ Tail(todo)[i] = todo[i + 1]
      BY <2>2, TailOf DEF Typed
    <3>2. <<"remove", Subject>> \in Calls
      <4>1. Head(todo)[1] = "undo"
        BY <2>1, <1>k
      <4> QED
        BY <2>2, <4>1 DEF Subject, Calls, AddonCalls, PlainCalls
    <3>3. /\ todo' \in Seq(Calls) /\ todo'[1] = <<"remove", Subject>>
          /\ \A i \in DOMAIN todo' : i = 1 \/ (i - 1 \in DOMAIN Tail(todo) /\ todo'[i] = Tail(todo)[i - 1])
      BY <2>3, <3>1, <3>2, JoinOf
    <3>4. \A i \in DOMAIN todo' : todo'[i][1] \in {"undo", "remove", "relaunch"}
      BY <2>2, <3>1, <3>3 DEF Shape
    <3>5. Shape' /\ Ordered(todo')
      BY <2>1, <2>2, <3>4, OrderedByKind DEF Shape
    <3>6. ~Looks
      BY <3>3, DoOf DEF Looks
    <3> QED
      BY <3>3, <3>5, <3>6 DEF Moved
  <2> QED
    BY <2>1, <2>2, <2>3, <1>b
<1>5. CASE UndoRemove
  <2>1. phase = "undo" /\ todo # <<>> /\ phase' = phase /\ todo' = Finally(Tail(todo), Do("relaunch"))
    BY <1>5, <1>k DEF UndoRemove, Then
  <2>2. /\ Tail(todo) \in Seq(Calls)
        /\ \A i \in DOMAIN Tail(todo) : i + 1 \in DOMAIN todo /\ Tail(todo)[i] = todo[i + 1]
    BY <2>1, TailOf DEF Typed
  <2>3. /\ todo' \in Seq(Calls)
        /\ \A i \in DOMAIN todo' : todo'[i] = Do("relaunch") \/ (i \in DOMAIN Tail(todo) /\ todo'[i] = Tail(todo)[i])
    <3>1. Do("relaunch") \in Calls
      BY DoOf DEF PlainCalls
    <3>2. PICK t \in Seq(Calls) : t = Tail(todo)
      BY <2>2
    <3>3. /\ Finally(t, Do("relaunch")) \in Seq(Calls)
          /\ \A i \in DOMAIN Finally(t, Do("relaunch")) :
               Finally(t, Do("relaunch"))[i] = Do("relaunch")
                 \/ (i \in DOMAIN t /\ Finally(t, Do("relaunch"))[i] = t[i])
      BY <3>1, FinallyOf
    <3> QED
      BY <2>1, <3>2, <3>3
  <2>4. \A i \in DOMAIN todo' : todo'[i][1] \in {"undo", "remove", "relaunch"}
    BY <2>1, <2>2, <2>3, DoOf DEF Shape
  <2>5. Shape' /\ Ordered(todo')
    BY <2>1, <2>4, OrderedByKind DEF Shape
  <2>6. ~Looks
    <3>1. todo' # <<>> => 1 \in DOMAIN todo'
      BY <2>3
    <3> QED
      BY <2>4, <3>1, DoOf DEF Looks
  <2> QED
    BY <2>3, <2>5, <2>6 DEF Moved
<1>6. CASE Relaunched \/ IdleAnswered \/ Cleared \/ LogChecked \/ Remembered \/ Queued \/ NoDialogCame
  <2>1. /\ Now({"relaunch"}) \/ Now({"idle"}) \/ Now({"clear"}) \/ Now({"logcheck"}) \/ Now({"remember"})
             \/ Now({"queue"}) \/ Now({"look"})
        /\ Continue \/ Raise
    BY <1>6 DEF Relaunched, IdleAnswered, Cleared, LogChecked, Remembered, Queued, NoDialogCame
  <2>2. todo # <<>> /\ Head(todo) # Do("take")
    BY <2>1, <1>k
  <2> QED
    BY <2>1, <2>2, <1>b, <1>c DEF Continue, Then
<1>7. CASE Opened \/ Sent
  <2>1. Now({"opened", "entered"}) \/ Now({"look"})
    BY <1>7 DEF Opened, Sent
  <2>2. phase' = phase /\ todo' = Tail(todo)
    BY <1>7 DEF Opened, Sent, Then
  <2>3. todo # <<>> /\ Head(todo) # Do("take")
    BY <2>1, <1>k
  <2> QED
    BY <2>2, <2>3, <1>b
<1>8. CASE Taken
  <2>1. todo # <<>> /\ ((Continue /\ initial' = Initial) \/ Raise)
    BY <1>8, <1>k DEF Taken
  <2>2. Initial # Unset
    BY DEF Initial, Typed, FlowTyped, RestTyped, NvdaTypeOK, Unset, Main
  <2>3. CASE Continue /\ initial' = Initial
    BY <2>1, <2>2, <2>3, TailMoves DEF Continue, Then, Looking
  <2> QED
    BY <2>1, <2>3, <1>c DEF Looks
<1>9. CASE StartTest
  <2>1. \/ phase' = "shared" /\ todo' = InstallRelaunch
        \/ phase' = "reset" /\ todo' = Reset
        \/ phase' = "setup" /\ todo' \in {Reset, FreshReset}
    BY <1>9, StartGoes
  <2>2. Shape'
    BY <2>1 DEF Shape, Resetting
  <2>3. Reset \in Resetting
    BY DEF Resetting
  <2> QED
    BY <2>1, <2>2, <2>3, FixtureLists, NoLookFirst DEF Moved, Looks
<1>10. CASE Step
  <2>1. phase' = "body" /\ todo' \in StepLists
    BY <1>10, StepTakes DEF Step, Ready
  <2>2. Shape'
    BY <2>1, StepCalls DEF Shape
  <2> QED
    BY <2>1, <2>2, StepCalls DEF Moved, Looks
<1>11. CASE LeaveBlock
  <2>1. phase' = "body" /\ todo' \in {<<>>, CloseWith}
    BY <1>11 DEF LeaveBlock, Ready
  <2>2. Shape'
    BY <2>1, CloseWithKinds DEF Shape
  <2>3. <<>> \in Resetting
    BY DEF Resetting
  <2> QED
    BY <2>1, <2>2, <2>3, FixtureLists, NoLookFirst DEF Moved, Looks
<1>12. CASE BodyEnds
  <2>1. phase' = "log" /\ todo' = StageCalls("log")
    BY <1>12 DEF BodyEnds, Finish, Stages
  <2>2. todo' \in {<<>>, CheckOnly}
    BY <2>1, StageCallsOf
  <2>3. Shape' /\ <<>> \in Resetting
    BY <2>1, <2>2 DEF Shape, Resetting
  <2> QED
    BY <2>2, <2>3, FixtureLists, NoLookFirst DEF Moved, Looks
<1>13. CASE Proceed
  <2>1. CASE phase' = "undo" /\ todo' = ToUndo
    <3>1. \A i \in DOMAIN todo' : todo'[i][1] = "undo"
      BY <2>1, ToUndoOf
    <3>2. Shape' /\ Ordered(todo')
      BY <2>1, <3>1, OrderedByKind DEF Shape
    <3>3. todo' \in Seq(Calls)
      BY <2>1, ToUndoOf
    <3>4. ~Looks
      <4>1. todo' # <<>> => 1 \in DOMAIN todo'
        BY <3>3
      <4> QED
        BY <3>1, <4>1, DoOf DEF Looks
    <3> QED
      BY <3>2, <3>3, <3>4 DEF Moved
  <2>2. CASE \/ phase' = "setup" /\ todo' \in {Reset, FreshReset}
             \/ phase' \in {"body", "idle"} /\ todo' = <<>>
             \/ phase' = "leftover" /\ todo' \in {Leftover, <<>>}
             \/ phase' = "reset" /\ todo' = Reset
    <3>1. Shape'
      BY <2>2 DEF Shape, Resetting, LeavingOver
    <3>2. Reset \in Resetting /\ <<>> \in Resetting /\ Leftover \in LeavingOver
      BY DEF Resetting, LeavingOver
    <3> QED
      BY <2>2, <3>1, <3>2, FixtureLists, NoLookFirst DEF Moved, Looks
  <2> QED
    BY <1>13, <2>1, <2>2, ProceedGoes
<1>14. CASE NvdaRuns \/ NvdaDies \/ SessionOver
  BY <1>14, <1>a DEF NvdaRuns, NvdaDies, SessionOver, flow, rest, vars
<1> QED
  BY <1>1, <1>2, <1>3, <1>4, <1>5, <1>6, <1>7, <1>8, <1>9, <1>10, <1>11, <1>12, <1>13, <1>14 DEF Next, Looks

-------------------------------------------------------------------------------
(* NVDA.                                                                       *)

\* A job, and the call it comes from, is its kind and its subject.
LEMMA JobOf ==
  ASSUME NEW j \in Calls \cup QueuedJobs
  PROVE  /\ j[1] \in {"install", "remove", "enabled", "gone", "undo"} => j[2] \in Addons
         /\ j[1] = "scenario" => j[2] \in Nat /\ j \notin Calls
         /\ j \in Calls /\ j[1] \in Jobs => j \in QueuedJobs
         /\ j \in QueuedJobs => j[1] \in Jobs
         /\ j \in Calls /\ j[1] \in PlainCalls => j = Do(j[1])
         /\ j = <<j[1], j[2]>>
<1> USE DEF Jobs, PlainCalls, AddonCalls, Do
<1>1. CASE j \in PlainCalls \X {0}
  BY <1>1 DEF QueuedJobs
<1>2. CASE j \in AddonCalls \X Addons
  BY <1>2 DEF QueuedJobs
<1>3. CASE j \in {"assign"} \X Sections
  BY <1>3 DEF QueuedJobs
<1>4. CASE j \in QueuedJobs
  <2>1. CASE j \in {"restore", "press"} \X {0}
    BY <1>4, <2>1
  <2>2. CASE j \in {"install", "remove"} \X Addons
    BY <1>4, <2>2
  <2>3. CASE j \in {"assign"} \X Sections
    BY <1>4, <2>3
  <2>4. CASE j \in {"scenario"} \X Nat
    BY <2>4 DEF Calls
  <2> QED
    BY <1>4, <2>1, <2>2, <2>3, <2>4 DEF QueuedJobs
<1> QED
  BY <1>1, <1>2, <1>3, <1>4 DEF Calls

\* What a job may change.
LEMMA DoesWhat ==
  ASSUME NEW j, NEW ok \in BOOLEAN, NEW late \in BOOLEAN, Does(j, ok, late)
  PROVE  /\ UNCHANGED <<up, baseline>>
         /\ j[1] \notin {"install", "remove"} => addons' = addons
         /\ j[1] = "install" =>
              addons' = addons \/ (ok /\ addons' = [addons EXCEPT ![j[2]] = "PENDING_INSTALL"])
         /\ j[1] = "install" /\ ok => addons' = [addons EXCEPT ![j[2]] = "PENDING_INSTALL"]
         /\ j[1] = "remove" =>
              IF addons[j[2]] = "NOT_INSTALLED" THEN ~ok /\ addons' = addons
              ELSE ok /\ addons' = [addons EXCEPT ![j[2]] = "PENDING_REMOVE"]
         /\ j[1] \notin {"restore", "assign"} => conf' = conf
         /\ j[1] = "assign" => conf' = conf \/ conf' = [conf EXCEPT ![j[2]] = "changed"]
         /\ j[1] = "restore" => Restore(ok)
         /\ j[1] # "scenario" => UNCHANGED <<modal, fg>>
         /\ j[1] = "scenario" => UNCHANGED <<modal, fg>> \/ (modal' = j[2] /\ fg' = j[2])
         /\ errors' \in BOOLEAN \cup {errors} /\ (errors = TRUE => errors' = TRUE)
<1>1. UNCHANGED <<up, baseline>>
  BY DEF Does
<1>2. /\ j[1] # "scenario" => UNCHANGED <<modal, fg>>
      /\ j[1] = "scenario" => UNCHANGED <<modal, fg>> \/ (modal' = j[2] /\ fg' = j[2])
  BY DEF Does, Scenario
<1>3. errors' \in BOOLEAN \cup {errors} /\ (errors = TRUE => errors' = TRUE)
  <2>1. \/ errors' = errors \/ errors' = (errors \/ TRUE) \/ errors' = (errors \/ (late /\ ~ok))
        \/ errors' = (errors \/ (j[1] = "press"))
    BY DEF Does, Scenario, Emits
  <2> QED
    BY <2>1
<1>4. CASE j[1] = "restore"
  BY <1>1, <1>2, <1>3, <1>4 DEF Does
<1>5. CASE j[1] = "assign"
  BY <1>1, <1>2, <1>3, <1>5 DEF Does, Assign
<1>6. CASE j[1] = "install"
  BY <1>1, <1>2, <1>3, <1>6 DEF Does, Install
<1>7. CASE j[1] = "remove"
  BY <1>1, <1>2, <1>3, <1>7 DEF Does, Remove, StateOf
<1>8. CASE j[1] \notin {"restore", "assign", "install", "remove"}
  BY <1>1, <1>2, <1>3, <1>8 DEF Does
<1> QED
  BY <1>4, <1>5, <1>6, <1>7, <1>8

ConfStates == {"absent", "base", "changed", "empty"}

\* What was there is still well typed.
LEMMA DoesTypes ==
  ASSUME Typed, NEW j \in Calls \cup QueuedJobs, NEW ok \in BOOLEAN, NEW late \in BOOLEAN, Does(j, ok, late)
  PROVE  /\ up' \in BOOLEAN /\ errors' \in BOOLEAN /\ modal' \in Nat
         /\ fg' \in {Main} \cup Nat /\ baseline' \in {Unset, Main} \cup Nat
         /\ addons' \in [Addons -> AddonStates] /\ conf' \in [Sections -> ConfStates]
<1>1. /\ up \in BOOLEAN /\ errors \in BOOLEAN /\ modal \in Nat
      /\ fg \in {Main} \cup Nat /\ baseline \in {Unset, Main} \cup Nat
      /\ addons \in [Addons -> AddonStates] /\ conf \in [Sections -> ConfStates]
  BY DEF Typed, FlowTyped, RestTyped, NvdaTypeOK, ConfStates
<1>2. modal' \in Nat /\ fg' \in {Main} \cup Nat /\ errors' \in BOOLEAN
  BY <1>1, DoesWhat, JobOf
<1>3. addons' \in [Addons -> AddonStates]
  BY <1>1, DoesWhat DEF AddonStates
<1>4. conf' \in [Sections -> ConfStates]
  <2>1. CASE Restore(ok)
    <3>1. PICK done : conf' = [s \in Sections |-> IF s \in done THEN Restored(s) ELSE conf[s]]
      BY <2>1 DEF Restore
    <3>2. \A s \in Sections : Restored(s) \in ConfStates
      BY <1>1 DEF Restored, ConfStates
    <3> QED
      BY <1>1, <3>1, <3>2
  <2>2. CASE conf' = [conf EXCEPT ![j[2]] = "changed"]
    BY <1>1, <2>2 DEF ConfStates
  <2> QED
    BY <1>1, <2>1, <2>2, DoesWhat
<1> QED
  BY <1>1, <1>2, <1>3, <1>4, DoesWhat

\* What the host or NVDA itself does to NVDA.
NvdaMoves ==
  \/ UNCHANGED nvda
  \/ todo # <<>> /\ \E ok \in BOOLEAN : Answer(Head(todo), ok)
  \/ todo # <<>> /\ TimeOut(Head(todo))
  \/ RunJob \/ Relaunch \/ Die
  \/ Now({"clear"}) /\ ClearLog
  \/ Now({"remember"}) /\ RememberBaseline
  \/ Now({"queue"}) /\ QueueScenario(last)
  \/ Now({"take"}) /\ TakeBaseline
  \/ Now({"look"}) /\ SendGesture(initial)

LEMMA NextNvda == Next => NvdaMoves
<1> SUFFICES ASSUME Next PROVE NvdaMoves
  OBVIOUS
<1>k. \A K : Now(K) => todo # <<>>
  BY DEF Now
<1>1. CASE Unreachable \/ TimesOut \/ Rejected \/ Raises \/ NoDialogCame \/ LogChecked \/ Opened
  BY <1>1, <1>k DEF Unreachable, TimesOut, Rejected, Raises, NoDialogCame, LogChecked, Opened, NvdaMoves
<1>2. CASE Called \/ Verified \/ Undo \/ UndoRemove \/ IdleAnswered
  <2>1. todo # <<>>
    BY <1>2, <1>k DEF Called, Verified, Undo, UndoRemove, IdleAnswered
  <2>2. \E ok \in BOOLEAN : Answer(Head(todo), ok)
    BY <1>2 DEF Called, Verified, Undo, UndoRemove, IdleAnswered
  <2> QED
    BY <2>1, <2>2 DEF NvdaMoves
<1>3. CASE Relaunched \/ Cleared \/ Remembered \/ Queued \/ Taken \/ Sent
  BY <1>3 DEF Relaunched, Cleared, Remembered, Queued, Taken, Sent, NvdaMoves
<1>4. CASE StartTest \/ Step \/ LeaveBlock \/ BodyEnds \/ Proceed \/ NvdaRuns \/ NvdaDies \/ SessionOver
  BY <1>4 DEF StartTest, Step, LeaveBlock, BodyEnds, Proceed, NvdaRuns, NvdaDies, SessionOver, vars, NvdaMoves
<1> QED
  BY <1>1, <1>2, <1>3, <1>4 DEF Next

\* NVDA stays well typed.
LEMMA NvdaTypes ==
  ASSUME Typed, NvdaMoves
  PROVE  NvdaTypeOK' /\ queue' \in Seq(QueuedJobs)
<1>1. /\ up \in BOOLEAN /\ errors \in BOOLEAN /\ modal \in Nat
      /\ fg \in {Main} \cup Nat /\ baseline \in {Unset, Main} \cup Nat
      /\ addons \in [Addons -> AddonStates] /\ conf \in [Sections -> ConfStates]
      /\ queue \in Seq(QueuedJobs)
  BY DEF Typed, FlowTyped, RestTyped, NvdaTypeOK, ConfStates
<1>2. todo # <<>> => Head(todo) \in Calls
  BY TailOf DEF Typed
<1>3. ASSUME NEW q \in Seq(QueuedJobs) PROVE \A i \in DOMAIN q : q[i][1] \in Jobs
  BY JobOf
<1>4. ASSUME NEW j \in QueuedJobs PROVE Append(queue, j) \in Seq(QueuedJobs)
  BY <1>1, <1>4, AppendOf
<1> DEFINE Fine == /\ up' \in BOOLEAN /\ errors' \in BOOLEAN /\ modal' \in Nat
                   /\ fg' \in {Main} \cup Nat /\ baseline' \in {Unset, Main} \cup Nat
                   /\ addons' \in [Addons -> AddonStates] /\ conf' \in [Sections -> ConfStates]
                   /\ queue' \in Seq(QueuedJobs)
<1>5. Fine
  <2>1. CASE UNCHANGED nvda
    BY <1>1, <2>1 DEF nvda
  <2>2. ASSUME todo # <<>>, NEW ok \in BOOLEAN, Answer(Head(todo), ok) PROVE Fine
    <3>1. Does(Head(todo), ok, FALSE) /\ queue' = queue
      BY <2>2 DEF Answer
    <3> QED
      BY <1>1, <1>2, <2>2, <3>1, DoesTypes
  <2>3. CASE todo # <<>> /\ TimeOut(Head(todo))
    <3>1. UNCHANGED <<up, modal, fg, baseline, errors, addons, conf>>
      BY <2>3 DEF TimeOut
    <3>2. CASE Head(todo)[1] \in Jobs
      <4>1. queue' = Append(queue, Head(todo)) /\ Head(todo) \in QueuedJobs
        BY <1>2, <2>3, <3>2, JobOf DEF TimeOut
      <4> QED
        BY <1>1, <1>4, <3>1, <4>1
    <3>3. CASE Head(todo)[1] \notin Jobs
      BY <1>1, <2>3, <3>1, <3>3 DEF TimeOut
    <3> QED
      BY <3>2, <3>3
  <2>4. CASE RunJob
    <3>1. queue # <<>> /\ queue' = Tail(queue)
      BY <2>4 DEF RunJob
    <3>2. Head(queue) \in QueuedJobs /\ Tail(queue) \in Seq(QueuedJobs)
      BY <1>1, <3>1, TailOf
    <3>3. PICK ok \in BOOLEAN : Does(Head(queue), ok, TRUE)
      BY <2>4 DEF RunJob
    <3> QED
      BY <1>1, <3>1, <3>2, <3>3, DoesTypes
  <2>5. CASE Relaunch \/ Die
    <3>1. up' \in BOOLEAN /\ Forgotten
      BY <2>5 DEF Relaunch, Die
    <3>2. conf' \in [Sections -> ConfStates]
      BY <3>1 DEF Forgotten, Default, ConfStates
    <3>3. addons' \in [Addons -> AddonStates]
      <4>1. CASE Die
        BY <1>1, <4>1 DEF Die
      <4>2. CASE Relaunch
        <5>1. \A a \in Addons : Started(addons[a]) \subseteq AddonStates
          BY <1>1 DEF Started, AddonStates
        <5> QED
          BY <4>2, <5>1 DEF Relaunch
      <4> QED
        BY <2>5, <4>1, <4>2
    <3>4. <<>> \in Seq(QueuedJobs)
      OBVIOUS
    <3> QED
      BY <3>1, <3>2, <3>3, <3>4 DEF Forgotten, Other, NoDialog
  <2>6. CASE ClearLog \/ RememberBaseline \/ TakeBaseline
    BY <1>1, <2>6 DEF ClearLog, RememberBaseline, TakeBaseline
  <2>7. CASE QueueScenario(last)
    <3>1. <<"scenario", last>> \in QueuedJobs
      BY DEF QueuedJobs, Typed, FlowTyped, RestTyped
    <3> QED
      BY <1>1, <1>4, <2>7, <3>1 DEF QueueScenario
  <2>8. CASE SendGesture(initial)
    BY <1>1, <2>8 DEF SendGesture, NoDialog, Other
  <2> QED
    BY <2>1, <2>2, <2>3, <2>4, <2>5, <2>6, <2>7, <2>8 DEF NvdaMoves
<1> QED
  BY <1>3, <1>5 DEF NvdaTypeOK, ConfStates

-------------------------------------------------------------------------------
(* Types.                                                                      *)

\* undo_all's calls are about an add-on, or are the relaunch.
LEMMA UndoSubject ==
  ASSUME Typed, Shape, phase = "undo", todo # <<>>
  PROVE  Head(todo)[2] \in Addons \cup {0}
<1>1. Head(todo) \in Calls /\ Head(todo) = todo[1] /\ 1 \in DOMAIN todo
  BY TailOf DEF Typed
<1>2. Head(todo)[1] \in {"undo", "remove", "relaunch"}
  BY <1>1 DEF Shape
<1>3. CASE Head(todo)[1] \in {"undo", "remove"}
  BY <1>1, <1>3, JobOf DEF Calls, AddonCalls, PlainCalls
<1>4. CASE Head(todo)[1] = "relaunch"
  <2>1. Head(todo) = Do("relaunch")
    BY <1>1, <1>4, JobOf DEF PlainCalls
  <2> QED
    BY <2>1, DoOf
<1> QED
  BY <1>2, <1>3, <1>4

\* Wherever a call that raised sends the host.
LEMMA RaiseTypes ==
  ASSUME Typed, Shape, todo # <<>>, Raise
  PROVE  FlowTyped'
<1>1. FlowTyped /\ errors \in BOOLEAN
  BY DEF Typed, NvdaTypeOK
<1>2. Problem("setup")[1] = "setup" /\ Problem("leftover")[1] = "leftover" /\ Problem("log")[1] = "log"
        /\ <<"undo", Head(todo)[2]>>[1] = "undo"
  BY DEF Problem
<1>3. phase' \in Phases
  BY <1>1, RaiseGoes, HeadOf DEF FlowTyped, Phases
<1>4. \A p \in problems' : p[1] \in Phases
  <2>1. \/ problems' = problems \/ problems' = problems \cup {Problem("setup")} \/ problems' = {Problem("setup")}
        \/ problems' = problems \cup {Problem("leftover")} \/ problems' = problems \cup {Problem("log")}
        \/ problems' = problems \cup {<<"undo", Head(todo)[2]>>}
    BY RaiseGoes, HeadOf DEF Phases
  <2>2. \A p \in problems : p[1] \in Phases
    BY <1>1 DEF FlowTyped
  <2>3. {"setup", "leftover", "log", "undo"} \subseteq Phases
    BY DEF Phases
  <2> QED
    BY <1>2, <2>1, <2>2, <2>3
<1>5. shared' \in {"unset", "ready", "failed"}
  BY <1>1, RaiseGoes, HeadOf DEF FlowTyped, Phases
<1>6. open' \in BOOLEAN /\ block' \in BOOLEAN /\ unwinding' \in BOOLEAN
  BY <1>1, RaiseGoes, HeadOf DEF FlowTyped, Phases
<1>7. left' \in [open : BOOLEAN, errors : BOOLEAN]
  <2>1. left' = left \/ left' = [open |-> open, errors |-> errors]
    BY RaiseGoes, HeadOf DEF Phases
  <2> QED
    BY <1>1, <2>1 DEF FlowTyped
<1>8. failures' \subseteq Addons \cup {0} /\ Told'
  <2>1. CASE phase = "undo"
    <3>1. /\ phase' = phase /\ failures' = failures \cup {Head(todo)[2]}
          /\ problems' = IF failures = {} THEN problems \cup {<<"undo", Head(todo)[2]>>} ELSE problems
      BY <2>1, RaiseGoes
    <3>2. Head(todo)[2] \in Addons \cup {0}
      BY <2>1, UndoSubject
    <3>3. failures' \subseteq Addons \cup {0}
      BY <1>1, <3>1, <3>2 DEF FlowTyped
    <3>4. \E p \in problems' : p[1] = "undo" /\ p[2] \in failures'
      <4>1. CASE failures = {}
        <5>1. /\ <<"undo", Head(todo)[2]>> \in problems'
              /\ <<"undo", Head(todo)[2]>>[1] = "undo"
              /\ <<"undo", Head(todo)[2]>>[2] \in failures'
          BY <3>1, <4>1
        <5> QED
          BY <5>1
      <4>2. CASE failures # {}
        BY <1>1, <3>1, <4>2 DEF FlowTyped, Told
      <4> QED
        BY <4>1, <4>2
    <3> QED
      BY <2>1, <3>1, <3>3, <3>4 DEF Told
  <2>2. CASE phase = "reset"
    <3>1. UNCHANGED <<phase, problems, failures>>
      BY <2>2, RaiseGoes
    <3> QED
      BY <1>1, <3>1 DEF FlowTyped, Told
  <2>3. CASE phase \notin {"undo", "reset"}
    <3>1. phase \notin {"undo", "reset", "idle"}
      BY <2>3, HeadOf
    <3>2. failures = {} /\ failures' = failures
      BY <1>1, <2>3, <3>1, RaiseGoes DEF FlowTyped, Told, Phases
    <3> QED
      BY <3>2 DEF Told
  <2> QED
    BY <2>1, <2>2, <2>3
<1> QED
  BY <1>3, <1>4, <1>5, <1>6, <1>7, <1>8 DEF FlowTyped

LEMMA NextFlow ==
  ASSUME Typed, Shape, Next
  PROVE  FlowTyped'
<1>t. FlowTyped /\ errors \in BOOLEAN
  BY DEF Typed, NvdaTypeOK
<1>a. ASSUME UNCHANGED <<phase, shared, problems, failures, left>>, open' \in BOOLEAN, block' \in BOOLEAN, unwinding' \in BOOLEAN
      PROVE  FlowTyped'
  BY <1>t, <1>a DEF FlowTyped, Told
<1>b. ASSUME Continue PROVE FlowTyped'
  BY <1>b, <1>a, <1>t DEF Continue, Then, FlowTyped
<1>k. \A K : Now(K) => todo # <<>>
  BY DEF Now
<1>1. CASE Unreachable \/ TimesOut \/ Rejected \/ Raises
  BY <1>1, <1>k, RaiseTypes DEF Unreachable, TimesOut, Rejected, Raises
<1>2. CASE Called \/ Verified \/ Relaunched \/ IdleAnswered \/ Cleared \/ LogChecked \/ Remembered \/ Queued
             \/ Taken \/ NoDialogCame
  <2>1. todo # <<>> /\ (Continue \/ Raise)
    BY <1>2, <1>k
    DEF Called, Verified, Relaunched, IdleAnswered, Cleared, LogChecked, Remembered, Queued, Taken, NoDialogCame
  <2> QED
    BY <2>1, <1>b, RaiseTypes
<1>3. CASE Undo \/ UndoRemove
  <2>1. UNCHANGED <<phase, shared, problems, failures, left, open, block, unwinding>>
    BY <1>3 DEF Undo, UndoRemove, Continue, Then
  <2> QED
    BY <2>1, <1>a, <1>t DEF FlowTyped
<1>4. CASE Opened
  <2>1. UNCHANGED <<phase, shared, problems, failures, left, unwinding>> /\ open' = TRUE
          /\ block' = (block \/ Now({"entered"}))
    BY <1>4 DEF Opened, Then
  <2>2. block' \in BOOLEAN
    BY <2>1, <1>t DEF FlowTyped
  <2> QED
    BY <2>1, <2>2, <1>a, <1>t DEF FlowTyped
<1>5. CASE Sent
  <2>1. UNCHANGED <<phase, shared, problems, failures, left, block, unwinding>> /\ open' = (open /\ phase # "body")
    BY <1>5 DEF Sent, Then
  <2>2. open' \in BOOLEAN
    BY <2>1, <1>t DEF FlowTyped
  <2> QED
    BY <2>1, <2>2, <1>a, <1>t DEF FlowTyped
<1>6. CASE StartTest
  <2>1. phase' \in Phases /\ (\A p \in problems' : p[1] \in Phases)
    <3>1. \/ phase' = "shared" /\ problems' = {}
          \/ phase' = "reset" /\ problems' = {Problem("setup")}
          \/ phase' = "setup" /\ problems' = {}
      BY <1>6, StartGoes
    <3>2. Problem("setup")[1] = "setup"
      BY DEF Problem
    <3> QED
      BY <3>1, <3>2 DEF Phases
  <2>2. shared' = shared /\ open' = FALSE /\ block' = FALSE /\ unwinding' = FALSE
          /\ left' = [open |-> FALSE, errors |-> FALSE] /\ failures' = {}
    BY <1>6 DEF StartTest
  <2> QED
    BY <2>1, <2>2, <1>t DEF FlowTyped, Told
<1>7. CASE Step
  BY <1>7, <1>a, <1>t DEF Step, FlowTyped
<1>8. CASE LeaveBlock
  BY <1>8, <1>a, <1>t DEF LeaveBlock, FlowTyped
<1>9. CASE BodyEnds
  <2>1. /\ phase' = "log" /\ UNCHANGED <<open, block, unwinding, shared>>
        /\ left' = [open |-> open, errors |-> errors]
        /\ (problems' = problems \cup {Problem(phase)} \/ problems' = problems)
        /\ phase = "body" /\ failures' = failures
    BY <1>9 DEF BodyEnds, Finish, Stages
  <2>2. \A p \in problems' : p[1] \in Phases
    BY <2>1, <1>t DEF FlowTyped, Problem
  <2>3. failures = {}
    BY <2>1, <1>t DEF FlowTyped, Told
  <2> QED
    BY <2>1, <2>2, <2>3, <1>t DEF FlowTyped, Phases, Told
<1>10. CASE Proceed
  <2>1. UNCHANGED <<open, block, unwinding, problems, failures, left>>
    BY <1>10 DEF Proceed
  <2>2. phase' \in Phases /\ shared' \in {"unset", "ready", "failed"}
    BY <1>10, <1>t, ProceedGoes DEF Phases, FlowTyped
  <2>3. Told'
    BY <2>1, <1>10, <1>t, ProceedGoes DEF FlowTyped, Told
  <2> QED
    BY <2>1, <2>2, <2>3, <1>t DEF FlowTyped
<1>11. CASE NvdaRuns \/ NvdaDies \/ SessionOver
  <2>1. UNCHANGED <<phase, shared, problems, failures, left, open, block, unwinding>>
    BY <1>11 DEF NvdaRuns, NvdaDies, SessionOver, flow, vars
  <2> QED
    BY <2>1, <1>a, <1>t DEF FlowTyped
<1> QED
  BY <1>1, <1>2, <1>3, <1>4, <1>5, <1>6, <1>7, <1>8, <1>9, <1>10, <1>11 DEF Next

LEMMA NextRest ==
  ASSUME Typed, Shape, Next
  PROVE  RestTyped' /\ faults' \in 0 .. MaxFaults
<1>t. RestTyped /\ faults \in 0 .. MaxFaults /\ MaxFaults \in Nat /\ MaxTests \in Nat /\ MaxSteps \in Nat
  BY SessionAssumption DEF Typed
<1>a. ASSUME UNCHANGED rest PROVE RestTyped'
  BY <1>a, <1>t DEF rest, RestTyped
<1>f. (Fault \/ UNCHANGED faults) => faults' \in 0 .. MaxFaults
  BY <1>t DEF Fault
<1>1. CASE Unreachable \/ TimesOut \/ Rejected \/ Raises \/ Verified \/ Undo \/ UndoRemove \/ Relaunched \/ IdleAnswered
             \/ Cleared \/ LogChecked \/ Remembered \/ Queued \/ NoDialogCame \/ Opened \/ Sent
  <2>1. UNCHANGED rest /\ (Fault \/ UNCHANGED faults)
    BY <1>1 DEF Unreachable, TimesOut, Rejected, Raises, Verified, Undo, UndoRemove, Relaunched, IdleAnswered,
             Cleared, LogChecked, Remembered, Queued, NoDialogCame, Opened, Sent
  <2> QED
    BY <2>1, <1>a, <1>f
<1>2. CASE Called
  <2>1. UNCHANGED <<tests, steps, uses, initial, last, paired, touched, faults>>
    BY <1>2 DEF Called
  <2>2. \/ UNCHANGED <<installed, recorded>>
        \/ /\ Now({"install"}) /\ installed' = Append(installed, Subject)
           /\ recorded' = recorded \cup {Subject}
    BY <1>2 DEF Called
  <2>3. Now({"install"}) => Subject \in Addons
    BY HeadOf, JobOf DEF Now, Subject
  <2>4. installed' \in Seq(Addons) /\ recorded' \subseteq Addons
    BY <1>t, <2>2, <2>3, AppendOf DEF RestTyped
  <2> QED
    BY <1>t, <2>1, <2>4 DEF RestTyped
<1>3. CASE Taken
  <2>1. UNCHANGED <<tests, steps, uses, installed, last, recorded, touched, faults>>
    BY <1>3 DEF Taken
  <2>2. \/ UNCHANGED <<initial, paired>>
        \/ initial' = Initial /\ paired' = (baseline # Unset)
    BY <1>3 DEF Taken
  <2>3. Initial \in {Unset, Main} \cup Nat
    BY DEF Initial, Typed, NvdaTypeOK
  <2>4. paired' \in BOOLEAN /\ initial' \in {Unset, Main} \cup Nat
    BY <1>t, <2>2, <2>3 DEF RestTyped
  <2> QED
    BY <1>t, <2>1, <2>4 DEF RestTyped
<1>4. CASE StartTest
  <2>1. /\ tests < MaxTests /\ tests' = tests + 1 /\ steps' = 0 /\ uses' \in BOOLEAN /\ installed' = <<>>
        /\ initial' = Unset /\ paired' = FALSE /\ recorded' = {} /\ UNCHANGED <<last, touched, faults>>
    BY <1>4 DEF StartTest
  <2>2. <<>> \in Seq(Addons)
    OBVIOUS
  <2>3. tests' \in 0 .. MaxTests /\ steps' \in 0 .. MaxSteps
    BY <1>t, <2>1 DEF RestTyped
  <2>4. installed' \in Seq(Addons) /\ recorded' \subseteq Addons /\ touched' \subseteq Addons
    BY <1>t, <2>1, <2>2 DEF RestTyped
  <2>5. last' \in Nat /\ initial' \in {Unset, Main} \cup Nat /\ uses' \in BOOLEAN /\ paired' \in BOOLEAN
    BY <1>t, <2>1 DEF RestTyped
  <2> QED
    BY <1>t, <2>1, <2>3, <2>4, <2>5 DEF RestTyped
<1>5. CASE Step
  <2>1. /\ steps < MaxSteps /\ steps' = steps + 1 /\ (last' = last \/ last' = last + 1)
        /\ touched' = touched \cup {a \in Addons : todo' \in {Adding(a), Removing(a)}}
        /\ UNCHANGED <<faults, tests, uses, installed, initial, paired, recorded>>
    BY <1>5 DEF Step
  <2>2. touched' \subseteq Addons
    BY <1>t, <2>1 DEF RestTyped
  <2>3. steps' \in 0 .. MaxSteps /\ last' \in Nat
    BY <1>t, <2>1 DEF RestTyped
  <2> QED
    BY <1>t, <2>1, <2>2, <2>3 DEF RestTyped
<1>6. CASE LeaveBlock \/ BodyEnds \/ Proceed \/ NvdaRuns \/ NvdaDies \/ SessionOver
  <2>1. UNCHANGED rest /\ (Fault \/ UNCHANGED faults)
    BY <1>6 DEF LeaveBlock, BodyEnds, Proceed, NvdaRuns, NvdaDies, SessionOver, vars
  <2> QED
    BY <2>1, <1>a, <1>f
<1> QED
  BY <1>1, <1>2, <1>3, <1>4, <1>5, <1>6 DEF Next

LEMMA TypedNext ==
  ASSUME Typed, Shape, Looking, Next
  PROVE  Typed'
<1>1. NvdaTypeOK' /\ queue' \in Seq(QueuedJobs)
  BY NextNvda, NvdaTypes
<1>2. FlowTyped' /\ RestTyped' /\ faults' \in 0 .. MaxFaults
  BY NextFlow, NextRest
<1>3. todo' \in Seq(Calls)
  BY NextMoves DEF Moved
<1> QED
  BY <1>1, <1>2, <1>3 DEF Typed

-------------------------------------------------------------------------------
(* The steps of the host.                                                      *)

\* A call that is over, whatever it did to NVDA.
CallOver ==
  /\ todo # <<>> /\ UNCHANGED <<tests, steps, uses, last, touched>>
  /\ Continue \/ Raise \/ Undo \/ UndoRemove \/ Opened \/ Sent
  /\ \/ UNCHANGED <<installed, recorded>>
     \/ /\ phase = "body" /\ Head(todo)[1] = "install" /\ Continue /\ Answer(Head(todo), TRUE)
        /\ installed' = Append(installed, Subject) /\ recorded' = recorded \cup {Subject}

HostMoves ==
  \/ CallOver
  \/ StartTest \/ Step \/ LeaveBlock \/ BodyEnds \/ Proceed
  \/ (NvdaRuns \/ NvdaDies \/ SessionOver) /\ UNCHANGED <<flow, rest>>

LEMMA NextHost == Next => HostMoves
<1> SUFFICES ASSUME Next PROVE HostMoves
  OBVIOUS
<1>k. \A K : Now(K) => todo # <<>> /\ Head(todo)[1] \in K
  BY DEF Now
<1>1. CASE Unreachable \/ TimesOut \/ Rejected \/ Raises
  <2>1. todo # <<>> /\ Raise /\ UNCHANGED rest
    BY <1>1, <1>k DEF Unreachable, TimesOut, Rejected, Raises
  <2> QED
    BY <2>1 DEF HostMoves, CallOver, rest
<1>2. CASE Verified \/ Relaunched \/ IdleAnswered \/ Cleared \/ LogChecked \/ Remembered \/ Queued \/ NoDialogCame
  <2>1. todo # <<>> /\ (Continue \/ Raise) /\ UNCHANGED rest
    BY <1>2, <1>k DEF Verified, Relaunched, IdleAnswered, Cleared, LogChecked, Remembered, Queued, NoDialogCame
  <2> QED
    BY <2>1 DEF HostMoves, CallOver, rest
<1>3. CASE Undo \/ UndoRemove \/ Opened \/ Sent
  <2>1. todo # <<>> /\ UNCHANGED rest
    BY <1>3, <1>k DEF Undo, UndoRemove, Opened, Sent
  <2> QED
    BY <1>3, <2>1 DEF HostMoves, CallOver, rest
<1>4. CASE Called
  <2>1. todo # <<>> /\ UNCHANGED <<tests, steps, uses, last, touched>>
    BY <1>4, <1>k DEF Called
  <2>2. PICK ok \in BOOLEAN :
          /\ Answer(Head(todo), ok)
          /\ IF ok THEN Continue ELSE Raise
          /\ IF ok /\ phase = "body" /\ Now({"install"})
             THEN installed' = Append(installed, Subject) /\ recorded' = recorded \cup {Subject}
             ELSE UNCHANGED <<installed, recorded>>
    BY <1>4 DEF Called
  <2>3. CASE ok /\ phase = "body" /\ Now({"install"})
    <3>1. Head(todo)[1] = "install" /\ ok = TRUE
      BY <2>3, <1>k
    <3>2. installed' = Append(installed, Subject) /\ recorded' = recorded \cup {Subject} /\ Continue
      BY <2>2, <2>3
    <3>3. Answer(Head(todo), TRUE)
      BY <2>2, <3>1
    <3> QED
      BY <2>1, <2>3, <3>1, <3>2, <3>3 DEF HostMoves, CallOver
  <2>4. CASE ~(ok /\ phase = "body" /\ Now({"install"}))
    BY <2>1, <2>2, <2>4 DEF HostMoves, CallOver
  <2> QED
    BY <2>3, <2>4
<1>5. CASE Taken
  <2>1. todo # <<>> /\ (Continue \/ Raise) /\ UNCHANGED <<tests, steps, uses, last, touched, installed, recorded>>
    BY <1>5, <1>k DEF Taken
  <2> QED
    BY <2>1 DEF HostMoves, CallOver
<1>6. CASE StartTest \/ Step \/ LeaveBlock \/ BodyEnds \/ Proceed
  BY <1>6 DEF HostMoves
<1>7. CASE NvdaRuns \/ NvdaDies \/ SessionOver
  BY <1>7 DEF NvdaRuns, NvdaDies, SessionOver, HostMoves, vars
<1> QED
  BY <1>1, <1>2, <1>3, <1>4, <1>5, <1>6, <1>7 DEF Next

\* What no call outside a test's body changes.
LEMMA CallStays ==
  ASSUME Typed, Shape, CallOver, phase # "body"
  PROVE  /\ UNCHANGED <<block, unwinding, installed, recorded, steps, uses, last, touched>>
         /\ open' = open \/ (phase = "leftover" /\ open' = FALSE)
         /\ phase' = phase \/ (phase = "setup" /\ phase' = "log") \/ (phase = "shared" /\ phase' = "reset")
         /\ left' = left \/ (phase = "setup" /\ phase' = "log")
<1>1. todo # <<>> /\ UNCHANGED <<installed, recorded, steps, uses, last, touched>>
  BY DEF CallOver
<1>2. CASE Continue
  BY <1>1, <1>2 DEF Continue, Then
<1>3. CASE Raise
  BY <1>1, <1>3, RaiseGoes, HeadOf DEF Phases
<1>4. CASE Undo \/ UndoRemove
  BY <1>1, <1>4 DEF Undo, UndoRemove, Continue, Then
<1>5. CASE Opened
  <2>1. phase = "body"
    BY <1>5, KindTells DEF Opened, Now
  <2> QED
    BY <2>1
<1>6. CASE Sent
  <2>1. UNCHANGED <<block, unwinding, phase, left>> /\ open' = (open /\ phase # "body") /\ open \in BOOLEAN
    BY <1>6 DEF Sent, Then, Typed, FlowTyped
  <2> QED
    BY <1>1, <2>1
<1> QED
  BY <1>2, <1>3, <1>4, <1>5, <1>6 DEF CallOver

\* What every call leaves as it is in a test's body.
LEMMA BodyStays ==
  ASSUME Typed, Shape, CallOver, phase = "body"
  PROVE  UNCHANGED <<phase, shared, problems, failures, left, steps, uses, last, touched>>
<1>1. todo # <<>> /\ UNCHANGED <<steps, uses, last, touched>>
  BY DEF CallOver
<1>2. CASE Raise
  BY <1>1, <1>2, RaiseGoes
<1>3. CASE Continue \/ Undo \/ UndoRemove \/ Opened \/ Sent
  BY <1>1, <1>3 DEF Undo, UndoRemove, Opened, Sent, Continue, Then
<1> QED
  BY <1>2, <1>3 DEF CallOver

\* What was reported of a test stays reported.
LEMMA ProblemsStay ==
  ASSUME Typed, Shape, CallOver, phase # "shared"
  PROVE  problems \subseteq problems' /\ failures \subseteq failures'
<1>1. todo # <<>>
  BY DEF CallOver
<1>2. CASE Raise
  BY <1>1, <1>2, RaiseGoes, HeadOf DEF Phases
<1>3. CASE Continue \/ Undo \/ UndoRemove \/ Opened \/ Sent
  BY <1>3 DEF Undo, UndoRemove, Opened, Sent, Continue, Then
<1> QED
  BY <1>2, <1>3 DEF CallOver

-------------------------------------------------------------------------------
(* A test begins with a clean NVDA.                                            *)

\* NVDA that died or was started is clean.
LEMMA ForgottenIsClean == Forgotten => Clean'
  BY SectionAssumption DEF Forgotten, Clean, Default

\* The last call of reset that was answered leaves it clean.
LEMMA RestoredIsClean ==
  ASSUME Typed, NEW j, j[1] = "restore", Answer(j, TRUE)
  PROVE  Clean'
<1>1. Restore(TRUE) /\ modal' = modal /\ modal = NoDialog /\ queue' = <<>>
  <2>1. Does(j, TRUE, FALSE) /\ modal = NoDialog /\ queue' = <<>>
    BY DEF Answer
  <2>2. \A ok, late \in BOOLEAN : Does(j, ok, late) => Restore(ok) /\ modal' = modal
    BY DoesWhat
  <2> QED
    BY <2>1, <2>2
<1>2. \A s \in Sections : conf'[s] = Restored(s)
  BY <1>1 DEF Restore
<1>3. conf \in [Sections -> {"absent", "base", "changed", "empty"}]
  BY DEF Typed, NvdaTypeOK
<1> QED
  BY <1>1, <1>2, <1>3 DEF Clean, Restored

\* Nothing but a death changes a clean NVDA by itself.
LEMMA CleanStays ==
  ASSUME Clean, NvdaRuns \/ NvdaDies \/ SessionOver
  PROVE  Clean'
<1>1. CASE NvdaRuns
  BY <1>1 DEF NvdaRuns, RunJob, Clean
<1>2. CASE NvdaDies
  BY <1>2, ForgottenIsClean DEF NvdaDies, Die
<1>3. CASE SessionOver
  BY <1>3 DEF SessionOver, vars, nvda, Clean
<1> QED
  BY <1>1, <1>2, <1>3

\* The fixture nvda ends its set-up with an answered config.restore, or not at all.
LEMMA SetUpEnds ==
  ASSUME Typed, Shape, Beginning, Next, phase' = "setup", todo' = <<>>
  PROVE  Clean'
<1>k. \A K : Now(K) => todo # <<>> /\ Head(todo)[1] \in K
  BY DEF Now
<1>a. ASSUME todo # <<>>, Raise PROVE FALSE
  BY <1>a, RaiseGoes, HeadOf, Lists DEF Phases
<1>b. ASSUME todo # <<>>, Head(todo)[1] \notin {"restore", "raise"}, phase' = phase, todo' = Tail(todo) PROVE FALSE
  BY <1>b, HeadOf, DoOf, Lists
<1>1. CASE Unreachable \/ TimesOut \/ Rejected \/ Raises
  BY <1>1, <1>k, <1>a DEF Unreachable, TimesOut, Rejected, Raises
<1>2. CASE Called
  <2>1. PICK ok \in BOOLEAN : Answer(Head(todo), ok) /\ IF ok THEN Continue ELSE Raise
    BY <1>2 DEF Called
  <2>2. todo # <<>> /\ Head(todo)[1] \in {"press", "assign", "restore", "install", "remove"}
    BY <1>2, <1>k DEF Called
  <2>3. ok = TRUE /\ Continue
    BY <2>1, <2>2, <1>a
  <2>4. Head(todo)[1] = "restore"
    BY <2>2, <2>3, <1>b DEF Continue, Then
  <2> QED
    BY <2>1, <2>3, <2>4, RestoredIsClean
<1>3. CASE Verified \/ Relaunched \/ IdleAnswered \/ Cleared \/ LogChecked \/ Remembered \/ Queued \/ NoDialogCame
            \/ Opened \/ Sent \/ Taken
  <2>1. \/ Now({"enabled", "gone"}) \/ Now({"relaunch"}) \/ Now({"idle"}) \/ Now({"clear"}) \/ Now({"logcheck"})
        \/ Now({"remember"}) \/ Now({"queue"}) \/ Now({"look"}) \/ Now({"opened", "entered"}) \/ Now({"take"})
    BY <1>3 DEF Verified, Relaunched, IdleAnswered, Cleared, LogChecked, Remembered, Queued, NoDialogCame,
                Opened, Sent, Taken
  <2>2. todo # <<>> /\ Head(todo)[1] \notin {"restore", "raise"}
    BY <2>1, <1>k
  <2>3. (phase' = phase /\ todo' = Tail(todo)) \/ Raise
    BY <1>3 DEF Verified, Relaunched, IdleAnswered, Cleared, LogChecked, Remembered, Queued, NoDialogCame,
                Opened, Sent, Taken, Continue, Then
  <2> QED
    BY <2>2, <2>3, <1>a, <1>b
<1>4. CASE Undo \/ UndoRemove
  <2>1. phase = "undo" /\ phase' = phase
    BY <1>4, KindTells DEF Undo, UndoRemove, Now, Continue, Then
  <2> QED
    BY <2>1
<1>5. CASE StartTest
  BY <1>5, StartGoes, Lists
<1>6. CASE Step \/ LeaveBlock \/ BodyEnds
  BY <1>6 DEF Step, LeaveBlock, BodyEnds, Ready, Finish, Stages
<1>7. CASE Proceed
  BY <1>7, ProceedGoes, Lists
<1>8. CASE NvdaRuns \/ NvdaDies \/ SessionOver
  <2>1. phase = "setup" /\ todo = <<>>
    BY <1>8 DEF NvdaRuns, NvdaDies, SessionOver, flow, vars
  <2> QED
    BY <1>8, <2>1, CleanStays DEF Beginning
<1> QED
  BY <1>1, <1>2, <1>3, <1>4, <1>5, <1>6, <1>7, <1>8 DEF Next

LEMMA BeginningNext ==
  ASSUME Typed, Shape, Beginning, Next
  PROVE  Beginning'
<1>h. HostMoves
  BY NextHost
<1>1. ASSUME phase' \in {"shared", "setup"}
      PROVE  /\ ~open' /\ ~block' /\ ~unwinding' /\ steps' = 0 /\ ~left'.open /\ ~left'.errors
             /\ phase' = "shared" => recorded' = {}
  <2>1. CASE CallOver
    <3>1. phase # "body"
      BY <1>1, <2>1, BodyStays
    <3>2. phase' = phase /\ UNCHANGED <<open, block, unwinding, steps, left, recorded>>
      BY <1>1, <2>1, <3>1, CallStays
    <3> QED
      BY <1>1, <3>2 DEF Beginning
  <2>2. CASE StartTest
    BY <2>2 DEF StartTest
  <2>3. CASE Step \/ LeaveBlock \/ BodyEnds
    BY <1>1, <2>3 DEF Step, LeaveBlock, BodyEnds, Ready, Finish, Stages
  <2>4. CASE Proceed
    <3>1. phase = "shared" /\ phase' = "setup"
      BY <1>1, <2>4, ProceedGoes
    <3>2. UNCHANGED <<open, block, unwinding, steps, left>>
      BY <2>4 DEF Proceed, rest
    <3> QED
      BY <3>1, <3>2 DEF Beginning
  <2>5. CASE UNCHANGED <<flow, rest>>
    BY <1>1, <2>5 DEF flow, rest, Beginning
  <2> QED
    BY <1>h, <2>1, <2>2, <2>3, <2>4, <2>5 DEF HostMoves
<1>2. ASSUME phase' = "setup", todo' = <<>> PROVE Clean'
  BY <1>2, SetUpEnds
<1>3. ASSUME phase' = "body", steps' = 0
      PROVE  todo' = <<>> /\ ~block' /\ ~unwinding' /\ ~open' /\ Clean'
  <2>1. CASE CallOver
    <3>1. todo # <<>>
      BY <2>1 DEF CallOver
    <3>2. CASE phase = "body"
      BY <1>3, <2>1, <3>1, <3>2, BodyStays DEF Beginning
    <3>3. CASE phase # "body"
      BY <1>3, <2>1, <3>3, CallStays
    <3> QED
      BY <3>2, <3>3
  <2>2. CASE StartTest
    BY <1>3, <2>2, StartGoes
  <2>3. CASE Step
    <3>1. steps \in Nat /\ steps' = steps + 1
      BY <2>3, SessionAssumption DEF Step, Typed, RestTyped
    <3> QED
      BY <1>3, <3>1
  <2>4. CASE LeaveBlock
    <3>1. phase = "body" /\ steps = 0 /\ block
      BY <1>3, <2>4 DEF LeaveBlock, Ready, rest
    <3> QED
      BY <3>1 DEF Beginning
  <2>5. CASE BodyEnds
    BY <1>3, <2>5 DEF BodyEnds, Finish, Stages
  <2>6. CASE Proceed
    <3>1. phase = "setup" /\ todo = <<>> /\ todo' = <<>>
      BY <1>3, <2>6, ProceedGoes DEF Proceed
    <3>2. UNCHANGED <<open, block, unwinding, nvda>>
      BY <2>6 DEF Proceed
    <3>3. Clean /\ ~open /\ ~block /\ ~unwinding
      BY <3>1 DEF Beginning
    <3>4. Clean'
      BY <3>2, <3>3 DEF Clean, nvda
    <3> QED
      BY <3>1, <3>2, <3>3, <3>4
  <2>7. CASE NvdaRuns \/ NvdaDies \/ SessionOver
    <3>1. UNCHANGED <<phase, steps, todo, block, unwinding, open>>
      BY <2>7 DEF NvdaRuns, NvdaDies, SessionOver, flow, rest, vars
    <3>2. todo = <<>> /\ ~block /\ ~unwinding /\ ~open /\ Clean
      BY <1>3, <3>1 DEF Beginning
    <3> QED
      BY <2>7, <3>1, <3>2, CleanStays
  <2>8. ASSUME todo = <<>> PROVE \/ StartTest \/ Step \/ LeaveBlock \/ BodyEnds \/ Proceed
                                 \/ NvdaRuns \/ NvdaDies \/ SessionOver
    BY <2>8 DEF Next, Unreachable, TimesOut, Called, Verified, Undo, UndoRemove, Relaunched, IdleAnswered,
         Cleared, LogChecked, Remembered, Queued, Opened, Taken, Sent, Rejected, NoDialogCame, Raises, Now
  <2>9. CASE todo # <<>> /\ UNCHANGED <<flow, rest>>
    BY <1>3, <2>9 DEF flow, rest, Beginning
  <2> QED
    BY <1>h, <2>1, <2>2, <2>3, <2>4, <2>5, <2>6, <2>7, <2>8, <2>9 DEF HostMoves
<1> QED
  BY <1>1, <1>2, <1>3 DEF Beginning

-------------------------------------------------------------------------------
(* The dialog a test left open.                                                *)

\* Without a call that queues a scenario no dialog comes up.
LEMMA QuietStays ==
  ASSUME Typed, Quiet, NvdaMoves, ~Now({"queue"})
  PROVE  Quiet'
<1>1. queue \in Seq(QueuedJobs) /\ (todo # <<>> => Head(todo) \in Calls)
  BY TailOf DEF Typed
<1>2. \A j \in Calls : j[1] # "scenario"
  BY JobOf
<1>3. CASE UNCHANGED nvda
  BY <1>3 DEF nvda, Quiet
<1>4. ASSUME todo # <<>>, NEW ok \in BOOLEAN, Answer(Head(todo), ok) PROVE Quiet'
  <2>1. Does(Head(todo), ok, FALSE) /\ queue' = queue
    BY <1>4 DEF Answer
  <2>2. modal' = modal
    BY <1>1, <1>2, <1>4, <2>1, DoesWhat
  <2> QED
    BY <2>1, <2>2 DEF Quiet
<1>5. CASE todo # <<>> /\ TimeOut(Head(todo))
  <2>1. modal' = modal /\ (queue' = queue \/ queue' = Append(queue, Head(todo)))
    BY <1>5 DEF TimeOut
  <2>2. Head(todo)[1] # "scenario"
    BY <1>1, <1>2, <1>5
  <2>3. CASE queue' = Append(queue, Head(todo))
    <3>1. \A i \in DOMAIN queue' : queue'[i] = Head(todo) \/ (i \in DOMAIN queue /\ queue'[i] = queue[i])
      BY <1>1, <2>3, AppendProperties
    <3> QED
      BY <2>1, <2>2, <3>1 DEF Quiet
  <2> QED
    BY <2>1, <2>3 DEF Quiet
<1>6. CASE RunJob
  <2>1. queue # <<>> /\ queue' = Tail(queue) /\ \E ok \in BOOLEAN : Does(Head(queue), ok, TRUE)
    BY <1>6 DEF RunJob
  <2>2. /\ Head(queue) = queue[1] /\ 1 \in DOMAIN queue
        /\ \A i \in DOMAIN Tail(queue) : i + 1 \in DOMAIN queue /\ Tail(queue)[i] = queue[i + 1]
    BY <1>1, <2>1, TailOf
  <2>3. Head(queue)[1] # "scenario"
    BY <2>2 DEF Quiet
  <2>4. modal' = modal
    BY <2>1, <2>3, DoesWhat
  <2> QED
    BY <2>1, <2>2, <2>4 DEF Quiet
<1>7. CASE Relaunch \/ Die
  BY <1>7 DEF Relaunch, Die, Forgotten, Quiet
<1>8. CASE ClearLog \/ RememberBaseline \/ TakeBaseline \/ SendGesture(initial)
  BY <1>8 DEF ClearLog, RememberBaseline, TakeBaseline, SendGesture, Quiet
<1> QED
  BY <1>3, <1>4, <1>5, <1>6, <1>7, <1>8 DEF NvdaMoves

\* close_leftover ends with a raise, when the dialog is gone.
LEMMA LeftoverEnds ==
  ASSUME Typed, Shape, LeftOver, Next, phase = "leftover", phase' = "leftover", left.open, left' = left
  PROVE  /\ todo' = <<>> => Reported'
         /\ todo' = RaiseOnly => modal' = NoDialog /\ queue' = <<>>
<1>k. \A K : Now(K) => todo # <<>> /\ Head(todo)[1] \in K
  BY DEF Now
<1>d. /\ todo = <<>> => Reported
      /\ todo = RaiseOnly => modal = NoDialog /\ queue = <<>>
  BY DEF LeftOver
<1>l. RelaunchRaise # <<>> /\ RelaunchRaise # RaiseOnly /\ LookIdleRaise # RaiseOnly /\ IdleRaise # RaiseOnly
  BY Lists, DoOf
<1>r. ASSUME todo # <<>>, Raise, todo = RaiseOnly => UNCHANGED nvda, todo = RelaunchRaise => Forgotten
      PROVE  /\ todo' = <<>> => Reported'
             /\ todo' # RaiseOnly
  <2>1. \/ todo' = RelaunchRaise /\ UNCHANGED <<open, problems>>
        \/ /\ todo' = <<>> /\ open' = FALSE /\ problems' = problems \cup {Problem("leftover")}
           /\ todo \in {RaiseOnly, RelaunchRaise}
    BY <1>r, RaiseGoes
  <2>2. todo' # RaiseOnly
    BY <2>1, <1>l, Lists
  <2>3. ASSUME todo' = <<>> PROVE Reported'
    <3>1. open' = FALSE /\ problems' = problems \cup {Problem("leftover")} /\ todo \in {RaiseOnly, RelaunchRaise}
      BY <2>1, <2>3, <1>l
    <3>2. Quiet'
      BY <3>1, <1>r, <1>d DEF Quiet, nvda, Forgotten
    <3> QED
      BY <3>1, <3>2 DEF Reported, Problem
  <2> QED
    BY <2>2, <2>3
<1>1. CASE Unreachable \/ TimesOut \/ Rejected
  <2>1. todo # <<>> /\ Raise /\ Head(todo)[1] \notin {"raise", "relaunch"}
    BY <1>1, <1>k DEF Unreachable, TimesOut, Rejected, Now, Waiting
  <2>2. todo # RaiseOnly /\ todo # RelaunchRaise
    BY <2>1, Lists, DoOf
  <2> QED
    BY <2>1, <2>2, <1>r
<1>2. CASE Raises
  <2>1. todo # <<>> /\ Raise /\ Head(todo)[1] = "raise" /\ UNCHANGED nvda
    BY <1>2, <1>k DEF Raises
  <2>2. todo # RelaunchRaise
    BY <2>1, Lists, DoOf
  <2> QED
    BY <2>1, <2>2, <1>r
<1>3. CASE Relaunched
  <2>1. todo # <<>> /\ Head(todo)[1] = "relaunch" /\ Forgotten /\ (Continue \/ Raise)
    BY <1>3, <1>k DEF Relaunched, Relaunch, Die
  <2>2. todo # RaiseOnly /\ todo = RelaunchRaise
    BY <2>1, HeadOf, Lists, DoOf
  <2>3. CASE Continue
    BY <2>1, <2>2, <2>3, Lists DEF Continue, Then, Forgotten
  <2> QED
    BY <2>1, <2>2, <2>3, <1>r
<1>4. CASE IdleAnswered
  <2>1. todo # <<>> /\ Head(todo)[1] = "idle" /\ Answer(Head(todo), TRUE) /\ (Continue \/ Raise)
    <3>1. Now({"idle"}) /\ Answer(Head(todo), TRUE) /\ (Continue \/ Raise)
      BY <1>4, Zenon DEF IdleAnswered
    <3>2. todo # <<>> /\ Head(todo)[1] = "idle"
      BY <3>1 DEF Now
    <3> QED
      BY <3>1, <3>2, Zenon
  <2>2. todo = IdleRaise
    BY <2>1, HeadOf, DoOf
  <2>3. todo # RaiseOnly /\ todo # RelaunchRaise
    BY <2>1, Lists, DoOf
  <2>4. CASE Continue
    <3>1. Does(Head(todo), TRUE, FALSE) /\ modal = NoDialog /\ queue' = <<>>
      BY <2>1 DEF Answer
    <3>2. \A ok, late \in BOOLEAN : Does(Head(todo), ok, late) => modal' = modal
      BY <2>1, DoesWhat
    <3> QED
      BY <2>2, <2>4, <3>1, <3>2, Lists DEF Continue, Then
  <2> QED
    BY <2>1, <2>3, <2>4, <1>r
<1>5. CASE Taken \/ Sent \/ NoDialogCame
  <2>1. todo # <<>> /\ Head(todo)[1] \in {"take", "look"} /\ todo' = Tail(todo)
    BY <1>5, <1>k DEF Taken, Sent, NoDialogCame, Continue, Then
  <2>2. todo \in {Leftover, LookIdleRaise}
    BY <2>1, HeadOf, DoOf
  <2> QED
    BY <2>1, <2>2, <1>l, Lists
<1>6. CASE Called \/ Verified \/ Undo \/ UndoRemove \/ Cleared \/ LogChecked \/ Remembered \/ Queued \/ Opened
  <2>1. \/ Now({"press", "assign", "restore", "install", "remove"}) \/ Now({"enabled", "gone"}) \/ Now({"undo"})
        \/ Now({"remove"}) \/ Now({"clear"}) \/ Now({"logcheck"}) \/ Now({"remember"}) \/ Now({"queue"})
        \/ Now({"opened", "entered"})
    BY <1>6 DEF Called, Verified, Undo, UndoRemove, Cleared, LogChecked, Remembered, Queued, Opened
  <2> QED
    BY <2>1, <1>k, KindTells
<1>7. CASE StartTest \/ Step \/ LeaveBlock \/ BodyEnds
  BY <1>7 DEF StartTest, Step, LeaveBlock, BodyEnds, Ready
<1>8. CASE Proceed
  BY <1>8, ProceedGoes
<1>9. CASE NvdaRuns \/ NvdaDies \/ SessionOver
  <2>1. UNCHANGED <<todo, open, problems>>
    BY <1>9 DEF NvdaRuns, NvdaDies, SessionOver, flow, vars
  <2>2. ASSUME todo = <<>> PROVE Reported'
    <3>1. Reported
      BY <2>2, <1>d
    <3>2. Quiet'
      BY <2>2, <3>1, NextNvda, QuietStays DEF Reported, Now
    <3> QED
      BY <2>1, <3>1, <3>2 DEF Reported, Problem
  <2>3. ASSUME todo = RaiseOnly PROVE modal' = NoDialog /\ queue' = <<>>
    BY <1>9, <2>3, <1>d
    DEF NvdaRuns, RunJob, NvdaDies, Die, Forgotten, SessionOver, vars, nvda
  <2> QED
    BY <2>1, <2>2, <2>3
<1> QED
  BY <1>1, <1>2, <1>3, <1>4, <1>5, <1>6, <1>7, <1>8, <1>9 DEF Next

LEMMA LeftOverNext ==
  ASSUME Typed, Shape, Beginning, LeftOver, Next
  PROVE  LeftOver'
<1>h. HostMoves
  BY NextHost
<1>1. ASSUME phase' = "log" PROVE left'.open = open'
  <2>1. CASE CallOver
    <3>1. phase # "body"
      BY <1>1, <2>1, BodyStays
    <3>2. CASE phase = "log"
      BY <1>1, <2>1, <3>1, <3>2, CallStays DEF LeftOver
    <3>3. CASE phase = "setup"
      <4>1. Raise
        BY <1>1, <2>1, <3>3, KindTells
        DEF CallOver, Continue, Then, Undo, UndoRemove, Opened, Sent
      <4>2. left' = [open |-> open, errors |-> errors] /\ open' = open
        BY <1>1, <2>1, <3>3, <4>1, RaiseGoes DEF CallOver
      <4> QED
        BY <4>2
    <3> QED
      BY <1>1, <2>1, <3>1, <3>2, <3>3, CallStays
  <2>2. CASE StartTest
    BY <1>1, <2>2, StartGoes
  <2>3. CASE Step \/ LeaveBlock
    BY <1>1, <2>3 DEF Step, LeaveBlock, Ready
  <2>4. CASE BodyEnds
    BY <2>4 DEF BodyEnds, Finish
  <2>5. CASE Proceed
    BY <1>1, <2>5, ProceedGoes
  <2>6. CASE UNCHANGED <<flow, rest>>
    BY <1>1, <2>6 DEF flow, LeftOver
  <2> QED
    BY <1>h, <2>1, <2>2, <2>3, <2>4, <2>5, <2>6 DEF HostMoves
<1>2. ASSUME phase' = "leftover", left'.open
      PROVE  /\ todo' = <<>> => Reported'
             /\ todo' = RaiseOnly => modal' = NoDialog /\ queue' = <<>>
  <2>1. CASE CallOver
    <3>1. phase = "leftover" /\ left' = left
      BY <1>2, <2>1, BodyStays, CallStays
    <3> QED
      BY <1>2, <3>1, LeftoverEnds
  <2>2. CASE StartTest
    BY <1>2, <2>2, StartGoes
  <2>3. CASE Step \/ LeaveBlock \/ BodyEnds
    BY <1>2, <2>3 DEF Step, LeaveBlock, Ready, BodyEnds, Finish, Stages
  <2>4. CASE Proceed
    <3>1. phase = "log" /\ todo' = (IF open THEN Leftover ELSE <<>>) /\ left' = left
      BY <1>2, <2>4, ProceedGoes DEF Proceed
    <3>2. open
      BY <1>2, <3>1 DEF LeftOver
    <3>3. Leftover # <<>> /\ Leftover # RaiseOnly
      BY Lists, DoOf
    <3> QED
      BY <3>1, <3>2, <3>3
  <2>5. CASE UNCHANGED <<flow, rest>>
    <3>1. phase = "leftover" /\ left' = left
      BY <1>2, <2>5 DEF flow
    <3> QED
      BY <1>2, <3>1, LeftoverEnds
  <2> QED
    BY <1>h, <2>1, <2>2, <2>3, <2>4, <2>5 DEF HostMoves
<1>3. ASSUME phase' \in {"undo", "reset"}, left'.open PROVE Reported'
  <2>q. ASSUME Reported, phase # "body", problems \subseteq problems', open' = open PROVE Reported'
    <3>1. ~Now({"queue"})
      BY <2>q, KindTells DEF Now
    <3>2. Quiet'
      BY <2>q, <3>1, NextNvda, QuietStays DEF Reported
    <3> QED
      BY <2>q, <3>2 DEF Reported, Problem
  <2>1. CASE CallOver
    <3>1. phase # "body"
      BY <1>3, <2>1, BodyStays
    <3>2. phase \in {"undo", "reset"} /\ phase' = phase /\ left' = left /\ open' = open
      <4>1. CASE phase = "shared"
        BY <1>3, <2>1, <3>1, <4>1, CallStays DEF Beginning
      <4> QED
        BY <1>3, <2>1, <3>1, <4>1, CallStays
    <3>3. Reported
      BY <1>3, <3>2 DEF LeftOver
    <3>4. problems \subseteq problems'
      BY <2>1, <3>2, ProblemsStay
    <3> QED
      BY <3>2, <3>3, <3>4, <2>q
  <2>2. CASE StartTest
    BY <1>3, <2>2 DEF StartTest
  <2>3. CASE Step \/ LeaveBlock \/ BodyEnds
    BY <1>3, <2>3 DEF Step, LeaveBlock, Ready, BodyEnds, Finish, Stages
  <2>4. CASE Proceed
    <3>1. /\ phase = "leftover" \/ phase = "undo"
          /\ todo = <<>> /\ UNCHANGED <<left, open, problems>>
      BY <1>3, <2>4, ProceedGoes DEF Proceed
    <3>2. Reported
      BY <1>3, <3>1 DEF LeftOver
    <3> QED
      BY <3>1, <3>2, <2>q
  <2>5. CASE UNCHANGED <<flow, rest>>
    <3>1. UNCHANGED <<phase, left, open, problems>>
      BY <2>5 DEF flow
    <3>2. Reported
      BY <1>3, <3>1 DEF LeftOver
    <3> QED
      BY <1>3, <3>1, <3>2, <2>q
  <2> QED
    BY <1>h, <2>1, <2>2, <2>3, <2>4, <2>5 DEF HostMoves
<1> QED
  BY <1>1, <1>2, <1>3 DEF LeftOver

-------------------------------------------------------------------------------
(* Errors in the log.                                                          *)

\* Set-up fails with the log as the test would have left it, or with NVDA gone.
LEMMA SetUpFails ==
  ASSUME Typed, Shape, Next, CallOver, phase = "setup", phase' = "log"
  PROVE  /\ left'.errors = errors /\ todo' = StageCalls("log")
         /\ errors' = errors \/ ~up'
<1>k. \A K : Now(K) => todo # <<>> /\ Head(todo)[1] \in K
  BY DEF Now
<1>c. todo # <<>>
  BY DEF CallOver
<1>1. Raise
  <2>1. ~Undo /\ ~UndoRemove /\ ~Opened /\ ~Sent /\ ~Continue
    BY KindTells DEF Undo, UndoRemove, Opened, Sent, Now, Continue, Then
  <2> QED
    BY <2>1 DEF CallOver
<1>2. left' = [open |-> open, errors |-> errors] /\ todo' = StageCalls("log")
  BY <1>1, <1>c, RaiseGoes
<1>3. Head(todo)[1] \notin {"clear", "restore"}
  BY <1>1, <1>c, RaiseGoes DEF Raise, RaiseInReset, RaiseInShared, RaiseInBody, RaiseInTeardown, Then
<1>4. Head(todo)[1] \in {"raise", "relaunch"}
  <2>1. Head(todo) \in {Do("clear"), Do("restore"), Do("raise"), Do("relaunch")}
    BY <1>c, HeadOf
  <2> QED
    BY <1>3, <2>1, DoOf
<1>5. ASSUME Raises PROVE errors' = errors
  BY <1>5 DEF Raises, nvda
<1>6. ASSUME Relaunched PROVE ~up'
  BY <1>1, <1>6 DEF Relaunched, Continue, Then, Relaunch, Die
<1>7. ASSUME ~Raises, ~Relaunched PROVE FALSE
  <2>1. ~Now(Waiting) /\ ~Unreachable
    BY <1>4 DEF Now, Waiting, Unreachable
  <2>2. /\ ~Now({"press", "assign", "restore", "install", "remove"}) /\ ~Now({"enabled", "gone"}) /\ ~Now({"undo"})
        /\ ~Now({"remove"}) /\ ~Now({"clear"}) /\ ~Now({"logcheck"}) /\ ~Now({"remember"}) /\ ~Now({"queue"})
        /\ ~Now({"opened", "entered"}) /\ ~Now({"take"}) /\ ~Now({"look"}) /\ ~Now({"idle"})
    BY <1>4 DEF Now
  <2>3. \/ StartTest \/ Step \/ LeaveBlock \/ BodyEnds \/ Proceed \/ NvdaRuns \/ NvdaDies \/ SessionOver
    BY <1>7, <2>1, <2>2 DEF Next, TimesOut, Called, Verified, Undo, UndoRemove, IdleAnswered, Cleared, LogChecked,
         Remembered, Queued, Opened, Taken, Sent, Rejected, NoDialogCame
  <2> QED
    BY <2>3, <1>c DEF StartTest, Step, LeaveBlock, BodyEnds, Ready, Proceed, NvdaRuns, NvdaDies, SessionOver, flow, vars
<1> QED
  BY <1>2, <1>5, <1>6, <1>7

\* The log is asked for errors before anything else of the teardown.
LEMMA LogStage ==
  ASSUME Typed, Shape, Erring, Next, phase = "log", phase' = "log", left' = left, left.errors, FailOnLogErrors
  PROVE  Problem("log") \in problems' \/ (todo' = CheckOnly /\ (errors' \/ ~up'))
<1>e. Problem("log") \in problems \/ (todo = CheckOnly /\ (errors \/ ~up))
  BY DEF Erring
<1>k. \A K : Now(K) => todo # <<>> /\ Head(todo)[1] \in K
  BY DEF Now
<1>p. Problem("log")' = Problem("log")
  BY DEF Problem
<1>1. CASE todo # <<>> /\ Raise
  BY <1>1, RaiseGoes
<1>2. CASE NvdaRuns
  <2>1. UNCHANGED <<todo, problems, up>> /\ up
    BY <1>2 DEF NvdaRuns, flow, RunJob, Does
  <2>2. errors => errors'
    <3>1. errors \in BOOLEAN /\ \E ok \in BOOLEAN : Does(Head(queue), ok, TRUE)
      BY <1>2 DEF NvdaRuns, RunJob, Typed, NvdaTypeOK
    <3> QED
      BY <3>1, DoesWhat
  <2> QED
    BY <2>1, <2>2, <1>e
<1>3. CASE NvdaDies
  BY <1>3, <1>e DEF NvdaDies, flow, Die
<1>4. CASE SessionOver
  BY <1>4 DEF SessionOver
<1>5. CASE todo = <<>> /\ ~NvdaRuns /\ ~NvdaDies /\ ~SessionOver
  <2>1. StartTest \/ Step \/ LeaveBlock \/ BodyEnds \/ Proceed
    BY <1>5 DEF Next, Unreachable, TimesOut, Called, Verified, Undo, UndoRemove, Relaunched, IdleAnswered,
         Cleared, LogChecked, Remembered, Queued, Opened, Taken, Sent, Rejected, NoDialogCame, Raises, Now
  <2> QED
    BY <2>1, ProceedGoes DEF StartTest, Step, LeaveBlock, BodyEnds, Ready
<1>6. CASE todo # <<>> /\ ~Raise /\ ~NvdaRuns /\ ~NvdaDies
  <2>1. Head(todo)[1] = "logcheck" /\ todo = CheckOnly
    BY <1>6, HeadOf, DoOf
  <2>2. LogChecked
    <3>1. /\ ~Now({"press", "assign", "restore", "install", "remove"}) /\ ~Now({"enabled", "gone"}) /\ ~Now({"undo"})
          /\ ~Now({"remove"}) /\ ~Now({"clear"}) /\ ~Now({"relaunch"}) /\ ~Now({"remember"}) /\ ~Now({"queue"})
          /\ ~Now({"opened", "entered"}) /\ ~Now({"take"}) /\ ~Now({"look"}) /\ ~Now({"idle"})
      BY <2>1 DEF Now
    <3>2. ~StartTest /\ ~Step /\ ~LeaveBlock /\ ~BodyEnds /\ ~Proceed /\ ~SessionOver
      BY <1>6 DEF StartTest, Step, LeaveBlock, BodyEnds, Ready, Proceed, SessionOver
    <3> QED
      BY <1>6, <3>1, <3>2 DEF Next, Unreachable, TimesOut, Called, Verified, Undo, UndoRemove, Relaunched,
           IdleAnswered, Cleared, Remembered, Queued, Opened, Taken, Sent, Rejected, NoDialogCame, Raises
  <2>3. ~errors /\ up /\ problems' = problems
    BY <1>6, <2>2 DEF LogChecked, Continue, Then
  <2> QED
    BY <2>3, <1>e
<1> QED
  BY <1>1, <1>2, <1>3, <1>4, <1>5, <1>6

LEMMA ErringNext ==
  ASSUME Typed, Shape, Beginning, Erring, Next
  PROVE  Erring'
<1>h. HostMoves
  BY NextHost
<1>t. errors \in BOOLEAN /\ left.errors \in BOOLEAN
  BY DEF Typed, NvdaTypeOK, FlowTyped
<1>1. ASSUME phase' = "log", left'.errors, FailOnLogErrors
      PROVE  Problem("log") \in problems' \/ (todo' = CheckOnly /\ (errors' \/ ~up'))
  <2>1. CASE CallOver
    <3>1. phase # "body"
      BY <1>1, <2>1, BodyStays
    <3>2. CASE phase = "log"
      <4>1. left' = left
        BY <2>1, <3>2, CallStays
      <4> QED
        BY <1>1, <3>2, <4>1, LogStage
    <3>3. CASE phase = "setup"
      <4>1. left'.errors = errors /\ todo' = CheckOnly /\ (errors' = errors \/ ~up')
        BY <1>1, <2>1, <3>3, SetUpFails, StageCallsOf
      <4>2. errors = TRUE
        BY <1>1, <1>t, <4>1
      <4> QED
        BY <4>1, <4>2
    <3> QED
      BY <1>1, <2>1, <3>1, <3>2, <3>3, CallStays
  <2>2. CASE StartTest
    BY <1>1, <2>2, StartGoes
  <2>3. CASE Step \/ LeaveBlock
    BY <1>1, <2>3 DEF Step, LeaveBlock, Ready
  <2>4. CASE BodyEnds
    <3>1. todo' = StageCalls("log") /\ left' = [open |-> open, errors |-> errors] /\ errors' = errors
      BY <2>4 DEF BodyEnds, Finish, Stages, nvda
    <3> QED
      BY <1>1, <3>1, StageCallsOf
  <2>5. CASE Proceed
    BY <1>1, <2>5, ProceedGoes
  <2>6. CASE UNCHANGED <<flow, rest>>
    <3>1. phase = "log" /\ left' = left
      BY <1>1, <2>6 DEF flow
    <3> QED
      BY <1>1, <3>1, LogStage
  <2> QED
    BY <1>h, <2>1, <2>2, <2>3, <2>4, <2>5, <2>6 DEF HostMoves
<1>2. ASSUME phase' \in {"leftover", "undo", "reset"}, left'.errors, FailOnLogErrors
      PROVE  Problem("log") \in problems'
  <2>1. CASE CallOver
    <3>1. phase # "body"
      BY <1>2, <2>1, BodyStays
    <3>2. phase # "shared"
      BY <1>2, <2>1, CallStays DEF Beginning
    <3>3. phase \in {"leftover", "undo", "reset"} /\ left' = left
      BY <1>2, <2>1, <3>1, <3>2, CallStays
    <3>4. Problem("log") \in problems
      BY <1>2, <3>3 DEF Erring
    <3> QED
      BY <2>1, <3>2, <3>4, ProblemsStay
  <2>2. CASE StartTest
    BY <1>2, <2>2 DEF StartTest
  <2>3. CASE Step \/ LeaveBlock \/ BodyEnds
    BY <1>2, <2>3 DEF Step, LeaveBlock, Ready, BodyEnds, Finish, Stages
  <2>4. CASE Proceed
    <3>1. phase \in {"log", "leftover", "undo"} /\ todo = <<>> /\ UNCHANGED <<left, problems>>
      BY <1>2, <2>4, ProceedGoes DEF Proceed
    <3>2. CheckOnly # <<>>
      BY Lists
    <3> QED
      BY <1>2, <3>1, <3>2 DEF Erring
  <2>5. CASE UNCHANGED <<flow, rest>>
    <3>1. UNCHANGED <<phase, left, problems>>
      BY <2>5 DEF flow
    <3> QED
      BY <1>2, <3>1 DEF Erring
  <2> QED
    BY <1>h, <2>1, <2>2, <2>3, <2>4, <2>5 DEF HostMoves
<1>3. Problem("log")' = Problem("log")
  BY DEF Problem
<1> QED
  BY <1>1, <1>2, <1>3 DEF Erring

-------------------------------------------------------------------------------
(* The add-ons a test installed.                                               *)

\* An add-on that is gone, or to go with the next start, comes back by an install only.
LEMMA NoInstallStays ==
  ASSUME Typed, NoInstall, NvdaMoves, todo # <<>> => Head(todo)[1] # "install"
  PROVE  /\ NoInstall'
         /\ \A a \in Addons : addons[a] = "NOT_INSTALLED" => addons'[a] = "NOT_INSTALLED"
         /\ \A a \in Addons : addons[a] = "PENDING_REMOVE" =>
              addons'[a] = "NOT_INSTALLED" \/ (addons'[a] = "PENDING_REMOVE" /\ ~Relaunch)
<1>1. queue \in Seq(QueuedJobs) /\ addons \in [Addons -> AddonStates] /\ (todo # <<>> => Head(todo) \in Calls)
  BY TailOf DEF Typed, NvdaTypeOK
<1> DEFINE Stay == /\ \A a \in Addons : addons[a] = "NOT_INSTALLED" => addons'[a] = "NOT_INSTALLED"
                   /\ \A a \in Addons : addons[a] = "PENDING_REMOVE" => addons'[a] = "PENDING_REMOVE"
<1>s. CASE Relaunch
  <2>1. NoInstall' /\ \A a \in Addons : addons'[a] \in Started(addons[a])
    BY <1>s DEF Relaunch, Forgotten, NoInstall
  <2> QED
    BY <2>1 DEF Started
<1>d. ASSUME NEW j, NEW ok \in BOOLEAN, NEW late \in BOOLEAN, Does(j, ok, late), j[1] # "install" PROVE Stay
  <2>1. \/ addons' = addons
        \/ addons[j[2]] # "NOT_INSTALLED" /\ addons' = [addons EXCEPT ![j[2]] = "PENDING_REMOVE"]
    BY <1>d, DoesWhat
  <2> QED
    BY <1>1, <2>1
<1>a. ASSUME NEW j \in QueuedJobs, j[1] # "install", queue' = Append(queue, j) PROVE NoInstall'
  <2>1. \A i \in DOMAIN queue' : queue'[i] = j \/ (i \in DOMAIN queue /\ queue'[i] = queue[i])
    BY <1>1, <1>a, AppendProperties
  <2> QED
    BY <1>a, <2>1 DEF NoInstall
<1>q. ASSUME queue' = queue \/ queue' = <<>> PROVE NoInstall'
  BY <1>q DEF NoInstall
<1>2. ASSUME todo # <<>>, NEW ok \in BOOLEAN, Answer(Head(todo), ok) PROVE NoInstall' /\ Stay
  <2>1. Does(Head(todo), ok, FALSE) /\ queue' = queue
    BY <1>2 DEF Answer
  <2>2. Stay
    BY <1>2, <2>1, <1>d
  <2> QED
    BY <2>1, <2>2, <1>q
<1>3. ASSUME todo # <<>>, TimeOut(Head(todo)) PROVE NoInstall' /\ Stay
  <2>1. addons' = addons /\ (queue' = queue \/ (Head(todo)[1] \in Jobs /\ queue' = Append(queue, Head(todo))))
    BY <1>3 DEF TimeOut
  <2>2. Head(todo)[1] \in Jobs => Head(todo) \in QueuedJobs
    BY <1>1, <1>3, JobOf
  <2>3. NoInstall'
    BY <1>3, <2>1, <2>2, <1>a, <1>q
  <2> QED
    BY <2>1, <2>3
<1>4. ASSUME RunJob PROVE NoInstall' /\ Stay
  <2>1. queue # <<>> /\ queue' = Tail(queue) /\ \E ok \in BOOLEAN : Does(Head(queue), ok, TRUE)
    BY <1>4 DEF RunJob
  <2>2. /\ Head(queue) = queue[1] /\ 1 \in DOMAIN queue
        /\ \A i \in DOMAIN Tail(queue) : i + 1 \in DOMAIN queue /\ Tail(queue)[i] = queue[i + 1]
    BY <1>1, <2>1, TailOf
  <2>3. Head(queue)[1] # "install"
    BY <2>2 DEF NoInstall
  <2>4. Stay
    BY <2>1, <2>3, <1>d
  <2>5. NoInstall'
    BY <2>1, <2>2 DEF NoInstall
  <2> QED
    BY <2>4, <2>5
<1>5. ASSUME Die PROVE NoInstall' /\ Stay
  <2>1. addons' = addons /\ queue' = <<>>
    BY <1>5 DEF Die, Forgotten
  <2> QED
    BY <2>1, <1>q
<1>6. ASSUME UNCHANGED nvda \/ ClearLog \/ RememberBaseline \/ TakeBaseline \/ SendGesture(initial)
      PROVE  NoInstall' /\ Stay
  <2>1. addons' = addons /\ queue' = queue
    BY <1>6 DEF nvda, ClearLog, RememberBaseline, TakeBaseline, SendGesture
  <2> QED
    BY <2>1, <1>q
<1>7. ASSUME QueueScenario(last) PROVE NoInstall' /\ Stay
  <2>1. addons' = addons /\ queue' = Append(queue, <<"scenario", last>>)
    BY <1>7 DEF QueueScenario
  <2>2. <<"scenario", last>> \in QueuedJobs
    BY DEF QueuedJobs, Typed, RestTyped
  <2>3. NoInstall'
    BY <2>1, <2>2, <1>a
  <2> QED
    BY <2>1, <2>3
<1> QED
  <2>1. CASE ~Relaunch
    <3>1. NoInstall' /\ Stay
      BY <2>1, <1>2, <1>3, <1>4, <1>5, <1>6, <1>7 DEF NvdaMoves
    <3> QED
      BY <2>1, <3>1
  <2> QED
    BY <1>s, <2>1

\* The steps of undo_all.
LEMMA UndoStage ==
  ASSUME Typed, Shape, Next, phase = "undo"
  PROVE  \/ todo # <<>> /\ Raise
         \/ Undo \/ UndoRemove \/ (Now({"relaunch"}) /\ Relaunch /\ Continue)
         \/ Proceed \/ NvdaRuns \/ NvdaDies
<1>k. /\ ~Now({"enabled", "gone"}) /\ ~Now({"clear"}) /\ ~Now({"logcheck"}) /\ ~Now({"remember"}) /\ ~Now({"queue"})
      /\ ~Now({"opened", "entered"}) /\ ~Now({"take"}) /\ ~Now({"look"}) /\ ~Now({"idle"}) /\ ~Now({"raise"})
  BY HeadOf DEF Now
<1>n. \A K : Now(K) => todo # <<>>
  BY DEF Now
<1>1. CASE Unreachable \/ TimesOut
  BY <1>1, <1>n DEF Unreachable, TimesOut
<1>2. CASE Relaunched
  BY <1>2, <1>n DEF Relaunched
<1>3. ~Called /\ ~Verified /\ ~IdleAnswered /\ ~Cleared /\ ~LogChecked /\ ~Remembered /\ ~Queued /\ ~Opened
        /\ ~Taken /\ ~Sent /\ ~Rejected /\ ~NoDialogCame /\ ~Raises
  BY <1>k DEF Called, Verified, IdleAnswered, Cleared, LogChecked, Remembered, Queued, Opened, Taken, Sent, Rejected,
     NoDialogCame, Raises
<1>4. ~StartTest /\ ~Step /\ ~LeaveBlock /\ ~BodyEnds /\ ~SessionOver
  BY DEF StartTest, Step, LeaveBlock, BodyEnds, SessionOver, Ready
<1> QED
  BY <1>1, <1>2, <1>3, <1>4 DEF Next

\* undo_all forgets no call before it was made.
LEMMA UndoGoesOn ==
  ASSUME Typed, phase = "undo", todo # <<>>,
         Raise \/ Undo \/ UndoRemove \/ Continue,
         NEW c, Has(c), c # Head(todo)
  PROVE  Has(c)'
<1>1. PICK i \in DOMAIN todo : todo[i] = c
  BY DEF Has
<1>2. PICK t \in Seq(Calls) : t = Tail(todo)
  BY TailOf DEF Typed
<1>3. PICK k \in DOMAIN t : t[k] = c
  BY <1>1, <1>2, InTail DEF Typed
<1>4. CASE todo' = t
  BY <1>3, <1>4 DEF Has
<1>5. ASSUME NEW e \in Calls, todo' = <<e>> \o t PROVE Has(c)'
  <2>1. k + 1 \in DOMAIN todo' /\ todo'[k + 1] = t[k]
    BY <1>3, <1>5, JoinOf
  <2> QED
    BY <2>1, <1>3 DEF Has
<1>6. CASE todo' = Finally(t, Do("relaunch"))
  <2>1. Do("relaunch") \in Calls
    BY DoOf DEF PlainCalls
  <2>2. k \in DOMAIN todo' /\ todo'[k] = t[k]
    BY <2>1, <1>3, <1>6, FinallyOf
  <2> QED
    BY <2>2, <1>3 DEF Has
<1>7. CASE Raise
  <2>1. todo' = t
    BY <1>2, <1>7 DEF Raise, RaiseInReset, RaiseInShared, RaiseInBody, RaiseInTeardown
  <2> QED
    BY <2>1, <1>4
<1>8. CASE Undo
  <2>1. todo' = t \/ todo' = <<<<"remove", Subject>>>> \o t
    BY <1>2, <1>8 DEF Undo, Continue, Then
  <2>2. <<"remove", Subject>> \in Calls
    <3>1. Head(todo) \in Calls /\ Head(todo)[1] = "undo"
      BY <1>8, TailOf DEF Undo, Now, Typed
    <3> QED
      BY <3>1, JobOf DEF Subject, Calls, AddonCalls
  <2> QED
    BY <2>1, <2>2, <1>4, <1>5
<1>9. CASE UndoRemove
  BY <1>2, <1>9, <1>6 DEF UndoRemove, Then
<1>10. CASE Continue
  BY <1>2, <1>10, <1>4 DEF Continue, Then
<1> QED
  BY <1>7, <1>8, <1>9, <1>10

\* What becomes of one add-on in a step of undo_all.
LEMMA UndoingStays ==
  ASSUME Typed, Shape, Next, phase = "undo", phase' = "undo", NEW a \in Addons, Undoing(a)
  PROVE  Undoing(a)'
<1>m. NvdaMoves /\ (todo # <<>> => Head(todo)[1] # "install")
  BY NextNvda, HeadOf
<1>p. failures \subseteq failures'
  <2>1. CASE Raise /\ todo # <<>>
    BY <2>1, RaiseGoes
  <2>2. CASE ~(Raise /\ todo # <<>>)
    BY <2>2, UndoStage DEF Undo, UndoRemove, Continue, Then, Proceed, NvdaRuns, NvdaDies, flow
  <2> QED
    BY <2>1, <2>2
<1>e. ASSUME Excused(a) PROVE Undoing(a)'
  BY <1>e, <1>p DEF Excused, Undoing
<1>n. ASSUME NoInstall, addons[a] = "NOT_INSTALLED" PROVE Undoing(a)'
  <2>1. NoInstall' /\ addons'[a] = "NOT_INSTALLED"
    BY <1>n, <1>m, NoInstallStays
  <2> QED
    BY <2>1 DEF Undoing
<1>g. NoInstall' /\ addons'[a] \in {"NOT_INSTALLED", "PENDING_REMOVE"} /\ Has(Do("relaunch"))' => Undoing(a)'
  BY DEF Undoing
<1>1. CASE NvdaRuns \/ NvdaDies
  <2>1. todo' = todo
    BY <1>1 DEF NvdaRuns, NvdaDies, flow
  <2>2. \A c : Has(c) => Has(c)'
    BY <2>1 DEF Has
  <2>3. ASSUME NoInstall, addons[a] = "PENDING_REMOVE", Has(Do("relaunch")) PROVE Undoing(a)'
    <3>1. Has(Do("relaunch"))'
      BY <2>2, <2>3
    <3>2. NoInstall' /\ addons'[a] \in {"NOT_INSTALLED", "PENDING_REMOVE"}
      BY <2>3, <1>m, NoInstallStays
    <3> QED
      BY <3>1, <3>2, <1>g
  <2>4. ASSUME Has(<<"undo", a>>) \/ Has(<<"remove", a>>) PROVE Undoing(a)'
    <3>1. Has(<<"undo", a>>)' \/ Has(<<"remove", a>>)'
      BY <2>2, <2>4
    <3> QED
      BY <3>1 DEF Undoing
  <2> QED
    BY <2>3, <2>4, <1>e, <1>n DEF Undoing
<1>2. CASE todo # <<>> /\ (Raise \/ Undo \/ UndoRemove \/ (Now({"relaunch"}) /\ Relaunch /\ Continue))
  <2>h. ASSUME NEW c, Has(c), c # Head(todo) PROVE Has(c)'
    BY <1>2, <2>h, UndoGoesOn
  <2>t. Head(todo) \in Calls /\ Head(todo) = todo[1] /\ 1 \in DOMAIN todo
    BY <1>2, TailOf DEF Typed
  <2>r. ASSUME Raise, Head(todo) = <<"undo", a>> \/ Head(todo) = <<"remove", a>> \/ Head(todo) = Do("relaunch")
        PROVE  Undoing(a)'
    <3>1. failures' = failures \cup {Head(todo)[2]}
      BY <1>2, <2>r, RaiseGoes
    <3>2. Head(todo)[2] = a \/ Head(todo)[2] = 0
      BY <2>r, DoOf
    <3>3. a \in failures' \/ 0 \in failures'
      BY <3>1, <3>2
    <3>4. Excused(a)'
      BY <3>3 DEF Excused
    <3> QED
      BY <3>4 DEF Undoing
  <2>1. ASSUME Has(<<"undo", a>>) PROVE Undoing(a)'
    <3>1. CASE <<"undo", a>> # Head(todo)
      <4>1. Has(<<"undo", a>>)'
        BY <2>1, <3>1, <2>h
      <4> QED
        BY <4>1 DEF Undoing
    <3>2. CASE Head(todo) = <<"undo", a>>
      <4>1. Head(todo)[1] = "undo" /\ Subject = a
        BY <3>2 DEF Subject
      <4>2. Raise \/ Undo
        BY <1>2, <4>1 DEF UndoRemove, Now
      <4>3. CASE Undo
        <5>1. Answer(Head(todo), TRUE)
          BY <4>3 DEF Undo
        <5>2. Does(Head(todo), TRUE, FALSE) /\ queue' = <<>>
          BY <5>1 DEF Answer
        <5>3. addons' = addons
          <6>1. \A ok, late \in BOOLEAN : Does(Head(todo), ok, late) => addons' = addons
            BY <4>1, DoesWhat
          <6> QED
            BY <5>2, <6>1
        <5>4. CASE StateOf(a) = "NOT_INSTALLED"
          <6>1. NoInstall' /\ addons'[a] = "NOT_INSTALLED"
            BY <5>2, <5>3, <5>4 DEF NoInstall, StateOf
          <6> QED
            BY <6>1 DEF Undoing
        <5>5. CASE StateOf(a) # "NOT_INSTALLED"
          <6>1. todo' = <<<<"remove", a>>>> \o Tail(todo)
            BY <4>1, <4>3, <5>5 DEF Undo, Then
          <6>2. PICK t \in Seq(Calls) : t = Tail(todo)
            BY <1>2, TailOf DEF Typed
          <6>3. <<"remove", a>> \in Calls
            BY DEF Calls, AddonCalls
          <6>4. 1 \in DOMAIN todo' /\ todo'[1] = <<"remove", a>>
            BY <6>1, <6>2, <6>3, JoinOf
          <6>5. Has(<<"remove", a>>)'
            BY <6>4 DEF Has
          <6> QED
            BY <6>5 DEF Undoing
        <5> QED
          BY <5>4, <5>5
      <4> QED
        BY <3>2, <4>2, <4>3, <2>r
    <3> QED
      BY <3>1, <3>2
  <2>2. ASSUME Has(<<"remove", a>>) PROVE Undoing(a)'
    <3>1. CASE <<"remove", a>> # Head(todo)
      <4>1. Has(<<"remove", a>>)'
        BY <2>2, <3>1, <2>h
      <4> QED
        BY <4>1 DEF Undoing
    <3>2. CASE Head(todo) = <<"remove", a>>
      <4>1. Head(todo)[1] = "remove" /\ Head(todo)[2] = a
        BY <3>2
      <4>2. Raise \/ UndoRemove
        BY <1>2, <4>1 DEF Undo, Now
      <4>3. CASE UndoRemove
        <5>1. Answer(Head(todo), TRUE) /\ todo' = Finally(Tail(todo), Do("relaunch"))
          BY <4>3 DEF UndoRemove, Then
        <5>2. Does(Head(todo), TRUE, FALSE) /\ queue' = <<>>
          BY <5>1 DEF Answer
        <5>3. addons' = [addons EXCEPT ![a] = "PENDING_REMOVE"]
          BY <4>1, <5>2 DEF Does, Remove
        <5>4. addons'[a] = "PENDING_REMOVE" /\ NoInstall'
          BY <5>2, <5>3 DEF NoInstall, Typed, NvdaTypeOK
        <5>5. PICK t \in Seq(Calls) : t = Tail(todo)
          BY <1>2, TailOf DEF Typed
        <5>6. Do("relaunch") \in Calls
          BY DoOf DEF PlainCalls
        <5>7. Has(Do("relaunch"))'
          <6>1. \E i \in DOMAIN Finally(t, Do("relaunch")) : Finally(t, Do("relaunch"))[i] = Do("relaunch")
            BY <5>6, FinallyOf
          <6>2. \E i \in DOMAIN todo' : todo'[i] = Do("relaunch")
            BY <5>1, <5>5, <6>1
          <6> QED
            BY <6>2 DEF Has, Do
        <5> QED
          BY <5>4, <5>7, <1>g
      <4> QED
        BY <3>2, <4>2, <4>3, <2>r
    <3> QED
      BY <3>1, <3>2
  <2>3. ASSUME NoInstall, addons[a] = "PENDING_REMOVE", Has(Do("relaunch")) PROVE Undoing(a)'
    <3>1. NoInstall' /\ (addons'[a] = "NOT_INSTALLED" \/ (addons'[a] = "PENDING_REMOVE" /\ ~Relaunch))
      BY <2>3, <1>m, NoInstallStays
    <3>2. CASE Do("relaunch") # Head(todo)
      <4>1. Has(Do("relaunch"))'
        BY <2>3, <3>2, <2>h
      <4> QED
        BY <3>1, <4>1, <1>g
    <3>3. CASE Head(todo) = Do("relaunch")
      <4>1. Raise \/ Relaunch
        BY <1>2, <3>3, DoOf DEF Undo, UndoRemove, Now
      <4>2. CASE Relaunch
        BY <3>1, <4>2 DEF Undoing
      <4> QED
        BY <3>3, <4>1, <4>2, <2>r
    <3> QED
      BY <3>2, <3>3
  <2> QED
    BY <2>1, <2>2, <2>3, <1>e, <1>n DEF Undoing
<1>3. ~Proceed
  BY ProceedGoes
<1>4. (Undo \/ UndoRemove \/ Now({"relaunch"})) => todo # <<>>
  BY DEF Undo, UndoRemove, Now
<1> QED
  BY <1>1, <1>2, <1>3, <1>4, UndoStage

LEMMA UndoneNext ==
  ASSUME Typed, Shape, Beginning, Undone, Next
  PROVE  Undone'
<1>h. HostMoves
  BY NextHost
<1>t. installed \in Seq(Addons) /\ recorded \subseteq Addons
  BY DEF Typed, RestTyped
<1>1. /\ \A a \in recorded' : \E i \in DOMAIN installed' : installed'[i] = a
      /\ \A i \in DOMAIN installed' : installed'[i] \in recorded'
  <2>0. /\ \A a \in recorded : \E i \in DOMAIN installed : installed[i] = a
        /\ \A i \in DOMAIN installed : installed[i] \in recorded
    BY DEF Undone
  <2>1. CASE UNCHANGED <<installed, recorded>>
    BY <2>0, <2>1
  <2>2. CASE CallOver /\ ~UNCHANGED <<installed, recorded>>
    <3>1. /\ Head(todo)[1] = "install" /\ todo # <<>>
          /\ installed' = Append(installed, Subject) /\ recorded' = recorded \cup {Subject}
      BY <2>2 DEF CallOver
    <3>2. Subject \in Addons
      BY <3>1, TailOf, JobOf DEF Subject, Typed
    <3>3. /\ Len(installed) + 1 \in DOMAIN installed' /\ installed'[Len(installed) + 1] = Subject
          /\ \A i \in DOMAIN installed : i \in DOMAIN installed' /\ installed'[i] = installed[i]
          /\ \A i \in DOMAIN installed' :
               installed'[i] = Subject \/ (i \in DOMAIN installed /\ installed'[i] = installed[i])
      BY <1>t, <3>1, <3>2, AppendOf
    <3>4. ASSUME NEW a \in recorded' PROVE \E i \in DOMAIN installed' : installed'[i] = a
      <4>1. CASE a = Subject
        BY <3>3, <4>1
      <4>2. CASE a \in recorded
        <5>1. PICK i \in DOMAIN installed : installed[i] = a
          BY <2>0, <4>2
        <5> QED
          BY <3>3, <5>1
      <4> QED
        BY <3>1, <4>1, <4>2
    <3>5. ASSUME NEW i \in DOMAIN installed' PROVE installed'[i] \in recorded'
      BY <2>0, <3>1, <3>3
    <3> QED
      BY <3>4, <3>5
  <2>3. CASE StartTest
    <3>1. installed' = <<>> /\ recorded' = {}
      BY <2>3 DEF StartTest
    <3>2. DOMAIN installed' = {}
      BY <3>1
    <3> QED
      BY <3>1, <3>2
  <2>4. CASE Step \/ LeaveBlock \/ BodyEnds \/ Proceed \/ UNCHANGED <<flow, rest>>
    BY <2>1, <2>4 DEF Step, LeaveBlock, BodyEnds, Proceed, rest
  <2> QED
    BY <1>h, <2>1, <2>2, <2>3, <2>4 DEF HostMoves
<1>2. ASSUME phase' = "undo", NEW a \in recorded' PROVE Undoing(a)'
  <2>1. CASE phase = "undo"
    <3>1. recorded' = recorded
      <4>1. CASE CallOver
        BY <2>1, <4>1, CallStays
      <4>2. CASE StartTest
        BY <2>1, <4>2 DEF StartTest
      <4> QED
        BY <1>h, <4>1, <4>2 DEF HostMoves, Step, LeaveBlock, BodyEnds, Proceed, rest
    <3>2. Undoing(a) /\ a \in Addons
      BY <1>2, <1>t, <2>1, <3>1 DEF Undone
    <3> QED
      BY <1>2, <2>1, <3>2, UndoingStays
  <2>2. CASE phase # "undo"
    <3>1. Proceed
      <4>1. ~CallOver
        BY <1>2, <2>2, BodyStays, CallStays
      <4>2. ~StartTest
        BY <1>2, StartGoes
      <4> QED
        BY <1>h, <1>2, <2>2, <4>1, <4>2
        DEF HostMoves, Step, LeaveBlock, BodyEnds, Ready, Finish, Stages, flow
    <3>2. todo' = ToUndo /\ recorded' = recorded
      BY <1>2, <2>2, <3>1, ProceedGoes DEF Proceed, rest
    <3>3. PICK i \in DOMAIN installed : installed[i] = a
      BY <1>2, <3>2 DEF Undone
    <3>4. i \in DOMAIN todo' /\ todo'[i] = <<"undo", a>>
      BY <3>2, <3>3, ToUndoOf
    <3>5. Has(<<"undo", a>>)'
      BY <3>4 DEF Has
    <3> QED
      BY <3>5 DEF Undoing
  <2> QED
    BY <2>1, <2>2
<1>3. ASSUME phase' = "reset", NEW a \in recorded'
      PROVE  Excused(a)' \/ (NoInstall' /\ addons'[a] = "NOT_INSTALLED")
  <2>s. ASSUME phase = "reset", recorded' = recorded, failures \subseteq failures'
        PROVE  Excused(a)' \/ (NoInstall' /\ addons'[a] = "NOT_INSTALLED")
    <3>1. a \in Addons /\ (Excused(a) \/ (NoInstall /\ addons[a] = "NOT_INSTALLED"))
      BY <1>3, <1>t, <2>s DEF Undone
    <3>2. CASE Excused(a)
      BY <2>s, <3>2 DEF Excused
    <3>3. CASE NoInstall /\ addons[a] = "NOT_INSTALLED"
      <4>1. todo # <<>> => Head(todo)[1] # "install"
        BY <2>s, KindTells
      <4> QED
        BY <3>1, <3>3, <4>1, NextNvda, NoInstallStays
    <3> QED
      BY <3>1, <3>2, <3>3
  <2>1. CASE CallOver
    <3>1. phase # "body"
      BY <1>3, <2>1, BodyStays
    <3>2. recorded' = recorded
      BY <2>1, <3>1, CallStays
    <3>3. phase # "shared"
      BY <1>3, <3>2 DEF Beginning
    <3>4. phase = "reset"
      BY <1>3, <2>1, <3>1, <3>3, CallStays
    <3> QED
      BY <2>1, <3>2, <3>3, <3>4, <2>s, ProblemsStay
  <2>2. CASE StartTest
    BY <1>3, <2>2 DEF StartTest
  <2>3. CASE Step \/ LeaveBlock \/ BodyEnds
    BY <1>3, <2>3 DEF Step, LeaveBlock, BodyEnds, Ready, Finish, Stages
  <2>4. CASE Proceed
    <3>1. phase = "undo" /\ todo = <<>> /\ UNCHANGED <<nvda, failures, recorded>>
      BY <1>3, <2>4, ProceedGoes DEF Proceed, rest
    <3>2. Undoing(a)
      BY <1>3, <3>1 DEF Undone
    <3>3. \A c : ~Has(c)
      BY <3>1 DEF Has
    <3>4. Excused(a) \/ (NoInstall /\ addons[a] = "NOT_INSTALLED")
      BY <3>2, <3>3 DEF Undoing
    <3> QED
      BY <3>1, <3>4 DEF Excused, NoInstall, nvda
  <2>5. CASE UNCHANGED <<flow, rest>>
    BY <1>3, <2>5, <2>s DEF flow, rest
  <2> QED
    BY <1>h, <2>1, <2>2, <2>3, <2>4, <2>5 DEF HostMoves
<1> QED
  BY <1>1, <1>2, <1>3 DEF Undone

-------------------------------------------------------------------------------
(* The scenarios' dialogs.                                                     *)

\* The fixtures and the closing of a dialog queue nothing.
LEMMA NoQueueIn ==
  ASSUME NEW t \in Resetting \cup LeavingOver \cup {FreshReset, CheckOnly, InstallRelaunch, RelaunchOnly, CloseWith}
  PROVE  \A i \in DOMAIN t : t[i] # Do("queue")
<1> USE DEF Do
<1>1. /\ \A i \in DOMAIN Reset : Reset[i] # Do("queue")
      /\ \A i \in DOMAIN RestoreOnly : RestoreOnly[i] # Do("queue")
      /\ \A i \in DOMAIN RestoreThenRaise : RestoreThenRaise[i] # Do("queue")
      /\ \A i \in DOMAIN RaiseOnly : RaiseOnly[i] # Do("queue")
  BY DEF Reset, RestoreOnly, RestoreThenRaise, RaiseOnly
<1>2. /\ \A i \in DOMAIN FreshReset : FreshReset[i] # Do("queue")
      /\ \A i \in DOMAIN CheckOnly : CheckOnly[i] # Do("queue")
      /\ \A i \in DOMAIN InstallRelaunch : InstallRelaunch[i] # Do("queue")
      /\ \A i \in DOMAIN RelaunchOnly : RelaunchOnly[i] # Do("queue")
      /\ \A i \in DOMAIN CloseWith : CloseWith[i] # Do("queue")
  BY DEF FreshReset, CheckOnly, InstallRelaunch, RelaunchOnly, CloseWith
<1>3. /\ \A i \in DOMAIN Leftover : Leftover[i] # Do("queue")
      /\ \A i \in DOMAIN LookIdleRaise : LookIdleRaise[i] # Do("queue")
      /\ \A i \in DOMAIN IdleRaise : IdleRaise[i] # Do("queue")
      /\ \A i \in DOMAIN RelaunchRaise : RelaunchRaise[i] # Do("queue")
  BY DEF Leftover, LookIdleRaise, IdleRaise, RelaunchRaise
<1>4. DOMAIN <<>> = {}
  OBVIOUS
<1> QED
  BY <1>1, <1>2, <1>3, <1>4 DEF Resetting, LeavingOver

\* A scenario that is still to be queued was to be before this step, or the test took one up.
LEMMA StillToQueue ==
  ASSUME Typed, Shape, Looking, Next, Has(Do("queue"))'
  PROVE  Step \/ (Has(Do("queue")) /\ last' = last /\ (~Now({"queue"}) \/ NvdaRuns \/ NvdaDies \/ SessionOver))
<1>1. PICK i \in DOMAIN todo' : todo'[i] = Do("queue")
  BY DoOf DEF Has, Do
<1>l. <<>> \in Resetting /\ Reset \in Resetting /\ Leftover \in LeavingOver
  BY DEF Resetting, LeavingOver
<1>2. CASE CallOver
  <2>1. last' = last /\ todo # <<>>
    BY <1>2 DEF CallOver
  <2>2. Shape'
    BY NextMoves DEF Moved
  <2>3. phase' = "body"
    <3>1. CASE phase' = "undo"
      BY <1>1, <2>2, <3>1, DoOf DEF Shape
    <3>2. CASE phase' \in {"idle", "shared", "setup", "reset", "log", "leftover"}
      BY <1>1, <1>l, <2>2, <3>2, NoQueueIn DEF Shape
    <3> QED
      BY <3>1, <3>2, NextFlow DEF FlowTyped, Phases
  <2>4. phase = "body"
    BY <1>2, <2>3, CallStays
  <2>5. ~Raise
    BY <1>1, <1>l, <2>1, <2>4, RaiseGoes, NoQueueIn
  <2>6. ~Undo /\ ~UndoRemove
    BY <2>4, KindTells DEF Undo, UndoRemove, Now
  <2>7. todo' = Tail(todo)
    BY <1>2, <2>5, <2>6 DEF CallOver, Continue, Then, Opened, Sent
  <2>8. i + 1 \in DOMAIN todo /\ todo[i + 1] = Do("queue") /\ Head(todo) = todo[1] /\ 1 \in DOMAIN todo
          /\ Head(todo) \in Calls /\ i \in Nat \ {0}
    BY <1>1, <2>1, <2>7, TailOf DEF Typed
  <2>9. Head(todo) # Do("queue")
    <3>1. i + 1 # 1
      BY <2>8
    <3> QED
      BY <2>8, <3>1 DEF Looking, Ordered
  <2>10. ~Now({"queue"})
    BY <2>8, <2>9, JobOf DEF Now, PlainCalls
  <2> QED
    BY <2>1, <2>8, <2>10 DEF Has
<1>3. CASE StartTest
  BY <1>1, <1>l, <1>3, StartGoes, NoQueueIn
<1>4. CASE LeaveBlock
  BY <1>1, <1>l, <1>4, NoQueueIn DEF LeaveBlock
<1>5. CASE BodyEnds
  <2>1. todo' \in {<<>>, CheckOnly}
    BY <1>5, StageCallsOf DEF BodyEnds, Finish, Stages
  <2> QED
    BY <1>1, <1>l, <2>1, NoQueueIn
<1>6. CASE Proceed
  <2>1. CASE todo' = ToUndo
    BY <1>1, <2>1, ToUndoOf, DoOf
  <2>2. CASE todo' \in {<<>>, Reset, FreshReset, Leftover}
    BY <1>1, <1>l, <2>2, NoQueueIn
  <2> QED
    BY <1>6, <2>1, <2>2, ProceedGoes
<1>7. CASE NvdaRuns \/ NvdaDies \/ SessionOver
  <2>1. todo' = todo /\ last' = last
    BY <1>7 DEF NvdaRuns, NvdaDies, SessionOver, flow, rest, vars
  <2> QED
    BY <1>7, <1>1, <2>1 DEF Has
<1> QED
  BY <1>2, <1>3, <1>4, <1>5, <1>6, <1>7, NextHost DEF HostMoves

Below(n) == fg < n /\ \A i \in DOMAIN queue : queue[i][1] = "scenario" => queue[i][2] < n

\* What NVDA shows or is to show was queued before.
LEMMA BelowStays ==
  ASSUME Typed, NEW n \in Nat, n # 0, Below(n), NvdaMoves,
         ~Now({"queue"}) \/ last < n \/ RunJob \/ Die \/ UNCHANGED nvda
  PROVE  Below(n)'
<1>1. queue \in Seq(QueuedJobs) /\ (todo # <<>> => Head(todo) \in Calls) /\ last \in Nat
  BY TailOf DEF Typed, RestTyped
<1>2. \A j \in Calls : j[1] # "scenario"
  BY JobOf
<1>3. CASE UNCHANGED nvda
  BY <1>3 DEF nvda, Below
<1>4. ASSUME todo # <<>>, NEW ok \in BOOLEAN, Answer(Head(todo), ok) PROVE Below(n)'
  <2>1. Does(Head(todo), ok, FALSE) /\ queue' = queue
    BY <1>4 DEF Answer
  <2>2. fg' = fg
    BY <1>1, <1>2, <1>4, <2>1, DoesWhat
  <2> QED
    BY <2>1, <2>2 DEF Below
<1>5. CASE todo # <<>> /\ TimeOut(Head(todo))
  <2>1. fg' = fg /\ (queue' = queue \/ queue' = Append(queue, Head(todo)))
    BY <1>5 DEF TimeOut
  <2>2. Head(todo)[1] # "scenario"
    BY <1>1, <1>2, <1>5
  <2>3. CASE queue' = Append(queue, Head(todo))
    <3>1. \A i \in DOMAIN queue' : queue'[i] = Head(todo) \/ (i \in DOMAIN queue /\ queue'[i] = queue[i])
      BY <1>1, <2>3, AppendProperties
    <3> QED
      BY <2>1, <2>2, <3>1 DEF Below
  <2> QED
    BY <2>1, <2>3 DEF Below
<1>6. CASE RunJob
  <2>1. queue # <<>> /\ queue' = Tail(queue) /\ \E ok \in BOOLEAN : Does(Head(queue), ok, TRUE)
    BY <1>6 DEF RunJob
  <2>2. /\ Head(queue) = queue[1] /\ 1 \in DOMAIN queue
        /\ \A i \in DOMAIN Tail(queue) : i + 1 \in DOMAIN queue /\ Tail(queue)[i] = queue[i + 1]
    BY <1>1, <2>1, TailOf
  <2>3. fg' = fg \/ (Head(queue)[1] = "scenario" /\ fg' = Head(queue)[2])
    BY <2>1, DoesWhat
  <2>4. fg' < n
    BY <2>2, <2>3 DEF Below
  <2> QED
    BY <2>1, <2>2, <2>4 DEF Below
<1>7. CASE Relaunch \/ Die
  BY <1>7 DEF Relaunch, Die, Forgotten, Below, Other
<1>8. CASE ClearLog \/ RememberBaseline \/ TakeBaseline \/ SendGesture(initial)
  BY <1>8 DEF ClearLog, RememberBaseline, TakeBaseline, SendGesture, Below, Other, Main
<1>9. CASE QueueScenario(last) /\ last < n
  <2>1. fg' = fg /\ queue' = Append(queue, <<"scenario", last>>)
    BY <1>9 DEF QueueScenario
  <2>2. <<"scenario", last>> \in QueuedJobs
    BY <1>1 DEF QueuedJobs
  <2>3. \A i \in DOMAIN queue' : queue'[i] = <<"scenario", last>> \/ (i \in DOMAIN queue /\ queue'[i] = queue[i])
    BY <1>1, <2>1, <2>2, AppendOf
  <2> QED
    BY <1>9, <2>1, <2>3 DEF Below
<1> QED
  BY <1>3, <1>4, <1>5, <1>6, <1>7, <1>8, <1>9 DEF NvdaMoves

\* The baseline is one that was remembered before a scenario was numbered.
LEMMA BaselineMoves ==
  ASSUME Typed, Looking, Dialogs, NvdaMoves
  PROVE  baseline' \in {baseline, Unset} \/ (baseline' = fg /\ fg < last /\ last # NoDialog)
<1>1. CASE RememberBaseline /\ Now({"remember"})
  <2>1. todo # <<>> /\ Head(todo)[1] = "remember"
    BY <1>1 DEF Now
  <2>2. Head(todo) = Do("remember") /\ Head(todo) = todo[1] /\ 1 \in DOMAIN todo
    BY <2>1, TailOf, JobOf DEF Typed, PlainCalls
  <2>3. Has(Do("queue"))
    BY <2>2 DEF Looking, Ordered, Has
  <2> QED
    BY <1>1, <2>3 DEF RememberBaseline, Dialogs
<1>2. CASE Relaunch \/ Die
  BY <1>2 DEF Relaunch, Die, Forgotten
<1>3. CASE UNCHANGED nvda \/ ClearLog \/ QueueScenario(last) \/ TakeBaseline \/ SendGesture(initial)
  BY <1>3 DEF nvda, ClearLog, QueueScenario, TakeBaseline, SendGesture
<1>4. ASSUME NEW j, NEW ok, NEW late, Does(j, ok, late) PROVE baseline' = baseline
  BY <1>4 DEF Does
<1>5. CASE RunJob \/ (todo # <<>> /\ \E ok \in BOOLEAN : Answer(Head(todo), ok))
  BY <1>4, <1>5 DEF RunJob, Answer
<1>6. CASE todo # <<>> /\ TimeOut(Head(todo))
  BY <1>6 DEF TimeOut
<1> QED
  BY <1>1, <1>2, <1>3, <1>5, <1>6 DEF NvdaMoves

LEMMA DialogsNext ==
  ASSUME Typed, Shape, Looking, Dialogs, Next
  PROVE  Dialogs'
<1>h. NvdaMoves /\ HostMoves
  BY NextNvda, NextHost
<1>t. last \in Nat /\ fg \in Int /\ baseline \in Int /\ initial \in Int /\ paired \in BOOLEAN /\ queue \in Seq(QueuedJobs)
        /\ \A i \in DOMAIN queue : queue[i][1] = "scenario" => queue[i][2] \in Nat
  <2>1. queue \in Seq(QueuedJobs)
    BY DEF Typed
  <2>2. \A i \in DOMAIN queue : queue[i][1] = "scenario" => queue[i][2] \in Nat
    BY <2>1, JobOf
  <2> QED
    BY <2>1, <2>2 DEF Typed, RestTyped, NvdaTypeOK, Main, Unset
<1>n. fg' \in Int /\ \A i \in DOMAIN queue' : queue'[i][1] = "scenario" => queue'[i][2] \in Nat
  <2>1. queue' \in Seq(QueuedJobs) /\ NvdaTypeOK'
    BY <1>h, NvdaTypes
  <2>2. \A i \in DOMAIN queue' : queue'[i][1] = "scenario" => queue'[i][2] \in Nat
    BY <2>1, JobOf
  <2> QED
    BY <2>1, <2>2 DEF NvdaTypeOK, Main
<1>1. last' = last \/ (Step /\ last' = last + 1 /\ UNCHANGED nvda)
  BY <1>h DEF HostMoves, CallOver, StartTest, Step, LeaveBlock, BodyEnds, Proceed, rest
<1>2. Below(last + 1)
  BY <1>t DEF Dialogs, Below
<1>3. Below(last + 1)'
  <2>1. last + 1 \in Nat /\ last + 1 # 0 /\ last < last + 1
    BY <1>t
  <2>2. CASE UNCHANGED nvda
    BY <1>2, <1>t, <2>2, <1>1 DEF Below, nvda
  <2>3. CASE last' = last
    <3>1. PICK n \in Nat : n = last + 1
      BY <2>1
    <3>2. Below(n) /\ n # 0 /\ last < n
      BY <1>2, <2>1, <3>1
    <3>3. Below(n)'
      BY <1>h, <3>2, BelowStays
    <3> QED
      BY <2>3, <3>1, <3>3 DEF Below
  <2> QED
    BY <1>1, <2>2, <2>3
<1>4. /\ fg' <= last'
      /\ \A i \in DOMAIN queue' : queue'[i][1] = "scenario" => queue'[i][2] <= last'
  BY <1>1, <1>3, <1>t, <1>n DEF Below
<1>5. baseline' <= last' /\ (last' # NoDialog => baseline' # last')
  <2>1. baseline' \in {baseline, Unset} \/ (baseline' = fg /\ fg < last /\ last # NoDialog)
    BY <1>h, BaselineMoves
  <2>2. baseline <= last /\ (last # NoDialog => baseline # last)
    BY DEF Dialogs
  <2> QED
    BY <1>1, <1>t, <2>1, <2>2 DEF Unset, NoDialog, nvda
<1>6. ASSUME Has(Do("queue"))'
      PROVE  last' # NoDialog /\ Below(last)'
  <2>1. CASE Step
    <3>1. PICK i \in DOMAIN todo' : todo'[i] = Do("queue")
      BY <1>6, DoOf DEF Has, Do
    <3>2. last' = last + 1 /\ UNCHANGED nvda
      BY <2>1, <3>1 DEF Step
    <3> QED
      BY <1>2, <1>t, <3>2 DEF Below, nvda, NoDialog
  <2>2. CASE Has(Do("queue")) /\ last' = last /\ (~Now({"queue"}) \/ NvdaRuns \/ NvdaDies \/ SessionOver)
    <3>1. last # 0 /\ Below(last)
      BY <2>2 DEF Dialogs, Below, NoDialog
    <3>2. ~Now({"queue"}) \/ RunJob \/ Die \/ UNCHANGED nvda
      BY <2>2 DEF NvdaRuns, NvdaDies, SessionOver, vars
    <3>3. PICK n \in Nat : n = last
      BY <1>t
    <3>4. Below(n) /\ n # 0
      BY <3>1, <3>3
    <3>5. Below(n)'
      BY <1>h, <3>2, <3>4, BelowStays
    <3> QED
      BY <2>2, <3>1, <3>3, <3>5 DEF Below, NoDialog
  <2> QED
    BY <1>6, <2>1, <2>2, StillToQueue
<1>7. ASSUME paired' PROVE initial' <= last' /\ (last' # NoDialog => initial' # last')
  <2>1. CASE UNCHANGED <<paired, initial>>
    <3>1. initial <= last /\ (last # NoDialog => initial # last)
      BY <1>7, <2>1 DEF Dialogs
    <3> QED
      BY <1>1, <1>t, <2>1, <3>1
  <2>2. CASE Taken /\ ~UNCHANGED <<paired, initial>>
    <3>1. initial' = Initial /\ paired' = (baseline # Unset) /\ last' = last
      BY <2>2 DEF Taken
    <3>2. initial' = baseline
      BY <1>7, <3>1 DEF Initial
    <3> QED
      BY <3>1, <3>2 DEF Dialogs
  <2>3. CASE StartTest
    BY <1>7, <2>3 DEF StartTest
  <2>4. CASE ~Taken /\ ~StartTest
    <3>1. UNCHANGED <<paired, initial>>
      BY <2>4 DEF Next, Unreachable, TimesOut, Called, Verified, Undo, UndoRemove, Relaunched, IdleAnswered, Cleared,
           LogChecked, Remembered, Queued, Opened, Sent, Rejected, NoDialogCame, Raises, Step, LeaveBlock, BodyEnds,
           Proceed, NvdaRuns, NvdaDies, SessionOver, rest, vars
    <3> QED
      BY <2>1, <3>1
  <2> QED
    BY <2>1, <2>2, <2>3, <2>4
<1> QED
  BY <1>4, <1>5, <1>6, <1>7 DEF Dialogs, Below, NoDialog, Do

-------------------------------------------------------------------------------
(* The add-on of addon_under_test.                                             *)

OfBundle == {<<"install", Bundle>>, <<"remove", Bundle>>}

\* The fixtures, the closing of a dialog and the other stages have to do with no add-on.
LEMMA PlainIn ==
  ASSUME NEW t \in Resetting \cup LeavingOver \cup {FreshReset, CheckOnly, CloseWith}
  PROVE  \A i \in DOMAIN t : t[i][1] \in PlainCalls
<1> USE DEF Do, PlainCalls
<1>1. /\ \A i \in DOMAIN Reset : Reset[i][1] \in PlainCalls
      /\ \A i \in DOMAIN RestoreOnly : RestoreOnly[i][1] \in PlainCalls
      /\ \A i \in DOMAIN RestoreThenRaise : RestoreThenRaise[i][1] \in PlainCalls
      /\ \A i \in DOMAIN RaiseOnly : RaiseOnly[i][1] \in PlainCalls
  BY DEF Reset, RestoreOnly, RestoreThenRaise, RaiseOnly
<1>2. /\ \A i \in DOMAIN FreshReset : FreshReset[i][1] \in PlainCalls
      /\ \A i \in DOMAIN CheckOnly : CheckOnly[i][1] \in PlainCalls
      /\ \A i \in DOMAIN CloseWith : CloseWith[i][1] \in PlainCalls
  BY DEF FreshReset, CheckOnly, CloseWith
<1>3. /\ \A i \in DOMAIN Leftover : Leftover[i][1] \in PlainCalls
      /\ \A i \in DOMAIN LookIdleRaise : LookIdleRaise[i][1] \in PlainCalls
      /\ \A i \in DOMAIN IdleRaise : IdleRaise[i][1] \in PlainCalls
      /\ \A i \in DOMAIN RelaunchRaise : RelaunchRaise[i][1] \in PlainCalls
  BY DEF Leftover, LookIdleRaise, IdleRaise, RelaunchRaise
<1>4. DOMAIN <<>> = {}
  OBVIOUS
<1> HIDE DEF Do, PlainCalls
<1> QED
  BY <1>1, <1>2, <1>3, <1>4 DEF Resetting, LeavingOver

\* A step that installs or removes the add-on counts it as touched.
LEMMA StepTouches ==
  ASSUME Step, Bundle \notin touched', NEW k \in {"install", "remove", "undo"},
         NEW i \in DOMAIN todo', todo'[i] = <<k, Bundle>>
  PROVE  FALSE
<1>1. todo' \in StepLists /\ touched' = touched \cup {a \in Addons : todo' \in {Adding(a), Removing(a)}}
  BY StepTakes DEF Step
<1>2. todo' # Adding(Bundle) /\ todo' # Removing(Bundle)
  BY <1>1, SessionAssumption
<1>3. todo'[i][1] = k /\ todo'[i][2] = Bundle
  OBVIOUS
<1>4. ASSUME NEW a \in Addons, todo' = Adding(a) PROVE FALSE
  <2>1. a = Bundle
    BY <1>3, <1>4 DEF Adding, Do
  <2> QED
    BY <1>2, <1>4, <2>1
<1>5. ASSUME NEW a \in Addons, todo' = Removing(a) PROVE FALSE
  <2>1. a = Bundle
    BY <1>3, <1>5 DEF Removing, Do
  <2> QED
    BY <1>2, <1>5, <2>1
<1>6. ASSUME todo' \in {RaiseOnly, <<Do("press")>>, RelaunchOnly, CloseWith, Nowait} PROVE FALSE
  BY <1>3, <1>6 DEF RaiseOnly, RelaunchOnly, CloseWith, Nowait, Do
<1>7. ASSUME \/ todo' = <<Do("remember"), Do("queue"), Do("opened")>>
             \/ todo' = <<Do("remember"), Do("queue"), Do("entered")>>
      PROVE  FALSE
  BY <1>3, <1>7 DEF Do
<1>8. ASSUME NEW s \in Sections, todo' = <<<<"assign", s>>>> PROVE FALSE
  BY <1>3, <1>8
<1> QED
  BY <1>1, <1>4, <1>5, <1>6, <1>7, <1>8 DEF StepLists

\* Nobody else is to install or remove it.
LEMMA NoBundleCalls ==
  ASSUME Typed, Shape, Looking, Undone, Sharing, Next, Bundle \notin touched', Bundle \notin touched,
         phase' # "shared", NEW k \in {"install", "remove", "undo"}, Has(<<k, Bundle>>)'
  PROVE  FALSE
<1>1. PICK i \in DOMAIN todo' : todo'[i] = <<k, Bundle>>
  BY DEF Has
<1>2. todo'[i][1] = k /\ k \notin PlainCalls
  BY <1>1 DEF PlainCalls
<1>3. Shape' /\ HostMoves
  BY NextMoves, NextHost DEF Moved
<1>l. <<>> \in Resetting
  BY DEF Resetting
<1>b. ASSUME phase # "shared", Has(<<k, Bundle>>) PROVE FALSE
  BY <1>b DEF Sharing
<1>4. phase' \in {"undo", "body"}
  <2>1. ASSUME phase' \in {"idle", "setup", "reset", "log", "leftover"} PROVE FALSE
    BY <1>1, <1>2, <1>3, <1>l, <2>1, PlainIn DEF Shape
  <2> QED
    BY <2>1, NextFlow DEF FlowTyped, Phases
<1>t. ASSUME todo # <<>> PROVE /\ Head(todo) = todo[1] /\ 1 \in DOMAIN todo /\ Head(todo) \in Calls
                               /\ Tail(todo) \in Seq(Calls)
                               /\ \A j \in DOMAIN Tail(todo) : j + 1 \in DOMAIN todo /\ Tail(todo)[j] = todo[j + 1]
  BY <1>t, TailOf DEF Typed
<1>5. ASSUME todo # <<>>, NEW j \in DOMAIN Tail(todo), Tail(todo)[j] = <<k, Bundle>>, phase # "shared" PROVE FALSE
  <2>1. Has(<<k, Bundle>>)
    BY <1>t, <1>5 DEF Has
  <2> QED
    BY <1>5, <1>b, <2>1
<1>6. CASE CallOver /\ phase = "body"
  <2>1. todo # <<>> /\ ~Undo /\ ~UndoRemove
    BY <1>6, KindTells DEF CallOver, Undo, UndoRemove, Now
  <2>2. ~Raise
    BY <1>1, <1>2, <1>l, <1>6, <2>1, RaiseGoes, PlainIn
  <2>3. todo' = Tail(todo)
    BY <1>6, <2>1, <2>2 DEF CallOver, Continue, Then, Opened, Sent
  <2> QED
    BY <1>1, <1>5, <1>6, <2>1, <2>3
<1>7. CASE CallOver /\ phase = "undo"
  <2>1. todo # <<>>
    BY <1>7 DEF CallOver
  <2>2. PICK t \in Seq(Calls) : t = Tail(todo)
    BY <2>1, <1>t
  <2>3. todo' # t
    BY <1>1, <1>5, <1>7, <2>1, <2>2
  <2>4. ~Raise /\ ~Continue /\ ~Opened /\ ~Sent
    BY <1>7, <2>1, <2>2, <2>3, RaiseGoes DEF Continue, Then, Opened, Sent
  <2>5. CASE Undo
    <3>1. todo' = <<<<"remove", Subject>>>> \o t /\ Head(todo)[1] = "undo"
      BY <2>2, <2>3, <2>5 DEF Undo, Continue, Then, Now
    <3>2. <<"remove", Subject>> \in Calls /\ Head(todo) = <<"undo", Subject>>
      BY <1>t, <2>1, <3>1, JobOf DEF Subject, Calls, AddonCalls
    <3>3. /\ \A j \in DOMAIN todo' : j = 1 \/ (j - 1 \in DOMAIN t /\ todo'[j] = t[j - 1])
          /\ todo'[1] = <<"remove", Subject>>
      BY <3>1, <3>2, JoinOf
    <3>4. CASE i = 1
      <4>1. Subject = Bundle
        BY <1>1, <3>3, <3>4
      <4>2. Has(<<"undo", Bundle>>)
        BY <1>t, <2>1, <3>2, <4>1 DEF Has
      <4> QED
        BY <1>7, <4>2 DEF Sharing
    <3>5. CASE i # 1
      BY <1>1, <1>5, <1>7, <2>1, <2>2, <3>3, <3>5
    <3> QED
      BY <3>4, <3>5
  <2>6. CASE UndoRemove
    <3>1. todo' = Finally(t, Do("relaunch")) /\ Do("relaunch") \in Calls
      BY <2>2, <2>6, DoOf DEF UndoRemove, Then, PlainCalls
    <3>f. \A j \in DOMAIN Finally(t, Do("relaunch")) :
            \/ Finally(t, Do("relaunch"))[j] = Do("relaunch")
            \/ j \in DOMAIN t /\ Finally(t, Do("relaunch"))[j] = t[j]
      BY <3>1, FinallyOf
    <3>2. todo'[i] = Do("relaunch") \/ (i \in DOMAIN t /\ todo'[i] = t[i])
      BY <1>1, <3>1, <3>f
    <3>3. todo'[i] # Do("relaunch")
      BY <1>2, DoOf DEF PlainCalls
    <3> QED
      BY <1>1, <1>5, <1>7, <2>1, <2>2, <3>2, <3>3
  <2> QED
    BY <1>7, <2>4, <2>5, <2>6 DEF CallOver
<1>8. CASE CallOver /\ phase \notin {"body", "undo"}
  BY <1>4, <1>8, CallStays
<1>9. CASE StartTest
  BY <1>4, <1>9, StartGoes
<1>10. CASE Step
  BY <1>1, <1>10, StepTouches
<1>11. CASE LeaveBlock
  BY <1>1, <1>2, <1>l, <1>11, PlainIn DEF LeaveBlock
<1>12. CASE BodyEnds
  BY <1>4, <1>12 DEF BodyEnds, Finish, Stages
<1>13. CASE Proceed
  <2>1. todo' # <<>>
    BY <1>1
  <2>2. todo' = ToUndo
    BY <1>4, <1>13, <2>1, ProceedGoes
  <2>3. i \in DOMAIN installed /\ installed[i] = Bundle
    BY <1>1, <2>2, ToUndoOf
  <2> QED
    BY <2>3 DEF Undone, Sharing
<1>14. CASE UNCHANGED <<flow, rest>>
  <2>1. todo' = todo /\ phase' = phase
    BY <1>14 DEF flow
  <2>2. Has(<<k, Bundle>>)
    BY <1>1, <2>1 DEF Has
  <2> QED
    BY <1>b, <2>1, <2>2
<1> QED
  BY <1>3, <1>6, <1>7, <1>8, <1>9, <1>10, <1>11, <1>12, <1>13, <1>14 DEF HostMoves

Spared == \A i \in DOMAIN queue : queue[i] \notin OfBundle

\* Jobs and calls about other add-ons leave it as it is; a relaunch ends what was pending.
LEMMA BundleStays ==
  ASSUME Typed, NvdaMoves, Spared,
         RunJob \/ Die \/ Relaunch \/ UNCHANGED nvda \/ (todo # <<>> => Head(todo) \notin OfBundle)
  PROVE  /\ Spared' /\ (RunJob \/ Die => addons'[Bundle] = addons[Bundle])
         /\ addons'[Bundle] = addons[Bundle] \/ (Relaunch /\ addons'[Bundle] \in Started(addons[Bundle]))
<1>1. queue \in Seq(QueuedJobs) /\ (todo # <<>> => Head(todo) \in Calls) /\ addons \in [Addons -> AddonStates]
        /\ Bundle \in Addons
  BY TailOf, SessionAssumption DEF Typed, NvdaTypeOK
<1>q. ASSUME queue' = queue \/ queue' = <<>> PROVE Spared'
  BY <1>q DEF Spared, OfBundle
<1>a. ASSUME NEW j \in QueuedJobs, j \notin OfBundle, queue' = Append(queue, j) PROVE Spared'
  <2>1. \A i \in DOMAIN queue' : queue'[i] = j \/ (i \in DOMAIN queue /\ queue'[i] = queue[i])
    BY <1>1, <1>a, AppendProperties
  <2> QED
    BY <1>a, <2>1 DEF Spared, OfBundle
<1>d. ASSUME NEW j \in Calls \cup QueuedJobs, NEW ok \in BOOLEAN, NEW late \in BOOLEAN, Does(j, ok, late), j \notin OfBundle
      PROVE  addons'[Bundle] = addons[Bundle]
  <2>1. j = <<j[1], j[2]>>
    BY <1>d, JobOf
  <2>2. j[1] \in {"install", "remove"} => j[2] # Bundle
    BY <1>d, <2>1 DEF OfBundle
  <2>3. \/ addons' = addons
        \/ /\ j[1] \in {"install", "remove"}
           /\ (addons' = [addons EXCEPT ![j[2]] = "PENDING_INSTALL"] \/ addons' = [addons EXCEPT ![j[2]] = "PENDING_REMOVE"])
    BY <1>d, DoesWhat
  <2> QED
    BY <1>1, <2>2, <2>3
<1>4. ASSUME Die PROVE Spared' /\ addons'[Bundle] = addons[Bundle]
  BY <1>4, <1>q DEF Die, Forgotten
<1>5. ASSUME RunJob PROVE Spared' /\ addons'[Bundle] = addons[Bundle]
  <2>1. queue # <<>> /\ queue' = Tail(queue) /\ \E ok \in BOOLEAN : Does(Head(queue), ok, TRUE)
    BY <1>5 DEF RunJob
  <2>2. /\ Head(queue) = queue[1] /\ 1 \in DOMAIN queue /\ Head(queue) \in QueuedJobs
        /\ \A i \in DOMAIN Tail(queue) : i + 1 \in DOMAIN queue /\ Tail(queue)[i] = queue[i + 1]
    BY <1>1, <2>1, TailOf
  <2>3. Head(queue) \notin OfBundle
    BY <2>2 DEF Spared
  <2>4. addons'[Bundle] = addons[Bundle]
    BY <2>1, <2>2, <2>3, <1>d
  <2>5. Spared'
    BY <2>1, <2>2 DEF Spared, OfBundle
  <2> QED
    BY <2>4, <2>5
<1> SUFFICES Spared' /\ (addons'[Bundle] = addons[Bundle] \/ (Relaunch /\ addons'[Bundle] \in Started(addons[Bundle])))
  BY <1>4, <1>5
<1>2. CASE UNCHANGED nvda
  BY <1>2, <1>q DEF nvda
<1>3. CASE Relaunch
  BY <1>3, <1>1, <1>q DEF Relaunch, Forgotten
<1>6. CASE todo # <<>> /\ Head(todo) \notin OfBundle /\ \E ok \in BOOLEAN : Answer(Head(todo), ok)
  <2>1. PICK ok \in BOOLEAN : Does(Head(todo), ok, FALSE) /\ queue' = queue
    BY <1>6 DEF Answer
  <2>2. addons'[Bundle] = addons[Bundle]
    BY <1>1, <1>6, <2>1, <1>d
  <2> QED
    BY <2>1, <2>2, <1>q
<1>7. CASE todo # <<>> /\ Head(todo) \notin OfBundle /\ TimeOut(Head(todo))
  <2>1. addons' = addons /\ (queue' = queue \/ (Head(todo)[1] \in Jobs /\ queue' = Append(queue, Head(todo))))
    BY <1>7 DEF TimeOut
  <2>2. Head(todo)[1] \in Jobs => Head(todo) \in QueuedJobs
    BY <1>1, <1>7, JobOf
  <2>3. Spared'
    BY <1>7, <2>1, <2>2, <1>a, <1>q
  <2> QED
    BY <2>1, <2>3
<1>8. CASE ClearLog \/ RememberBaseline \/ TakeBaseline \/ SendGesture(initial)
  <2>1. addons' = addons /\ queue' = queue
    BY <1>8 DEF ClearLog, RememberBaseline, TakeBaseline, SendGesture
  <2> QED
    BY <2>1, <1>q
<1>9. CASE QueueScenario(last)
  <2>1. addons' = addons /\ queue' = Append(queue, <<"scenario", last>>)
    BY <1>9 DEF QueueScenario
  <2>2. <<"scenario", last>> \in QueuedJobs /\ <<"scenario", last>> \notin OfBundle
    BY DEF QueuedJobs, Typed, RestTyped, OfBundle
  <2>3. Spared'
    BY <2>1, <2>2, <1>a
  <2> QED
    BY <2>1, <2>3
<1> QED
  BY <1>2, <1>3, <1>4, <1>5, <1>6, <1>7, <1>8, <1>9 DEF NvdaMoves

\* The steps of addon_under_test.
LEMMA SharedStage ==
  ASSUME Typed, Shape, Next, phase = "shared", phase' = "shared"
  PROVE  \/ todo = InstallRelaunch /\ todo' = RelaunchOnly /\ Answer(<<"install", Bundle>>, TRUE)
         \/ todo = RelaunchOnly /\ todo' = <<>> /\ Relaunch
         \/ todo' = todo /\ (NvdaRuns \/ NvdaDies)
<1>1. ~(todo # <<>> /\ Raise)
  BY RaiseGoes
<1>2. CASE todo = <<>>
  <2>1. \/ StartTest \/ Step \/ LeaveBlock \/ BodyEnds \/ Proceed \/ NvdaRuns \/ NvdaDies \/ SessionOver
    BY <1>2 DEF Next, Unreachable, TimesOut, Called, Verified, Undo, UndoRemove, Relaunched, IdleAnswered,
         Cleared, LogChecked, Remembered, Queued, Opened, Taken, Sent, Rejected, NoDialogCame, Raises, Now
  <2> QED
    BY <2>1, ProceedGoes DEF StartTest, Step, LeaveBlock, BodyEnds, Ready, NvdaRuns, NvdaDies, SessionOver, flow
<1>3. CASE todo # <<>>
  <2>h. \/ todo = InstallRelaunch /\ Head(todo) = <<"install", Bundle>>
        \/ todo = RelaunchOnly /\ Head(todo) = Do("relaunch")
    BY <1>3, HeadOf
  <2>k. Head(todo)[1] \in {"install", "relaunch"}
    BY <2>h, DoOf
  <2>1. /\ ~Now({"enabled", "gone"}) /\ ~Now({"undo"}) /\ ~Now({"remove"}) /\ ~Now({"clear"}) /\ ~Now({"logcheck"})
        /\ ~Now({"remember"}) /\ ~Now({"queue"}) /\ ~Now({"opened", "entered"}) /\ ~Now({"take"}) /\ ~Now({"look"})
        /\ ~Now({"idle"}) /\ ~Now({"raise"})
    BY <2>k DEF Now
  <2>2. ~StartTest /\ ~Step /\ ~LeaveBlock /\ ~BodyEnds /\ ~Proceed /\ ~SessionOver
    BY <1>3 DEF StartTest, Step, LeaveBlock, BodyEnds, Ready, Proceed, SessionOver
  <2>3. Called \/ Relaunched \/ NvdaRuns \/ NvdaDies
    BY <1>1, <1>3, <2>1, <2>2 DEF Next, Unreachable, TimesOut, Verified, Undo, UndoRemove, IdleAnswered,
         Cleared, LogChecked, Remembered, Queued, Opened, Taken, Sent, Rejected, NoDialogCame, Raises
  <2>4. CASE Called
    <3>1. PICK ok \in BOOLEAN : Answer(Head(todo), ok) /\ IF ok THEN Continue ELSE Raise
      BY <2>4 DEF Called
    <3>2. ok = TRUE /\ Continue /\ Answer(Head(todo), TRUE)
      BY <1>1, <1>3, <3>1
    <3>3. Head(todo)[1] # "relaunch"
      BY <2>4 DEF Called, Now
    <3> QED
      BY <2>h, <3>2, <3>3, DoOf, Lists DEF Continue, Then
  <2>5. CASE Relaunched
    <3>1. Head(todo)[1] = "relaunch" /\ Relaunch /\ Continue
      BY <1>1, <1>3, <2>5 DEF Relaunched, Now
    <3>2. todo = RelaunchOnly
      BY <2>h, <3>1
    <3> QED
      BY <3>1, <3>2, Lists DEF Continue, Then
  <2> QED
    BY <2>3, <2>4, <2>5 DEF NvdaRuns, NvdaDies, flow
<1> QED
  BY <1>2, <1>3

LEMMA SharingNext ==
  ASSUME Typed, Shape, Looking, Beginning, Undone, Sharing, Next
  PROVE  Sharing'
<1>h. NvdaMoves /\ HostMoves
  BY NextNvda, NextHost
<1>t. addons \in [Addons -> AddonStates] /\ Bundle \in Addons
  BY SessionAssumption DEF Typed, NvdaTypeOK
\* The fixture is set up once, and fails or is ready.
<1>s. \/ shared' = shared
      \/ phase = "shared" /\ phase' = "reset" /\ shared' = "failed"
      \/ phase = "shared" /\ phase' = "setup" /\ shared' = "ready" /\ Proceed
  <2>1. CASE CallOver
    <3>1. CASE Raise
      BY <2>1, <3>1, RaiseGoes, HeadOf DEF CallOver, Phases
    <3>2. CASE ~Raise
      BY <2>1, <3>2 DEF CallOver, Continue, Then, Undo, UndoRemove, Opened, Sent
    <3> QED
      BY <3>1, <3>2
  <2>2. CASE Proceed
    BY <2>2, ProceedGoes
  <2>3. CASE StartTest \/ Step \/ LeaveBlock \/ BodyEnds \/ UNCHANGED <<flow, rest>>
    BY <2>3 DEF StartTest, Step, LeaveBlock, BodyEnds, Finish, flow
  <2> QED
    BY <1>h, <2>1, <2>2, <2>3 DEF HostMoves
<1>r. ASSUME Bundle \notin touched' PROVE Bundle \notin touched
  BY <1>h, <1>r DEF HostMoves, CallOver, StartTest, Step, LeaveBlock, BodyEnds, Proceed, rest
<1>1. ASSUME uses', phase' \in {"setup", "body"} PROVE shared' = "ready"
  <2>1. CASE StartTest
    <3>1. shared \notin {"unset", "failed"} /\ shared' = shared
      BY <1>1, <2>1, StartGoes DEF StartTest
    <3> QED
      BY <3>1 DEF Typed, FlowTyped
  <2>2. CASE Proceed
    BY <1>1, <2>2, ProceedGoes DEF Sharing, Proceed, rest
  <2>3. CASE ~StartTest /\ ~Proceed
    <3>1. phase' = phase /\ uses' = uses
      <4>1. CASE CallOver
        BY <1>1, <4>1, BodyStays, CallStays
      <4>2. CASE ~CallOver
        BY <1>h, <1>1, <2>3, <4>2 DEF HostMoves, Step, LeaveBlock, BodyEnds, Finish, Stages, flow, rest
      <4> QED
        BY <4>1, <4>2
    <3> QED
      BY <1>1, <1>s, <3>1 DEF Sharing
  <2> QED
    BY <2>1, <2>2, <2>3
<1>2. ASSUME phase' = "shared" PROVE shared' = "unset"
  <2>1. CASE StartTest
    BY <1>2, <2>1, StartGoes DEF StartTest
  <2>2. CASE ~StartTest
    <3>1. phase = "shared"
      <4>1. CASE CallOver
        BY <1>2, <4>1, BodyStays, CallStays
      <4>2. CASE ~CallOver
        BY <1>h, <1>2, <2>2, <4>2, ProceedGoes DEF HostMoves, Step, LeaveBlock, BodyEnds, Ready, Finish, Stages, flow, rest
      <4> QED
        BY <4>1, <4>2
    <3> QED
      BY <1>2, <1>s, <3>1 DEF Sharing
  <2> QED
    BY <2>1, <2>2
<1>3. ASSUME Bundle \notin touched' PROVE Bundle \notin recorded'
  <2>1. Bundle \notin recorded /\ Bundle \notin touched
    BY <1>3, <1>r DEF Sharing
  <2>2. CASE CallOver /\ recorded' # recorded
    <3>1. /\ phase = "body" /\ Head(todo)[1] = "install" /\ recorded' = recorded \cup {Subject} /\ todo # <<>>
      BY <2>2 DEF CallOver
    <3>2. Head(todo) = <<"install", Subject>> /\ Head(todo) = todo[1] /\ 1 \in DOMAIN todo
      BY <3>1, TailOf, JobOf DEF Typed, Subject
    <3>3. Subject # Bundle
      BY <2>1, <3>1, <3>2 DEF Sharing, Has
    <3> QED
      BY <2>1, <3>1, <3>3
  <2>3. CASE recorded' = recorded \/ recorded' = {}
    BY <2>1, <2>3
  <2> QED
    BY <1>h, <2>2, <2>3 DEF HostMoves, StartTest, Step, LeaveBlock, BodyEnds, Proceed, rest
<1>4. ASSUME Bundle \notin touched', phase' # "shared", NEW k \in {"install", "remove", "undo"}
      PROVE  ~Has(<<k, Bundle>>)'
  BY <1>4, <1>r, NoBundleCalls
\* No call about it is under way but those of the fixture itself.
<1>b. ASSUME Bundle \notin touched, phase # "shared", todo # <<>> PROVE Head(todo) \notin OfBundle
  <2>1. Head(todo) = todo[1] /\ 1 \in DOMAIN todo
    BY <1>b, TailOf DEF Typed
  <2> QED
    BY <1>b, <2>1 DEF Sharing, Has, OfBundle
<1>c. ASSUME Bundle \notin touched, shared # "failed" PROVE Spared
  BY <1>c DEF Sharing, Spared, OfBundle
<1>5. ASSUME Bundle \notin touched', phase # "shared", shared # "failed"
      PROVE  Spared' /\ (addons[Bundle] \in Good => addons'[Bundle] \in Good)
  <2>1. Spared' /\ (addons'[Bundle] = addons[Bundle] \/ addons'[Bundle] \in Started(addons[Bundle]))
    BY <1>5, <1>r, <1>b, <1>c, <1>h, BundleStays
  <2> QED
    BY <2>1 DEF Good, Started
\* What the fixture's own calls do.
<1>6. ASSUME Bundle \notin touched', phase = "shared", phase' = "shared"
      PROVE  /\ Spared'
             /\ todo' = RelaunchOnly => addons'[Bundle] = "PENDING_INSTALL"
             /\ todo' = <<>> => addons'[Bundle] \in Good
  <2>0. /\ Spared /\ InstallRelaunch # RelaunchOnly /\ RelaunchOnly # <<>>
        /\ todo = RelaunchOnly => addons[Bundle] = "PENDING_INSTALL"
        /\ todo = <<>> => addons[Bundle] \in Good
    <3>1. shared = "unset" /\ Bundle \notin touched
      BY <1>6, <1>r DEF Sharing
    <3>2. InstallRelaunch # RelaunchOnly /\ RelaunchOnly # <<>>
      <4>1. Head(InstallRelaunch)[1] = "install" /\ Head(RelaunchOnly)[1] = "relaunch"
        BY Lists, DoOf
      <4> QED
        BY <4>1, Lists
    <3> QED
      BY <1>6, <1>c, <3>1, <3>2 DEF Sharing
  <2>1. CASE todo = InstallRelaunch /\ todo' = RelaunchOnly /\ Answer(<<"install", Bundle>>, TRUE)
    <3>1. Does(<<"install", Bundle>>, TRUE, FALSE) /\ queue' = queue
      BY <2>1 DEF Answer
    <3>2. addons' = [addons EXCEPT ![Bundle] = "PENDING_INSTALL"]
      BY <3>1 DEF Does, Install
    <3> QED
      BY <1>t, <2>0, <2>1, <3>1, <3>2 DEF Spared, OfBundle
  <2>2. CASE todo = RelaunchOnly /\ todo' = <<>> /\ Relaunch
    <3>1. queue' = <<>> /\ addons'[Bundle] \in Started(addons[Bundle])
      BY <1>t, <2>2 DEF Relaunch, Forgotten
    <3> QED
      BY <2>0, <2>2, <3>1 DEF Spared, Good, Started
  <2>3. CASE todo' = todo /\ (NvdaRuns \/ NvdaDies)
    <3>1. Spared' /\ addons'[Bundle] = addons[Bundle]
      <4>1. RunJob \/ Die
        BY <2>3 DEF NvdaRuns, NvdaDies
      <4> QED
        BY <1>h, <2>0, <4>1, BundleStays
    <3> QED
      BY <2>0, <2>3, <3>1
  <2> QED
    BY <1>6, <2>1, <2>2, <2>3, SharedStage
<1>7. ASSUME Bundle \notin touched', shared' # "failed" PROVE Spared'
  <2>1. CASE phase # "shared"
    BY <1>5, <1>7, <1>s, <2>1
  <2>2. CASE phase = "shared" /\ phase' = "shared"
    BY <1>6, <1>7, <2>2
  <2>3. CASE phase = "shared" /\ phase' # "shared"
    <3>1. Proceed
      <4>1. ~CallOver
        <5>1. ASSUME CallOver PROVE FALSE
          <6>1. Raise
            BY <2>3, <5>1 DEF CallOver, Continue, Then, Undo, UndoRemove, Opened, Sent
          <6> QED
            BY <1>7, <2>3, <5>1, <6>1, RaiseGoes DEF CallOver
        <5> QED
          BY <5>1
      <4> QED
        BY <1>h, <2>3, <4>1 DEF HostMoves, StartTest, Step, LeaveBlock, BodyEnds, Ready, flow
    <3>2. Spared /\ queue' = queue
      BY <1>7, <1>r, <1>c, <2>3, <3>1 DEF Sharing, Proceed, nvda
    <3> QED
      BY <3>2 DEF Spared, OfBundle
  <2> QED
    BY <2>1, <2>2, <2>3
<1>8. ASSUME Bundle \notin touched', shared' = "ready" PROVE addons'[Bundle] \in Good
  <2>1. CASE phase = "shared"
    <3>1. Proceed
      BY <1>8, <1>s, <2>1 DEF Sharing
    <3>2. todo = <<>> /\ addons' = addons
      BY <3>1 DEF Proceed, nvda
    <3> QED
      BY <1>8, <1>r, <2>1, <3>2 DEF Sharing
  <2>2. CASE phase # "shared"
    <3>1. shared = "ready"
      BY <1>8, <1>s, <2>2
    <3>2. addons[Bundle] \in Good
      BY <1>8, <1>r, <3>1 DEF Sharing
    <3> QED
      BY <1>5, <1>8, <2>2, <3>1, <3>2
  <2> QED
    BY <2>1, <2>2
<1>9. ASSUME Bundle \notin touched', phase' = "shared"
      PROVE  /\ todo' = RelaunchOnly => addons'[Bundle] = "PENDING_INSTALL"
             /\ todo' = <<>> => addons'[Bundle] \in Good
  <2>1. CASE phase = "shared"
    BY <1>6, <1>9, <2>1
  <2>2. CASE phase # "shared"
    <3>1. StartTest
      <4>1. ~CallOver
        BY <1>9, <2>2, BodyStays, CallStays
      <4> QED
        BY <1>h, <1>9, <2>2, <4>1, ProceedGoes DEF HostMoves, Step, LeaveBlock, BodyEnds, Ready, Finish, Stages, flow
    <3>2. todo' = InstallRelaunch
      BY <1>9, <3>1, StartGoes
    <3>3. Head(InstallRelaunch)[1] = "install" /\ Head(RelaunchOnly)[1] = "relaunch" /\ InstallRelaunch # <<>>
      BY Lists, DoOf
    <3> QED
      BY <3>2, <3>3
  <2> QED
    BY <2>1, <2>2
<1> QED
  BY <1>1, <1>2, <1>3, <1>4, <1>7, <1>8, <1>9 DEF Sharing, Spared, OfBundle, Has, Good, RelaunchOnly, Do

-------------------------------------------------------------------------------
(* The invariant.                                                              *)

LEMMA InitInv == Init => IInv
<1> SUFFICES ASSUME Init PROVE IInv
  OBVIOUS
<1>1. /\ up = TRUE /\ queue = <<>> /\ modal = NoDialog /\ fg = Other /\ baseline = Unset /\ errors = FALSE
      /\ conf = Default /\ addons = [a \in Addons |-> "NOT_INSTALLED"]
      /\ phase = "idle" /\ todo = <<>> /\ shared = "unset" /\ uses = FALSE
      /\ tests = 0 /\ steps = 0 /\ faults = 0
      /\ open = FALSE /\ installed = <<>> /\ block = FALSE /\ unwinding = FALSE
      /\ initial = Unset /\ last = NoDialog
      /\ problems = {} /\ failures = {} /\ paired = FALSE /\ recorded = {} /\ touched = {}
      /\ left = [open |-> FALSE, errors |-> FALSE]
  BY DEF Init, NvdaInit
<1>2. DOMAIN queue = {} /\ DOMAIN todo = {} /\ DOMAIN installed = {}
  BY <1>1
<1>3. Typed
  <2>1. NvdaTypeOK
    BY <1>1, <1>2 DEF NvdaTypeOK, AddonStates, Default, NoDialog, Other, Unset
  <2>2. queue \in Seq(QueuedJobs) /\ todo \in Seq(Calls) /\ installed \in Seq(Addons)
    BY <1>1
  <2>3. FlowTyped
    BY <1>1 DEF FlowTyped, Phases, Told
  <2>4. RestTyped /\ faults \in 0 .. MaxFaults
    <3>1. 0 \in 0 .. MaxTests /\ 0 \in 0 .. MaxSteps /\ 0 \in 0 .. MaxFaults
      BY SessionAssumption
    <3>2. last \in Nat /\ initial \in {Unset, Main} \cup Nat
      BY <1>1 DEF NoDialog
    <3> QED
      BY <1>1, <2>2, <3>1, <3>2 DEF RestTyped
  <2> QED
    BY <2>1, <2>2, <2>3, <2>4 DEF Typed
<1>4. Shape /\ Looking
  BY <1>1, <1>2 DEF Shape, Looking, Ordered
<1>5. Beginning /\ LeftOver /\ Erring
  BY <1>1 DEF Beginning, LeftOver, Erring
<1>6. Undone /\ Sharing
  BY <1>1, <1>2 DEF Undone, Sharing, Has
<1>7. Dialogs
  BY <1>1, <1>2 DEF Dialogs, Has, NoDialog, Other, Unset
<1> QED
  BY <1>3, <1>4, <1>5, <1>6, <1>7 DEF IInv

LEMMA NextInv == IInv /\ [Next]_vars => IInv'
<1> SUFFICES ASSUME IInv, [Next]_vars PROVE IInv'
  OBVIOUS
<1>1. Typed /\ Shape /\ Looking /\ Beginning /\ LeftOver /\ Undone /\ Sharing /\ Dialogs /\ Erring
  BY DEF IInv
<1>2. CASE Next
  <2>1. Typed' /\ Shape' /\ Looking'
    BY <1>1, <1>2, TypedNext, NextMoves DEF Looking, Moved, Looks
  <2>2. Beginning' /\ LeftOver' /\ Undone'
    BY <1>1, <1>2, BeginningNext, LeftOverNext, UndoneNext
  <2>3. Sharing' /\ Dialogs' /\ Erring'
    BY <1>1, <1>2, SharingNext, DialogsNext, ErringNext
  <2> QED
    BY <2>1, <2>2, <2>3 DEF IInv
<1>3. CASE UNCHANGED vars
  <2> USE <1>1, <1>3 DEF vars, nvda, flow, rest
  <2>1. Typed'
    BY DEF Typed, NvdaTypeOK, FlowTyped, RestTyped, Told
  <2>2. Shape' /\ Looking'
    BY DEF Shape, Looking, Ordered
  <2>3. Beginning' /\ LeftOver' /\ Erring'
    BY DEF Beginning, Clean, LeftOver, Reported, Quiet, Erring
  <2>4. Undone'
    BY DEF Undone, Undoing, Excused, NoInstall, Has
  <2>5. Sharing' /\ Dialogs'
    BY DEF Sharing, Dialogs, Has
  <2> QED
    BY <2>1, <2>2, <2>3, <2>4, <2>5 DEF IInv
<1> QED
  BY <1>2, <1>3

\* What every step of the host and of NVDA keeps up: the calls to come have the shape of the fixture
\* or the stage they belong to, and tell what a clean start, a closed dialog, a removed add-on and a
\* reported error still depend on.
THEOREM SessionInvariant == Spec => []IInv
<1>1. Init => IInv
  BY InitInv
<1>2. IInv /\ [Next]_vars => IInv'
  BY NextInv
<1> QED
  BY <1>1, <1>2, PTL DEF Spec

\* The types, and that simulate_modal has an initial window whenever it compares with one
\* (modal_api.py: _take_baseline comes first).
THEOREM SessionTypeOK == Spec => []TypeOK
<1>1. IInv => TypeOK
  <2> SUFFICES ASSUME IInv PROVE TypeOK
    OBVIOUS
  <2>1. NvdaTypeOK /\ FlowTyped /\ RestTyped /\ faults \in 0 .. MaxFaults /\ todo \in Seq(Calls) /\ Looking
    BY DEF IInv, Typed
  <2>2. ASSUME Now({"look"}) PROVE initial \in {Main} \cup Nat
    <3>1. todo # <<>> /\ Head(todo)[1] = "look" /\ Head(todo) \in Calls /\ Head(todo) = todo[1]
      BY <2>1, <2>2, TailOf DEF Now
    <3>2. Head(todo) = Do("look")
      BY <3>1 DEF Calls, PlainCalls, AddonCalls, Do
    <3> QED
      BY <2>1, <3>1, <3>2 DEF Looking, RestTyped
  <2>3. \A i \in DOMAIN installed : installed[i] \in Addons
    BY <2>1 DEF RestTyped
  <2>4. \A x \in {uses, open, block, unwinding, paired, left.open, left.errors} : x \in BOOLEAN
    BY <2>1 DEF FlowTyped, RestTyped
  <2> QED
    BY <2>1, <2>2, <2>3, <2>4 DEF TypeOK, FlowTyped, RestTyped
<1> QED
  BY <1>1, SessionInvariant, PTL

\* Whatever the tests before it did, gave up on or left behind, and however often NVDA died, a test
\* begins with the configuration of the first process and nothing to come (client.py: reset,
\* plugin.py: nvda).
THEOREM SessionCleanStart == Spec => []CleanStart
<1>1. IInv => CleanStart
  BY DEF IInv, Beginning, Clean, CleanStart
<1> QED
  BY <1>1, SessionInvariant, PTL

\* close_leftover reports a dialog the test left, and ends with NVDA idle or relaunched.
THEOREM SessionLeftoverIsClosed == Spec => []LeftoverIsClosed
<1>1. IInv => LeftoverIsClosed
  BY DEF IInv, LeftOver, Reported, Quiet, LeftoverIsClosed
<1> QED
  BY <1>1, SessionInvariant, PTL

\* undo_all gets to every add-on of _installed, whichever call of its fails; the add-ons that stay
\* are those it failed at, or all of them when the relaunch failed, and the one failure it raises
\* is reported (lifecycle.py: undo_all, teardown.py: run_all).
THEOREM SessionInstalledIsUndone == Spec => []InstalledIsUndone
<1>1. IInv => InstalledIsUndone
  BY DEF IInv, Typed, FlowTyped, Told, Undone, Excused, InstalledIsUndone
<1> QED
  BY <1>1, SessionInvariant, PTL

\* Nothing but a test's own steps takes the add-on of addon_under_test away.
THEOREM SessionSharedAddonStays == Spec => []SharedAddonStays
<1>1. IInv => SharedAddonStays
  BY DEF IInv, Sharing, Good, SharedAddonStays
<1> QED
  BY <1>1, SessionInvariant, PTL

\* The window exec_in_nvda_nowait remembered is never the dialog of the scenario it queued then.
THEOREM SessionFreshDialogIsRecognised == Spec => []FreshDialogIsRecognised
<1>1. IInv => FreshDialogIsRecognised
  BY DEF IInv, Dialogs, NoDialog, Other, NewWindow, FreshDialogIsRecognised
<1> QED
  BY <1>1, SessionInvariant, PTL

\* check_at_teardown comes before the stages that may relaunch NVDA; it reports what it sees, and
\* that it cannot see.
THEOREM SessionErrorsAreReported == Spec => []ErrorsAreReported
<1>1. IInv => ErrorsAreReported
  BY DEF IInv, Erring, ErrorsAreReported
<1> QED
  BY <1>1, SessionInvariant, PTL
================================================================================
