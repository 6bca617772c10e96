----------------------------- MODULE HearingProofs -----------------------------
(***************************************************************************)
(* For every capacity and every bound: what an assertion searches is the   *)
(* speech from after its mark, no less and no more, and a wait that ends   *)
(* without the text missed only what was said after its last check.  The   *)
(* argument: the numbers of what the log holds are its positions, and      *)
(* every mark is either of the log's present epoch, or behind all that     *)
(* this epoch holds.                                                       *)
(***************************************************************************)
EXTENDS Hearing, TLAPS, FiniteSetTheorems

Lemmas == INSTANCE CappedLogLemmas WITH Items <- Utterances

\* The operators of CappedLogOps are those its lemmas are about.
LEMMA SameLog ==
  /\ Log!Entries = Lemmas!Entries /\ Log!Logs = Lemmas!Logs
  /\ \A l, e : Log!Appended(l, e) = Lemmas!Appended(l, e)
  /\ \A l, i : Log!Since(l, i) = Lemmas!Since(l, i)
  /\ \A s : Log!CancelLastOf(s) = Lemmas!CancelLastOf(s)
  /\ \A l : Log!IndexOf(l) = Lemmas!IndexOf(l)
<1>1. \A a, b : Log!Larger(a, b) = Lemmas!Larger(a, b)
  BY DEF Log!Larger, Lemmas!Larger
<1>2. Log!Entries = Lemmas!Entries
  BY DEF Log!Entries, Lemmas!Entries
<1>3. Log!Logs = Lemmas!Logs
  BY <1>2 DEF Log!Logs, Lemmas!Logs
<1>4. \A l, e : Log!Appended(l, e) = Lemmas!Appended(l, e)
  BY <1>1, Zenon DEF Log!Appended, Lemmas!Appended
<1>5. \A l, i : Log!Since(l, i) = Lemmas!Since(l, i)
  BY <1>1, Zenon DEF Log!Since, Lemmas!Since
<1>6. \A s : Log!CancelLastOf(s) = Lemmas!CancelLastOf(s)
  BY Zenon DEF Log!CancelLastOf, Lemmas!CancelLastOf
<1>7. \A l : Log!IndexOf(l) = Lemmas!IndexOf(l)
  BY Zenon DEF Log!IndexOf, Lemmas!IndexOf
<1> QED
  BY <1>2, <1>3, <1>4, <1>5, <1>6, <1>7

\* The number of the next entry, counted either way.
LEMMA Regroup ==
  ASSUME NEW b \in Nat, NEW lost \in Nat, NEW len \in Nat
  PROVE  b + (lost + len) + 1 = b + lost + (len + 1)
  OBVIOUS

\* The items of a log are numbered from b on.
Numbered(l, b) == \A k \in 1 .. Len(l.items) : l.items[k].item.nr = b + l.dropped + k

\* An entry of the next number keeps a log numbered, whatever it evicts.
LEMMA AppendedIsNumbered ==
  ASSUME NEW l \in Log!Logs, Len(l.items) <= Capacity, NEW e \in Log!Entries,
         NEW b \in Nat, Numbered(l, b), e.item.nr = b + Log!IndexOf(l) + 1
  PROVE  LET n == Log!Appended(l, e) IN
         /\ n \in Log!Logs /\ Len(n.items) <= Capacity
         /\ Log!IndexOf(n) = Log!IndexOf(l) + 1
         /\ Numbered(n, b)
<1> DEFINE n == Log!Appended(l, e)
<1>1. l \in Lemmas!Logs /\ e \in Lemmas!Entries
  BY SameLog
<1>2. LET m == Lemmas!Appended(l, e) IN
      /\ m \in Lemmas!Logs
      /\ Len(m.items) = (IF Len(l.items) = Capacity THEN Capacity ELSE Len(l.items) + 1)
      /\ Lemmas!IndexOf(m) = Lemmas!IndexOf(l) + 1
      /\ \A k \in 1 .. Len(m.items) :
           m.items[k] = Append(l.items, e)[k + m.dropped - l.dropped]
  BY <1>1, BoundsAssumption, Lemmas!AppendedKeepsNewest
<1>3. n = Lemmas!Appended(l, e)
  BY SameLog
<1> HIDE DEF n
<1>4. /\ n \in Log!Logs
      /\ Len(n.items) = (IF Len(l.items) = Capacity THEN Capacity ELSE Len(l.items) + 1)
      /\ Log!IndexOf(n) = Log!IndexOf(l) + 1
      /\ \A k \in 1 .. Len(n.items) :
           n.items[k] = Append(l.items, e)[k + n.dropped - l.dropped]
  BY <1>2, <1>3, SameLog
<1>5. /\ l.items \in Seq(Log!Entries) /\ l.dropped \in Nat
      /\ n.items \in Seq(Log!Entries) /\ n.dropped \in Nat
  BY <1>4 DEF Log!Logs
<1>6. l.dropped \in Nat /\ n.dropped \in Nat /\ Len(l.items) \in Nat /\ Len(n.items) \in Nat
  BY <1>5
<1>7. n.dropped + Len(n.items) = l.dropped + Len(l.items) + 1
  BY <1>4 DEF Log!IndexOf
<1>8. Len(n.items) <= Len(l.items) + 1 /\ Len(n.items) <= Capacity
  BY <1>4, <1>6, BoundsAssumption
<1>9. ASSUME NEW k \in 1 .. Len(n.items)
      PROVE  n.items[k].item.nr = b + n.dropped + k
  <2> DEFINE j == k + n.dropped - l.dropped
  <2>1. j \in 1 .. Len(l.items) + 1
    BY <1>6, <1>7, <1>8, BoundsAssumption, Lemmas!Shift
  <2>2. n.items[k] = Append(l.items, e)[j]
    BY <1>4
  <2>3. b + l.dropped + j = b + n.dropped + k
    BY <1>5
  <2> HIDE DEF j
  <2>4. CASE j \in 1 .. Len(l.items)
    <3>1. n.items[k] = l.items[j]
      BY <1>5, <2>2, <2>4
    <3>2. l.items[j].item.nr = b + l.dropped + j
      BY <2>4 DEF Numbered
    <3> QED
      BY <2>3, <3>1, <3>2
  <2>5. CASE j = Len(l.items) + 1
    <3>1. n.items[k] = e
      BY <1>5, <2>2, <2>5
    <3>2. Log!IndexOf(l) = l.dropped + Len(l.items)
      BY DEF Log!IndexOf
    <3>3. b + (l.dropped + Len(l.items)) + 1 = b + l.dropped + (Len(l.items) + 1)
      BY <1>6, Regroup
    <3>4. b + Log!IndexOf(l) + 1 = b + l.dropped + j
      BY <2>5, <3>2, <3>3, Zenon
    <3> QED
      BY <2>3, <3>1, <3>4
  <2> QED
    BY <1>6, <2>1, <2>4, <2>5
<1> QED
  BY <1>4, <1>8, <1>9 DEF n, Numbered

\* Setting the flag of the last entry keeps a log numbered.
LEMMA MarkedIsNumbered ==
  ASSUME NEW l \in Log!Logs, NEW b \in Nat, Numbered(l, b)
  PROVE  LET n == Log!MarkedLast(l) IN
         /\ n \in Log!Logs /\ Len(n.items) = Len(l.items)
         /\ Log!IndexOf(n) = Log!IndexOf(l)
         /\ Numbered(n, b)
<1> DEFINE n == Log!MarkedLast(l)
           c == Log!CancelLastOf(l.items)
<1>1. l.items \in Seq(Log!Entries) /\ l.dropped \in Nat
  BY DEF Log!Logs
<1>2. l.items \in Seq(Lemmas!Entries)
  BY <1>1, SameLog
<1>3. /\ Lemmas!CancelLastOf(l.items) \in Seq(Lemmas!Entries)
      /\ Len(Lemmas!CancelLastOf(l.items)) = Len(l.items)
      /\ \A k \in 1 .. Len(l.items) :
           Lemmas!CancelLastOf(l.items)[k] = IF k = Len(l.items)
                                THEN [item |-> l.items[k].item, cancelled |-> TRUE]
                                ELSE l.items[k]
  BY <1>2, BoundsAssumption, Lemmas!CancelLastOfChangesLast
<1>4. c = Lemmas!CancelLastOf(l.items)
  BY SameLog
<1>5. n.items = c /\ n.dropped = l.dropped /\ n = [items |-> c, dropped |-> l.dropped]
  BY DEF Log!MarkedLast
<1> HIDE DEF n, c
<1>6. c \in Seq(Log!Entries) /\ Len(c) = Len(l.items)
  BY <1>3, <1>4, SameLog
<1>7. n \in Log!Logs
  BY <1>1, <1>5, <1>6 DEF Log!Logs
<1>8. ASSUME NEW k \in 1 .. Len(c)
      PROVE  c[k].item.nr = b + l.dropped + k
  <2>1. c[k] = IF k = Len(l.items) THEN [item |-> l.items[k].item, cancelled |-> TRUE]
               ELSE l.items[k]
    BY <1>3, <1>4, <1>6
  <2>2. c[k].item = l.items[k].item
    BY <2>1
  <2> QED
    BY <1>6, <2>2 DEF Numbered
<1>9. Log!IndexOf(n) = Log!IndexOf(l)
  BY <1>5, <1>6 DEF Log!IndexOf
<1> QED
  BY <1>5, <1>6, <1>7, <1>8, <1>9 DEF n, Numbered

\* since(i) shows exactly the items at positions behind i.
LEMMA SinceShows ==
  ASSUME NEW l \in Log!Logs, NEW i \in Nat
  PROVE  /\ \A k \in 1 .. Len(Log!Since(l, i)) :
              \E j \in 1 .. Len(l.items) :
                Log!Since(l, i)[k] = l.items[j] /\ l.dropped + j > i
         /\ \A j \in 1 .. Len(l.items) :
              l.dropped + j > i =>
                \E k \in 1 .. Len(Log!Since(l, i)) : Log!Since(l, i)[k] = l.items[j]
<1> DEFINE s     == Log!Since(l, i)
           start == Lemmas!Larger(0, i - l.dropped)
<1>1. l \in Lemmas!Logs /\ s = Lemmas!Since(l, i) /\ i \in Int
  BY SameLog
<1>2. l.items \in Seq(Log!Entries) /\ l.dropped \in Nat /\ Len(l.items) \in Nat
  BY DEF Log!Logs
<1>3. start = IF i - l.dropped > 0 THEN i - l.dropped ELSE 0
  BY <1>2 DEF Lemmas!Larger
<1> HIDE DEF s
<1>4. /\ Len(s) = IF start < Len(l.items) THEN Len(l.items) - start ELSE 0
      /\ \A k \in 1 .. Len(s) : s[k] = l.items[start + k]
  BY <1>1, BoundsAssumption, Lemmas!SinceIsASeq
<1> HIDE DEF start
<1>5. start \in Nat /\ l.dropped \in Nat /\ Len(l.items) \in Nat
  BY <1>2, <1>3
<1> DEFINE kept  == Len(l.items)
           shown == Len(s)
<1>6. shown = IF start < kept THEN kept - start ELSE 0
  BY <1>4
<1>7. kept \in Nat /\ l.dropped \in Nat /\ start \in Nat
  BY <1>5
<1> HIDE DEF kept, shown
<1>8. \A k \in 1 .. shown : start + k \in 1 .. kept /\ l.dropped + (start + k) > i
  BY <1>3, <1>6, <1>7
<1>9. \A j \in 1 .. kept : l.dropped + j > i => j - start \in 1 .. shown /\ start + (j - start) = j
  BY <1>3, <1>6, <1>7
<1>10. ASSUME NEW k \in 1 .. Len(s)
       PROVE  \E j \in 1 .. Len(l.items) : s[k] = l.items[j] /\ l.dropped + j > i
  BY <1>4, <1>8 DEF shown, kept
<1>11. ASSUME NEW j \in 1 .. Len(l.items), l.dropped + j > i
       PROVE  \E k \in 1 .. Len(s) : s[k] = l.items[j]
  BY <1>4, <1>9, <1>11 DEF shown, kept
<1> QED
  BY <1>10, <1>11 DEF s

-------------------------------------------------------------------------------
(* How many sequences are marked cancelled.                                    *)

LEMMA CancelledIsFinite ==
  ASSUME NEW l \in Log!Logs
  PROVE  /\ CancelledIn(l) \subseteq 1 .. Len(l.items) /\ Len(l.items) \in Nat
         /\ IsFiniteSet(CancelledIn(l)) /\ Cardinality(CancelledIn(l)) \in Nat
<1>1. l.items \in Seq(Log!Entries) /\ Len(l.items) \in Nat
  BY DEF Log!Logs
<1>2. IsFiniteSet(1 .. Len(l.items))
  BY <1>1, FS_Interval
<1>3. CancelledIn(l) \in SUBSET (1 .. Len(l.items))
  BY DEF CancelledIn
<1>4. IsFiniteSet(CancelledIn(l))
  BY <1>2, <1>3, FS_Subset
<1> QED
  BY <1>1, <1>3, <1>4, FS_CardinalityType

\* An empty log has none.
LEMMA NewLogHasNone ==
  CancelledIn(Log!NewLog) = {} /\ Log!NewLog.items = << >> /\ Cardinality(CancelledIn(Log!NewLog)) = 0
<1>1. Log!NewLog.items = << >> /\ Len(Log!NewLog.items) = 0
  BY DEF Log!NewLog
<1>2. CancelledIn(Log!NewLog) = {}
  BY <1>1 DEF CancelledIn
<1> QED
  BY <1>1, <1>2, FS_EmptySet

\* A sequence that is not marked adds none, and an eviction may only take some away.
LEMMA AppendedAddsNone ==
  ASSUME NEW l \in Log!Logs, Len(l.items) <= Capacity, NEW e \in Log!Entries, ~e.cancelled
  PROVE  /\ Cardinality(CancelledIn(Log!Appended(l, e))) <= Cardinality(CancelledIn(l))
         /\ CancelledIn(l) = {} => CancelledIn(Log!Appended(l, e)) = {}
<1> DEFINE n == Log!Appended(l, e)
           new == CancelledIn(n)
           old == CancelledIn(l)
           gone == n.dropped - l.dropped
           f == [k \in new |-> k + gone]
<1>1. l \in Lemmas!Logs /\ e \in Lemmas!Entries /\ n = Lemmas!Appended(l, e)
  BY SameLog
<1>2. LET m == Lemmas!Appended(l, e) IN
      /\ m \in Lemmas!Logs
      /\ Len(m.items) = (IF Len(l.items) = Capacity THEN Capacity ELSE Len(l.items) + 1)
      /\ Lemmas!IndexOf(m) = Lemmas!IndexOf(l) + 1
      /\ \A k \in 1 .. Len(m.items) :
           m.items[k] = Append(l.items, e)[k + m.dropped - l.dropped]
  BY <1>1, BoundsAssumption, Lemmas!AppendedKeepsNewest
<1> HIDE DEF n
<1>3. /\ n \in Log!Logs /\ Len(n.items) <= Len(l.items) + 1
      /\ n.dropped + Len(n.items) = l.dropped + Len(l.items) + 1
      /\ \A k \in 1 .. Len(n.items) :
           n.items[k] = Append(l.items, e)[k + n.dropped - l.dropped]
  <2>1. n \in Log!Logs /\ n.dropped + Len(n.items) = l.dropped + Len(l.items) + 1
    BY <1>1, <1>2, SameLog DEF Log!IndexOf
  <2>2. Len(l.items) \in Nat /\ Capacity \in Nat
    BY CancelledIsFinite, BoundsAssumption
  <2>3. Len(n.items) = IF Len(l.items) = Capacity THEN Capacity ELSE Len(l.items) + 1
    BY <1>1, <1>2
  <2>4. Len(n.items) <= Len(l.items) + 1
    BY <2>2, <2>3
  <2>5. \A k \in 1 .. Len(n.items) :
          n.items[k] = Append(l.items, e)[k + n.dropped - l.dropped]
    BY <1>1, <1>2
  <2> QED
    BY <2>1, <2>4, <2>5
<1>4. /\ l.items \in Seq(Log!Entries) /\ l.dropped \in Nat /\ n.dropped \in Nat
      /\ Len(l.items) \in Nat /\ Len(n.items) \in Nat /\ gone \in Int
  <2>1. l.items \in Seq(Log!Entries) /\ l.dropped \in Nat /\ n.dropped \in Nat
    BY <1>3 DEF Log!Logs
  <2> QED
    BY <1>3, <2>1, CancelledIsFinite
<1>5. ASSUME NEW k \in new PROVE k + gone \in old /\ k \in Int
  <2>1. k \in 1 .. Len(n.items) /\ n.items[k].cancelled
    BY DEF CancelledIn
  <2>s. k + n.dropped - l.dropped \in 1 .. Len(l.items) + 1
    BY <1>3, <1>4, <2>1, BoundsAssumption, Lemmas!Shift
  <2>2. k + gone \in 1 .. Len(l.items) + 1 /\ k + gone = k + n.dropped - l.dropped
    BY <1>4, <2>1, <2>s
  <2>3. n.items[k] = Append(l.items, e)[k + gone]
    BY <1>3, <2>1, <2>2
  <2> HIDE DEF gone
  <2>4. k + gone # Len(l.items) + 1
    BY <1>4, <2>1, <2>3
  <2>5. k + gone \in 1 .. Len(l.items)
    BY <1>4, <2>2, <2>4
  <2>6. n.items[k] = l.items[k + gone]
    BY <1>4, <2>3, <2>5
  <2> QED
    BY <2>1, <2>5, <2>6 DEF CancelledIn
<1> HIDE DEF gone, new, old
<1>6. f \in Injection(new, old)
  BY <1>4, <1>5 DEF Injection, IsInjective
<1>7. IsFiniteSet(old)
  BY CancelledIsFinite DEF old
<1>8. Cardinality(new) <= Cardinality(old)
  BY <1>6, <1>7, FS_Injection
<1>9. old = {} => new = {}
  BY <1>5
<1> QED
  BY <1>8, <1>9 DEF n, new, old

\* Marking the last sequence adds one at most, and none in an empty log.
LEMMA MarkedAddsOne ==
  ASSUME NEW l \in Log!Logs
  PROVE  /\ Cardinality(CancelledIn(Log!MarkedLast(l))) <= Cardinality(CancelledIn(l)) + 1
         /\ l.items = << >> => CancelledIn(Log!MarkedLast(l)) = CancelledIn(l)
<1> DEFINE n == Log!MarkedLast(l)
           last == Len(l.items)
<1>1. l.items \in Seq(Lemmas!Entries)
  BY SameLog DEF Log!Logs
<1>2. /\ Len(n.items) = last
      /\ \A k \in 1 .. last : k # last => n.items[k] = l.items[k]
  <2>1. n.items = Lemmas!CancelLastOf(l.items)
    BY SameLog DEF Log!MarkedLast
  <2> QED
    BY <1>1, <2>1, BoundsAssumption, Lemmas!CancelLastOfChangesLast
<1> HIDE DEF n
<1>3. CancelledIn(n) \in SUBSET (CancelledIn(l) \cup {last})
  BY <1>2 DEF CancelledIn
<1>4. IsFiniteSet(CancelledIn(l)) /\ Cardinality(CancelledIn(l)) \in Nat
  BY CancelledIsFinite
<1>5. /\ IsFiniteSet(CancelledIn(l) \cup {last})
      /\ Cardinality(CancelledIn(l) \cup {last}) <= Cardinality(CancelledIn(l)) + 1
  <2>1. /\ IsFiniteSet(CancelledIn(l) \cup {last})
        /\ Cardinality(CancelledIn(l) \cup {last}) =
             IF last \in CancelledIn(l) THEN Cardinality(CancelledIn(l)) ELSE Cardinality(CancelledIn(l)) + 1
    BY <1>4, FS_AddElement
  <2> QED
    BY <1>4, <2>1
<1>6. IsFiniteSet(CancelledIn(n)) /\ Cardinality(CancelledIn(n)) <= Cardinality(CancelledIn(l) \cup {last})
  BY <1>3, <1>5, FS_Subset
<1>7. Cardinality(CancelledIn(n)) <= Cardinality(CancelledIn(l)) + 1
  <2>1. Cardinality(CancelledIn(n)) \in Nat /\ Cardinality(CancelledIn(l) \cup {last}) \in Nat
    BY <1>5, <1>6, FS_CardinalityType
  <2> QED
    BY <1>4, <1>5, <1>6, <2>1
<1>8. l.items = << >> => CancelledIn(n) = CancelledIn(l)
  BY <1>2 DEF CancelledIn
<1> QED
  BY <1>7, <1>8 DEF n

-------------------------------------------------------------------------------
\* A log that starts again is empty, and numbered from anywhere.
LEMMA NewLogIsNumbered ==
  /\ Log!NewLog \in Log!Logs /\ Len(Log!NewLog.items) = 0 /\ Log!IndexOf(Log!NewLog) = 0
  /\ Log!NewLog.dropped = 0
  /\ \A b : Numbered(Log!NewLog, b)
<1>1. Log!NewLog.items = << >> /\ Log!NewLog.dropped = 0
  BY DEF Log!NewLog
<1>2. << >> \in Seq(Log!Entries)
  OBVIOUS
<1>3. Log!NewLog \in Log!Logs
  BY <1>2 DEF Log!NewLog, Log!Logs
<1>4. Len(Log!NewLog.items) = 0
  BY <1>1
<1> QED
  BY <1>1, <1>3, <1>4 DEF Log!IndexOf, Numbered

\* A mark of the present epoch is one.
LEMMA MarkType ==
  ASSUME NEW index \in Nat, NEW at \in Nat, epoch \in Nat
  PROVE  /\ Mark(index, at) \in Marks
         /\ Mark(index, at).index = index /\ Mark(index, at).at = at
         /\ Mark(index, at).epoch = epoch
  BY DEF Mark, Marks

\* The first state.
LEMMA InitInv == Init => IInv
<1> SUFFICES ASSUME Init PROVE IInv
  OBVIOUS
<1>1. up /\ log = Log!NewLog /\ said = 0 /\ base = 0 /\ epoch = 0 /\ pid = 1
  BY DEF Init
<1>2. /\ mark = [index |-> 0, at |-> 0, epoch |-> 0]
      /\ entry = [pid |-> 0, mark |-> [index |-> 0, at |-> 0, epoch |-> 0]]
  BY DEF Init, NoBlock, NoPid
<1>3. mark \in Marks /\ entry \in [pid : Nat, mark : Marks]
  BY <1>2 DEF Marks
<1>4. TypeOK
  <2>1. cancelling = FALSE /\ lock = FALSE /\ cancellations = 0 /\ pc = "ready" /\ op = "none"
    BY DEF Init
  <2>2. log \in Log!Logs
    BY <1>1, NewLogIsNumbered
  <2>3. cleared = {} /\ heard = 0
    BY DEF Init
  <2> QED
    BY <1>1, <1>3, <2>1, <2>2, <2>3 DEF TypeOK, Places
<1>5. LogIsNumbered
  BY <1>1, NewLogIsNumbered, BoundsAssumption DEF LogIsNumbered, Numbered
<1>6. MarkIsRecorded(mark) /\ ~InBlock /\ entry.pid <= pid
  BY <1>1, <1>2 DEF MarkIsRecorded, InBlock, NoPid
<1>7. MarksFollow
  BY <1>2, <1>6 DEF MarksFollow, Current
<1>8. Doing
  BY DEF Init, Doing
<1>9. Counted
  BY <1>1, NewLogHasNone DEF Init, Counted
<1>10. Listened
  BY <1>1 DEF Init, Listened
<1> QED
  BY <1>4, <1>5, <1>6, <1>7, <1>8, <1>9, <1>10 DEF IInv

\* The steps that change nothing the log's numbering speaks of.
Quiet ==
  \/ SpeechCanceled \/ MarkAction \/ EnterBlock \/ LeaveBlock
  \/ \E o \in {"reset", "clear"} : AskClear(o)
  \/ ClearCount \/ CallFails \/ Reattach
  \/ \E o \in {"hear", "exit"} : Listen(o)
  \/ CheckFinds \/ CheckMisses \/ PollAgain \/ Expire

\* They change nothing of NVDA's log and its history.
LEMMA QuietLeaves ==
  ASSUME Quiet
  PROVE  UNCHANGED <<up, log, said, base, epoch, cleared>>
  BY DEF Quiet, SpeechCanceled, MarkAction, EnterBlock, LeaveBlock, AskClear, ClearCount,
         CallFails, Reattach, Listen, CheckFinds, CheckMisses, PollAgain, Expire, EndOfWait,
         nvdaVars, hostVars, ghosts

\* A step speaks, starts the log again, or does neither.
LEMMA EpochStep ==
  ASSUME TypeOK, Next
  PROVE  \/ epoch' = epoch /\ base' = base /\ said' \in Nat /\ said' >= said
         \/ epoch' = epoch + 1 /\ base' = said /\ said' = said
<1>1. said \in Nat
  BY DEF TypeOK
<1>2. CASE Quiet
  BY <1>1, <1>2, QuietLeaves
<1>3. CASE \E text \in Texts : SpeechQueued(text)
  BY <1>1, <1>3 DEF SpeechQueued
<1>4. CASE MarkCanceled \/ Crash \/ RelaunchFails
  BY <1>1, <1>4 DEF MarkCanceled, Crash, RelaunchFails, Dead, ghosts
<1>5. CASE ClearItems \/ Relaunch
  BY <1>5 DEF ClearItems, Emptied, Relaunch
<1> QED
  BY <1>2, <1>3, <1>4, <1>5 DEF Next, Quiet

\* Every step keeps the log numbered.
LEMMA LogInv ==
  ASSUME IInv, Next
  PROVE  LogIsNumbered' /\ log' \in Log!Logs
<1>1. log \in Log!Logs /\ said \in Nat /\ base \in Nat
  BY DEF IInv, TypeOK
<1>2. LogIsNumbered /\ Numbered(log, base)
  BY DEF IInv, LogIsNumbered, Numbered
<1>3. CASE Quiet
  BY <1>1, <1>2, <1>3, QuietLeaves DEF LogIsNumbered
<1>4. ASSUME NEW text \in Texts, SpeechQueued(text)
      PROVE  LogIsNumbered' /\ log' \in Log!Logs
  <2> DEFINE e == [item |-> [text |-> text, nr |-> said + 1], cancelled |-> FALSE]
             n == Log!Appended(log, e)
  <2>1. up /\ up' = up /\ log' = n /\ said' = said + 1 /\ base' = base
    BY <1>4 DEF SpeechQueued
  <2>2. e \in Log!Entries /\ e.item.nr = said + 1
    BY <1>1 DEF Log!Entries, Utterances
  <2>3. said = base + Log!IndexOf(log) /\ Len(log.items) <= Capacity /\ base <= said
    BY <1>2, <2>1 DEF LogIsNumbered
  <2>4. e.item.nr = base + Log!IndexOf(log) + 1
    BY <2>2, <2>3
  <2> HIDE DEF e
  <2>5. /\ n \in Log!Logs /\ Len(n.items) <= Capacity
        /\ Log!IndexOf(n) = Log!IndexOf(log) + 1 /\ Numbered(n, base)
    BY <1>1, <1>2, <2>2, <2>3, <2>4, AppendedIsNumbered
  <2> HIDE DEF n
  <2>6. Log!IndexOf(log) \in Nat
    BY <1>1 DEF Log!IndexOf, Log!Logs
  <2>7. said' = base' + Log!IndexOf(n) /\ base' <= said'
    BY <1>1, <2>1, <2>3, <2>5, <2>6
  <2> QED
    BY <2>1, <2>5, <2>7 DEF LogIsNumbered, Numbered, Log!IndexOf
<1>5. CASE MarkCanceled
  <2> DEFINE n == Log!MarkedLast(log)
  <2>1. up /\ up' = up /\ log' = n /\ said' = said /\ base' = base
    BY <1>5 DEF MarkCanceled, ghosts
  <2>2. /\ n \in Log!Logs /\ Len(n.items) = Len(log.items)
        /\ Log!IndexOf(n) = Log!IndexOf(log) /\ Numbered(n, base)
    BY <1>1, <1>2, MarkedIsNumbered
  <2> HIDE DEF n
  <2> QED
    BY <1>2, <2>1, <2>2 DEF LogIsNumbered, Numbered, Log!IndexOf
<1>6. CASE Crash \/ RelaunchFails
  <2>1. ~up' /\ log' = Log!NewLog /\ said' = said /\ base' = base
    BY <1>6 DEF Crash, RelaunchFails, Dead, ghosts
  <2> QED
    BY <1>2, <2>1, NewLogIsNumbered, BoundsAssumption DEF LogIsNumbered, Numbered, Log!NewLog
<1>7. CASE ClearItems \/ Relaunch
  <2>1. up' /\ log' = Log!NewLog /\ said' = said /\ base' = said
    BY <1>7 DEF ClearItems, Emptied, Relaunch, Log!Cleared
  <2>2. Log!NewLog.items = << >> /\ Log!NewLog.dropped = 0 /\ Log!NewLog \in Log!Logs
    BY NewLogIsNumbered DEF Log!NewLog
  <2>3. Log!IndexOf(log)' = 0
    BY <2>1, <2>2 DEF Log!IndexOf
  <2> QED
    BY <1>1, <2>1, <2>2, <2>3, BoundsAssumption DEF LogIsNumbered, Log!IndexOf
<1> QED
  BY <1>3, <1>4, <1>5, <1>6, <1>7 DEF Next, Quiet

\* Where an action's mark is recorded: the present epoch, and all that was said.
LEMMA NewMarkIsRecorded ==
  ASSUME IInv, up
  PROVE  /\ NewMark \in Marks /\ MarkIsRecorded(NewMark)
         /\ NewMark.epoch = epoch
<1>1. said \in Nat /\ base \in Nat /\ epoch \in Nat /\ log \in Log!Logs
  BY DEF IInv, TypeOK
<1>2. said = base + Log!IndexOf(log)
  BY DEF IInv, LogIsNumbered
<1>3. Log!IndexOf(log) \in Nat
  BY <1>1 DEF Log!IndexOf, Log!Logs
<1>4. /\ NewMark \in Marks /\ NewMark.index = Log!IndexOf(log)
      /\ NewMark.at = said /\ NewMark.epoch = epoch
  BY <1>1, <1>3, MarkType DEF NewMark
<1> QED
  BY <1>1, <1>2, <1>4 DEF MarkIsRecorded

\* The start of the present epoch's log.
LEMMA StartIsRecorded ==
  ASSUME IInv
  PROVE  /\ Mark(0, base) \in Marks /\ MarkIsRecorded(Mark(0, base))
         /\ Mark(0, base).index = 0 /\ Mark(0, base).at = base
<1>1. said \in Nat /\ base \in Nat /\ epoch \in Nat /\ base <= said
  BY DEF IInv, TypeOK, LogIsNumbered
<1>2. /\ Mark(0, base) \in Marks /\ Mark(0, base).index = 0
      /\ Mark(0, base).at = base /\ Mark(0, base).epoch = epoch
  BY <1>1, MarkType
<1> QED
  BY <1>1, <1>2 DEF MarkIsRecorded

\* What reset() leaves as the mark.
LEMMA MarkAfterClearIsRecorded ==
  ASSUME IInv
  PROVE  MarkAfterClear \in Marks /\ MarkIsRecorded(MarkAfterClear)
<1>1. mark \in Marks /\ MarkIsRecorded(mark)
  BY DEF IInv, TypeOK
<1> QED
  BY <1>1, StartIsRecorded DEF MarkAfterClear

\* The flags of NVDA stay flags.
LEMMA FlagTypes ==
  ASSUME IInv, Next
  PROVE  up' \in BOOLEAN /\ cancelling' \in BOOLEAN /\ lock' \in BOOLEAN
<1>1. up \in BOOLEAN /\ cancelling \in BOOLEAN /\ lock \in BOOLEAN
  BY DEF IInv, TypeOK
<1>2. TRUE \in BOOLEAN /\ FALSE \in BOOLEAN
  OBVIOUS
<1>3. CASE Quiet \/ \E text \in Texts : SpeechQueued(text)
  BY <1>1, <1>2, <1>3, Zenon
     DEF Quiet, SpeechCanceled, MarkAction, EnterBlock, LeaveBlock, AskClear, ClearCount,
         CallFails, Reattach, Listen, CheckFinds, CheckMisses, PollAgain, Expire, EndOfWait,
         SpeechQueued, nvdaVars
<1>4. CASE MarkCanceled \/ Crash \/ RelaunchFails \/ ClearItems \/ Relaunch
  BY <1>1, <1>2, <1>4, Zenon
     DEF MarkCanceled, Crash, RelaunchFails, Dead, ClearItems, Relaunch
<1> QED
  BY <1>3, <1>4 DEF Next, Quiet

\* The count of cancellations and the ghosts keep their types.
LEMMA NvdaTypes ==
  ASSUME IInv, Next
  PROVE  /\ cancellations' \in Nat
         /\ said' \in Nat /\ base' \in Nat /\ epoch' \in Nat /\ heard' \in Nat
         /\ cleared' \subseteq [by : {"reset", "clear"}, epoch : Nat]
<1>1. /\ cancellations \in Nat
      /\ said \in Nat /\ base \in Nat /\ epoch \in Nat /\ heard \in Nat
      /\ cleared \subseteq [by : {"reset", "clear"}, epoch : Nat]
  BY DEF IInv, TypeOK
<1>2. CASE \E text \in Texts : SpeechQueued(text)
  BY <1>1, <1>2 DEF SpeechQueued
<1>3. CASE SpeechCanceled \/ MarkCanceled
  BY <1>1, <1>3 DEF SpeechCanceled, MarkCanceled, ghosts
<1>4. CASE Crash \/ RelaunchFails
  BY <1>1, <1>4 DEF Crash, RelaunchFails, Dead, ghosts
<1>5. CASE ClearItems
  <2>1. op \in {"reset", "clear"}
    BY <1>5 DEF IInv, Doing, ClearItems
  <2>2. [by |-> op, epoch |-> epoch + 1] \in [by : {"reset", "clear"}, epoch : Nat]
    BY <1>1, <2>1
  <2>3. cleared' = cleared \cup {[by |-> op, epoch |-> epoch + 1]}
    BY <1>5 DEF ClearItems, Emptied
  <2>4. cleared' \subseteq [by : {"reset", "clear"}, epoch : Nat]
    BY <1>1, <2>2, <2>3
  <2> QED
    BY <1>1, <1>5, <2>4 DEF ClearItems, Emptied
<1>6. CASE ClearCount
  BY <1>1, <1>6 DEF ClearCount, ghosts
<1>7. CASE Relaunch
  BY <1>1, <1>7 DEF Relaunch
<1>8. CASE \/ MarkAction \/ EnterBlock \/ LeaveBlock \/ CallFails \/ Reattach
           \/ CheckFinds \/ CheckMisses \/ PollAgain \/ Expire
           \/ \E o \in {"reset", "clear"} : AskClear(o)
           \/ \E o \in {"hear", "exit"} : Listen(o)
  BY <1>1, <1>8 DEF MarkAction, EnterBlock, LeaveBlock, CallFails, Reattach, CheckFinds,
                    CheckMisses, PollAgain, Expire, EndOfWait, AskClear, Listen, nvdaVars, ghosts
<1> QED
  BY <1>2, <1>3, <1>4, <1>5, <1>6, <1>7, <1>8 DEF Next

\* The variables of the host keep their types, and no block was entered at a later process.
LEMMA HostTypes ==
  ASSUME IInv, Next
  PROVE  /\ pid' \in Nat /\ mark' \in Marks /\ entry' \in [pid : Nat, mark : Marks]
         /\ pc' \in Places
         /\ op' \in {"none", "reset", "clear", "hear", "exit", "found", "absent"}
         /\ entry'.pid <= pid'
<1>1. /\ pid \in Nat /\ mark \in Marks /\ entry \in [pid : Nat, mark : Marks]
      /\ pc \in Places
      /\ op \in {"none", "reset", "clear", "hear", "exit", "found", "absent"}
      /\ entry.pid <= pid
  BY DEF IInv, TypeOK
<1>2. NoBlock \in [pid : Nat, mark : Marks] /\ NoBlock.pid = 0
  BY DEF NoBlock, NoPid, Marks
<1>3. CASE \/ \E text \in Texts : SpeechQueued(text)
           \/ SpeechCanceled \/ MarkCanceled \/ Crash
  BY <1>1, <1>3 DEF SpeechQueued, SpeechCanceled, MarkCanceled, Crash, hostVars
<1>4. CASE \/ \E o \in {"reset", "clear"} : AskClear(o)
           \/ \E o \in {"hear", "exit"} : Listen(o)
  BY <1>1, <1>4 DEF AskClear, Listen, Places
<1>5. CASE ClearItems \/ Relaunch \/ RelaunchFails \/ CheckMisses \/ PollAgain
  BY <1>1, <1>5 DEF ClearItems, Relaunch, RelaunchFails, CheckMisses, PollAgain, Places
<1>6. CASE MarkAction
  BY <1>1, <1>6, NewMarkIsRecorded DEF MarkAction
<1>7. CASE EnterBlock
  <2>1. NewMark \in Marks
    BY <1>7, NewMarkIsRecorded DEF EnterBlock
  <2>2. mark' = NewMark /\ entry' = [pid |-> pid, mark |-> NewMark]
    BY <1>7 DEF EnterBlock
  <2>3. entry' \in [pid : Nat, mark : Marks] /\ entry'.pid = pid
    BY <1>1, <2>1, <2>2
  <2> QED
    BY <1>1, <1>7, <2>1, <2>2, <2>3 DEF EnterBlock
<1>8. CASE LeaveBlock \/ CheckFinds \/ Expire
  <2>1. entry' \in {entry, NoBlock} /\ pid' = pid /\ mark' = mark
    BY <1>8 DEF LeaveBlock, CheckFinds, Expire, EndOfWait
  <2>2. entry' \in [pid : Nat, mark : Marks] /\ entry'.pid <= pid
    BY <1>1, <1>2, <2>1
  <2>3. pc' = "ready" /\ op' \in {"none", "found", "absent"}
    BY <1>1, <1>8 DEF LeaveBlock, CheckFinds, Expire, EndOfWait
  <2> QED
    BY <1>1, <2>1, <2>2, <2>3 DEF Places
<1>9. CASE ClearCount \/ CallFails
  BY <1>1, <1>9, MarkAfterClearIsRecorded DEF ClearCount, CallFails, Places
<1>10. CASE Reattach
  BY <1>1, <1>10, StartIsRecorded DEF Reattach, Places
<1> QED
  BY <1>3, <1>4, <1>5, <1>6, <1>7, <1>8, <1>9, <1>10 DEF Next

\* Every step keeps the types.
LEMMA TypesInv ==
  ASSUME IInv, Next
  PROVE  TypeOK'
<1>1. log' \in Log!Logs
  BY LogInv
<1> QED
  BY <1>1, FlagTypes, NvdaTypes, HostTypes, Zenon DEF TypeOK

\* A mark that was recorded stays so, whether the log goes on or starts again.
LEMMA RecordedStays ==
  ASSUME IInv, Next, NEW m \in Marks, MarkIsRecorded(m)
  PROVE  MarkIsRecorded(m)'
<1>1. m.index \in Nat /\ m.at \in Nat /\ m.epoch \in Nat
  BY DEF Marks
<1>2. said \in Nat /\ base \in Nat /\ epoch \in Nat /\ base <= said
  BY DEF IInv, TypeOK, LogIsNumbered
<1>3. \/ epoch' = epoch /\ base' = base /\ said' \in Nat /\ said' >= said
      \/ epoch' = epoch + 1 /\ base' = said /\ said' = said
  BY EpochStep DEF IInv
<1> QED
  BY <1>1, <1>2, <1>3 DEF MarkIsRecorded

\* Every step keeps the marks recorded.
LEMMA RecordedInv ==
  ASSUME IInv, Next
  PROVE  MarkIsRecorded(mark)' /\ (InBlock => MarkIsRecorded(entry.mark))'
<1>1. /\ mark \in Marks /\ MarkIsRecorded(mark)
      /\ entry \in [pid : Nat, mark : Marks] /\ (InBlock => MarkIsRecorded(entry.mark))
  BY DEF IInv, TypeOK
<1>2. entry.mark \in Marks
  BY <1>1
<1>3. mark' = mark => MarkIsRecorded(mark)'
  BY <1>1, RecordedStays DEF MarkIsRecorded
<1>4. entry' = entry => (InBlock => MarkIsRecorded(entry.mark))'
  BY <1>1, <1>2, RecordedStays DEF MarkIsRecorded, InBlock
<1>5. entry' = NoBlock => ~InBlock'
  BY DEF NoBlock, InBlock
<1>6. CASE \/ \E text \in Texts : SpeechQueued(text)
           \/ SpeechCanceled \/ MarkCanceled \/ Crash
           \/ \E o \in {"reset", "clear"} : AskClear(o)
           \/ \E o \in {"hear", "exit"} : Listen(o)
           \/ ClearItems \/ Relaunch \/ RelaunchFails \/ CheckMisses \/ PollAgain
  <2>1. mark' = mark /\ entry' = entry
    BY <1>6 DEF SpeechQueued, SpeechCanceled, MarkCanceled, Crash, AskClear, Listen,
                ClearItems, Relaunch, RelaunchFails, CheckMisses, PollAgain, hostVars
  <2> QED
    BY <1>3, <1>4, <2>1
<1>7. CASE LeaveBlock \/ CheckFinds \/ Expire
  <2>1. mark' = mark /\ entry' \in {entry, NoBlock}
    BY <1>7 DEF LeaveBlock, CheckFinds, Expire, EndOfWait
  <2> QED
    BY <1>3, <1>4, <1>5, <2>1
<1>8. CASE MarkAction \/ EnterBlock
  <2>1. /\ mark' = NewMark /\ UNCHANGED ghosts
        /\ entry' \in {entry, [pid |-> pid, mark |-> NewMark]}
    BY <1>8 DEF MarkAction, EnterBlock
  <2>2. NewMark \in Marks /\ MarkIsRecorded(NewMark)
    BY <1>8, NewMarkIsRecorded DEF MarkAction, EnterBlock
  <2>3. MarkIsRecorded(mark)'
    BY <2>1, <2>2 DEF MarkIsRecorded, ghosts
  <2>4. CASE entry' = [pid |-> pid, mark |-> NewMark]
    <3>1. entry'.mark = NewMark
      BY <2>4
    <3> QED
      BY <2>1, <2>2, <2>3, <3>1 DEF MarkIsRecorded, ghosts
  <2> QED
    BY <1>4, <2>1, <2>3, <2>4
<1>9. CASE ClearCount \/ CallFails
  <2>1. mark' = MarkAfterClear /\ entry' = entry /\ UNCHANGED <<said, base, epoch>>
    BY <1>9 DEF ClearCount, CallFails, ghosts
  <2>2. MarkIsRecorded(mark)'
    BY <2>1, MarkAfterClearIsRecorded DEF MarkIsRecorded
  <2> QED
    BY <1>4, <2>1, <2>2
<1>10. CASE Reattach
  <2>1. mark' = Mark(0, base) /\ entry' = entry /\ UNCHANGED ghosts
    BY <1>10 DEF Reattach
  <2>2. MarkIsRecorded(mark)'
    BY <2>1, StartIsRecorded DEF MarkIsRecorded, ghosts
  <2> QED
    BY <1>4, <2>1, <2>2
<1> QED
  BY <1>6, <1>7, <1>8, <1>9, <1>10 DEF Next

\* A mark is overtaken by the clear that empties its log.
LEMMA ClearOvertakes ==
  ASSUME IInv, ClearItems, NEW m \in Marks, m.epoch <= epoch, NEW by, op \in by
  PROVE  Current(m, by)'
<1>1. epoch \in Nat /\ m.epoch \in Nat /\ m.index \in Nat
  BY DEF IInv, TypeOK, Marks
<1>2. [by |-> op, epoch |-> epoch + 1] \in cleared'
  BY DEF ClearItems, Emptied
<1>3. epoch + 1 > m.epoch
  BY <1>1
<1>4. \E c \in cleared' : c.by \in by /\ c.epoch > m.epoch
  BY <1>2, <1>3
<1>5. m.index > 0 \/ m.index = 0
  BY <1>1
<1> QED
  BY <1>4, <1>5 DEF Current, Overtaken

\* Every step keeps the marks with the log.
LEMMA FollowInv ==
  ASSUME IInv, Next
  PROVE  MarksFollow'
<1> SUFFICES ASSUME up', pc' # "launching"
             PROVE  /\ ~(pc' = "clearing" /\ op' = "reset") => Current(mark, {"clear"})'
                    /\ (InBlock /\ pid = entry.pid)' => Current(entry.mark, {"clear", "reset"})'
  BY DEF MarksFollow
<1>1. /\ mark \in Marks /\ entry \in [pid : Nat, mark : Marks] /\ pid \in Nat
      /\ entry.pid <= pid
  BY DEF IInv, TypeOK
<1>2. up /\ pc # "launching" =>
        /\ ~(pc = "clearing" /\ op = "reset") => Current(mark, {"clear"})
        /\ InBlock /\ pid = entry.pid => Current(entry.mark, {"clear", "reset"})
  BY DEF IInv, MarksFollow
<1>3. ASSUME UNCHANGED <<epoch, cleared, mark>>, Current(mark, {"clear"})
      PROVE  Current(mark, {"clear"})'
  BY <1>3 DEF Current, Overtaken
<1>4. ASSUME UNCHANGED <<epoch, cleared, pid>>, up, pc # "launching", entry' \in {entry, NoBlock}
      PROVE  (InBlock /\ pid = entry.pid)' => Current(entry.mark, {"clear", "reset"})'
  <2>1. entry' = NoBlock => ~InBlock'
    BY DEF NoBlock, InBlock
  <2>2. CASE entry' = entry
    BY <1>2, <1>4, <2>2 DEF InBlock, Current, Overtaken
  <2> QED
    BY <1>4, <2>1, <2>2
<1>5. CASE (\E text \in Texts : SpeechQueued(text)) \/ SpeechCanceled \/ MarkCanceled
  <2>1. UNCHANGED <<up, pc, op, pid, mark, entry, epoch, cleared>>
    BY <1>5 DEF SpeechQueued, SpeechCanceled, MarkCanceled, hostVars, ghosts
  <2> QED
    BY <1>2, <1>3, <1>4, <2>1
<1>6. CASE Crash \/ RelaunchFails
  BY <1>6 DEF Crash, RelaunchFails, Dead
<1>7. CASE Relaunch
  BY <1>7 DEF Relaunch
<1>8. CASE MarkAction \/ EnterBlock
  <2>1. /\ up /\ pc = "ready" /\ mark' = NewMark /\ UNCHANGED <<epoch, cleared, pid>>
        /\ entry' \in {entry, [pid |-> pid, mark |-> NewMark]}
    BY <1>8 DEF MarkAction, EnterBlock, ghosts
  <2>2. NewMark.epoch = epoch
    BY <2>1, NewMarkIsRecorded
  <2>3. Current(mark, {"clear"})'
    BY <2>1, <2>2 DEF Current
  <2>4. CASE entry' = [pid |-> pid, mark |-> NewMark]
    <3>1. entry'.mark = NewMark
      BY <2>4
    <3> QED
      BY <2>1, <2>2, <2>3, <3>1 DEF Current
  <2> QED
    BY <1>4, <2>1, <2>3, <2>4
<1>9. CASE \/ LeaveBlock \/ CheckFinds \/ CheckMisses \/ PollAgain \/ Expire
           \/ \E o \in {"reset", "clear"} : AskClear(o)
           \/ \E o \in {"hear", "exit"} : Listen(o)
  <2>1. /\ UNCHANGED <<up, epoch, cleared, pid, mark>> /\ entry' \in {entry, NoBlock}
        /\ pc \in {"ready", "poll", "checked"}
    BY <1>9 DEF LeaveBlock, CheckFinds, CheckMisses, PollAgain, Expire, EndOfWait, AskClear, Listen,
                nvdaVars, ghosts
  <2> QED
    BY <1>2, <1>3, <1>4, <2>1
<1>10. CASE ClearItems
  <2>1. mark' = mark /\ entry' = entry /\ op' = op /\ pc' = "clearing"
    BY <1>10 DEF ClearItems
  <2>2. op \in {"reset", "clear"}
    BY <1>10 DEF IInv, Doing, ClearItems
  <2>3. mark.epoch <= epoch /\ (InBlock => entry.mark.epoch <= epoch)
    BY DEF IInv, MarkIsRecorded
  <2>4. op = "clear" => Current(mark, {"clear"})'
    <3> SUFFICES ASSUME op = "clear" PROVE Current(mark, {"clear"})'
      OBVIOUS
    <3>1. op \in {"clear"}
      OBVIOUS
    <3>2. \A m \in Marks : m.epoch <= epoch =>
            \/ m.epoch = epoch' \/ m.index = 0
            \/ m.index > 0 /\ \E c \in cleared' : c.by \in {"clear"} /\ c.epoch > m.epoch
      BY <1>10, <3>1, ClearOvertakes DEF Current, Overtaken
    <3> QED
      BY <1>1, <2>1, <2>3, <3>2 DEF Current, Overtaken
  <2>5. InBlock => Current(entry.mark, {"clear", "reset"})'
    <3> SUFFICES ASSUME InBlock PROVE Current(entry.mark, {"clear", "reset"})'
      OBVIOUS
    <3>1. \A m \in Marks : m.epoch <= epoch =>
            \/ m.epoch = epoch' \/ m.index = 0
            \/ m.index > 0 /\ \E c \in cleared' : c.by \in {"clear", "reset"} /\ c.epoch > m.epoch
      BY <1>10, <2>2, ClearOvertakes DEF Current, Overtaken
    <3>2. entry.mark \in Marks
      BY <1>1
    <3> QED
      BY <2>1, <2>3, <3>1, <3>2 DEF Current, Overtaken
  <2> QED
    BY <2>1, <2>2, <2>4, <2>5 DEF InBlock
<1>11. CASE ClearCount
  <2>1. /\ up /\ pc = "clearing" /\ mark' = MarkAfterClear /\ entry' = entry
        /\ UNCHANGED <<epoch, cleared, pid>>
    BY <1>11 DEF ClearCount, ghosts
  <2>2. CASE op = "reset"
    <3>1. mark' = Mark(0, base) /\ mark'.index = 0
      BY <2>1, <2>2, StartIsRecorded DEF MarkAfterClear
    <3>2. Current(mark, {"clear"})'
      BY <3>1 DEF Current
    <3> QED
      BY <1>4, <2>1, <3>2
  <2>3. CASE op # "reset"
    <3>1. mark' = mark
      BY <2>1, <2>3 DEF MarkAfterClear
    <3> QED
      BY <1>2, <1>3, <1>4, <2>1, <2>3, <3>1
  <2> QED
    BY <2>2, <2>3
<1>12. CASE CallFails
  BY <1>12 DEF CallFails, nvdaVars
<1>13. CASE Reattach
  <2>1. mark' = Mark(0, base) /\ entry' = entry /\ pid' = pid + 1
    BY <1>13 DEF Reattach
  <2>2. mark'.index = 0
    BY <2>1, StartIsRecorded
  <2>3. pid' # entry'.pid
    BY <1>1, <2>1
  <2> QED
    BY <2>2, <2>3 DEF Current
<1> QED
  BY <1>5, <1>6, <1>7, <1>8, <1>9, <1>10, <1>11, <1>12, <1>13 DEF Next

\* Every step leaves the host doing what fits where it is.
LEMMA DoingInv ==
  ASSUME IInv, Next
  PROVE  Doing'
<1>1. Doing
  BY DEF IInv
<1>2. CASE \/ \E text \in Texts : SpeechQueued(text)
           \/ SpeechCanceled \/ MarkCanceled \/ Crash
  <2>1. UNCHANGED <<pc, op, entry>>
    BY <1>2 DEF SpeechQueued, SpeechCanceled, MarkCanceled, Crash, hostVars
  <2> QED
    BY <1>1, <2>1 DEF Doing, InBlock
<1>3. CASE MarkAction \/ EnterBlock \/ LeaveBlock
  <2>1. pc' = "ready"
    BY <1>3 DEF MarkAction, EnterBlock, LeaveBlock
  <2> QED
    BY <2>1 DEF Doing
<1>4. CASE \/ ClearCount \/ CallFails \/ Relaunch \/ Reattach \/ RelaunchFails
           \/ CheckFinds \/ Expire
  <2>1. pc' \in {"ready", "launching"}
    BY <1>4 DEF ClearCount, CallFails, Relaunch, Reattach, RelaunchFails, CheckFinds, Expire, EndOfWait
  <2> QED
    BY <2>1 DEF Doing
<1>5. CASE \E o \in {"reset", "clear"} : AskClear(o)
  BY <1>5 DEF AskClear, Doing
<1>6. CASE ClearItems
  BY <1>1, <1>6 DEF ClearItems, Doing
<1>7. CASE \E o \in {"hear", "exit"} : Listen(o)
  BY <1>7 DEF Listen, Doing, InBlock
<1>8. CASE CheckMisses \/ PollAgain
  BY <1>1, <1>8 DEF CheckMisses, PollAgain, Doing, InBlock
<1> QED
  BY <1>2, <1>3, <1>4, <1>5, <1>6, <1>7, <1>8 DEF Next

\* Every step keeps the count ahead of the marks.
LEMMA CountedInv ==
  ASSUME IInv, Next
  PROVE  Counted'
<1> DEFINE count == Cardinality(CancelledIn(log))
           owed == IF cancelling /\ log.items # << >> THEN 1 ELSE 0
<1>1. /\ log \in Log!Logs /\ cancellations \in Nat /\ count \in Nat /\ cancelling \in BOOLEAN
      /\ Len(log.items) <= Capacity
  BY CancelledIsFinite DEF IInv, TypeOK, LogIsNumbered
<1>2. /\ count + owed <= cancellations
      /\ lock => CancelledIn(log) = {} /\ (cancelling => log.items = << >>)
      /\ up /\ pc = "clearing" => lock
  BY DEF IInv, Counted
<1>3. CASE \/ MarkAction \/ EnterBlock \/ LeaveBlock
           \/ CheckFinds \/ CheckMisses \/ PollAgain \/ Expire
           \/ \E o \in {"reset", "clear"} : AskClear(o)
           \/ \E o \in {"hear", "exit"} : Listen(o)
  <2>1. UNCHANGED nvdaVars /\ pc' # "clearing"
    BY <1>3 DEF MarkAction, EnterBlock, LeaveBlock, CheckFinds, CheckMisses, PollAgain, Expire,
                EndOfWait, AskClear, Listen
  <2> QED
    BY <1>2, <2>1 DEF Counted, CancelledIn, nvdaVars
<1>4. CASE CallFails \/ Reattach
  <2>1. UNCHANGED nvdaVars /\ pc' # "clearing"
    BY <1>4 DEF CallFails, Reattach
  <2> QED
    BY <1>2, <2>1 DEF Counted, CancelledIn, nvdaVars
<1>5. CASE Crash \/ RelaunchFails \/ Relaunch
  <2>1. /\ log' = Log!NewLog /\ cancellations' = 0 /\ lock' = FALSE /\ cancelling' = FALSE
        /\ ~(up' /\ pc' = "clearing")
    BY <1>5 DEF Crash, RelaunchFails, Relaunch, Dead
  <2>2. Cardinality(CancelledIn(log')) = 0
    BY <2>1, NewLogHasNone
  <2> QED
    BY <2>1, <2>2 DEF Counted, CancelledIn
<1>6. CASE SpeechCanceled
  <2>1. /\ ~cancelling /\ ~lock /\ cancellations' = cancellations + 1
        /\ UNCHANGED <<up, log, lock, pc>>
    BY <1>6 DEF SpeechCanceled, hostVars
  <2> HIDE DEF count
  <2>2. count + (IF cancelling' /\ log'.items # << >> THEN 1 ELSE 0) <= cancellations'
    BY <1>1, <1>2, <2>1
  <2> QED
    BY <1>2, <2>1, <2>2 DEF Counted, CancelledIn, count
<1>7. CASE \E text \in Texts : SpeechQueued(text)
  <2>1. PICK text \in Texts : SpeechQueued(text)
    BY <1>7
  <2> DEFINE e == [item |-> [text |-> text, nr |-> said + 1], cancelled |-> FALSE]
             n == Log!Appended(log, e)
  <2>2. ~cancelling /\ log' = n /\ UNCHANGED <<up, cancelling, cancellations, lock, pc>>
    BY <2>1 DEF SpeechQueued, hostVars
  <2>3. e \in Log!Entries /\ ~e.cancelled
    BY DEF IInv, TypeOK, Log!Entries, Utterances
  <2> HIDE DEF e
  <2>4. Cardinality(CancelledIn(n)) <= count /\ (CancelledIn(log) = {} => CancelledIn(n) = {})
    BY <1>1, <2>3, AppendedAddsNone
  <2>5. Cardinality(CancelledIn(n)) \in Nat
    <3>1. log' \in Log!Logs
      BY LogInv
    <3> QED
      BY <2>2, <3>1, CancelledIsFinite
  <2> HIDE DEF n, count
  <2>6. Cardinality(CancelledIn(log')) <= cancellations'
    BY <1>1, <1>2, <2>2, <2>4, <2>5
  <2>7. CancelledIn(log)' = CancelledIn(log')
    BY DEF CancelledIn
  <2> QED
    BY <1>1, <1>2, <2>2, <2>4, <2>5, <2>6, <2>7 DEF Counted
<1>8. CASE MarkCanceled
  <2> DEFINE n == Log!MarkedLast(log)
  <2>1. cancelling /\ ~cancelling' /\ log' = n /\ UNCHANGED <<up, cancellations, lock, pc>>
    BY <1>8 DEF MarkCanceled, hostVars
  <2>2. /\ Cardinality(CancelledIn(n)) <= count + 1
        /\ log.items = << >> => CancelledIn(n) = CancelledIn(log)
    BY <1>1, MarkedAddsOne
  <2>3. Cardinality(CancelledIn(n)) \in Nat
    <3>1. log' \in Log!Logs
      BY LogInv
    <3> QED
      BY <2>1, <3>1, CancelledIsFinite
  <2> HIDE DEF n
  <2>4. CASE log.items = << >>
    BY <1>1, <1>2, <2>1, <2>2, <2>4 DEF Counted, CancelledIn
  <2>5. CASE log.items # << >>
    <3>1. count + 1 <= cancellations /\ ~lock
      BY <1>2, <2>1, <2>5
    <3> HIDE DEF count
    <3>2. Cardinality(CancelledIn(log')) <= cancellations'
      BY <1>1, <2>1, <2>2, <2>3, <3>1
    <3>3. CancelledIn(log)' = CancelledIn(log')
      BY DEF CancelledIn
    <3> QED
      BY <1>1, <1>2, <2>1, <2>3, <3>1, <3>2, <3>3 DEF Counted
  <2> QED
    BY <2>4, <2>5
<1>9. CASE ClearItems
  <2>1. log' = Log!NewLog /\ lock' = TRUE /\ UNCHANGED <<cancelling, cancellations>>
    BY <1>9 DEF ClearItems, Emptied, Log!Cleared
  <2>2. CancelledIn(log)' = {} /\ Cardinality(CancelledIn(log)') = 0 /\ log'.items = << >>
    <3>1. CancelledIn(log)' = CancelledIn(log')
      BY DEF CancelledIn
    <3> QED
      BY <2>1, <3>1, NewLogHasNone
  <2>3. Cardinality(CancelledIn(log))' = 0
    BY <2>2
  <2> QED
    BY <1>1, <2>1, <2>2, <2>3 DEF Counted
<1>10. CASE ClearCount
  <2>1. up /\ pc = "clearing" /\ UNCHANGED <<cancelling, log>>
        /\ cancellations' = 0 /\ lock' = FALSE /\ pc' = "ready"
    BY <1>10 DEF ClearCount
  <2>2. CancelledIn(log) = {} /\ (cancelling => log.items = << >>)
    BY <1>2, <2>1
  <2>3. Cardinality(CancelledIn(log))' = 0
    BY <2>1, <2>2, FS_EmptySet DEF CancelledIn
  <2> QED
    BY <2>1, <2>2, <2>3 DEF Counted
<1> QED
  BY <1>3, <1>4, <1>5, <1>6, <1>7, <1>8, <1>9, <1>10 DEF Next

\* A search from a mark of this epoch, or from the start, shows all it holds from after it.
LEMMA ShowsNew ==
  ASSUME IInv, NEW m \in Marks, MarkIsRecorded(m), m.epoch = epoch \/ m.index = 0,
         NEW u \in Held, u.nr > m.at
  PROVE  u \in Shown(m)
<1>1. log \in Log!Logs /\ base \in Nat /\ m.index \in Nat /\ m.at \in Nat
  BY DEF IInv, TypeOK, Marks
<1>2. PICK j \in 1 .. Len(log.items) : u = log.items[j].item
  BY DEF Held
<1>3. u.nr = base + log.dropped + j
  BY <1>2 DEF IInv, LogIsNumbered
<1>4. log.dropped \in Nat /\ j \in Nat /\ j > 0
  BY <1>1 DEF Log!Logs
<1>5. log.dropped + j > m.index
  <2>1. CASE m.epoch = epoch
    <3>1. m.at = base + m.index
      BY <2>1 DEF MarkIsRecorded
    <3> QED
      BY <1>1, <1>3, <1>4, <3>1
  <2>2. CASE m.index = 0
    BY <1>4, <2>2
  <2> QED
    BY <2>1, <2>2
<1>6. PICK k \in 1 .. Len(Log!Since(log, m.index)) : Log!Since(log, m.index)[k] = log.items[j]
  BY <1>1, <1>5, SinceShows
<1> QED
  BY <1>2, <1>6 DEF Shown

\* The mark a block's end searches from is one that was recorded, and follows the log unless
\* the test overtook it.
LEMMA BlockMark ==
  ASSUME IInv, InBlock
  PROVE  /\ SearchMark \in Marks /\ MarkIsRecorded(SearchMark)
         /\ up /\ pc # "launching" /\ ~Overtaken(SearchMark, {"clear", "reset"}) =>
              SearchMark.epoch = epoch \/ SearchMark.index = 0
<1>1. CASE pid = entry.pid
  <2>1. SearchMark = entry.mark
    BY <1>1 DEF SearchMark
  <2>2. entry.mark \in Marks /\ MarkIsRecorded(entry.mark)
    BY DEF IInv, TypeOK
  <2>3. up /\ pc # "launching" => Current(entry.mark, {"clear", "reset"})
    BY <1>1 DEF IInv, MarksFollow
  <2> QED
    BY <2>1, <2>2, <2>3 DEF Current
<1>2. CASE pid # entry.pid
  <2>1. SearchMark = Mark(0, base)
    BY <1>2 DEF SearchMark
  <2> QED
    BY <2>1, StartIsRecorded
<1> QED
  BY <1>1, <1>2

\* The same of the last action's mark, which only clear() overtakes.
LEMMA LastMark ==
  ASSUME IInv
  PROVE  /\ mark \in Marks /\ MarkIsRecorded(mark)
         /\ Attached /\ ~Overtaken(mark, {"clear"}) => mark.epoch = epoch \/ mark.index = 0
  BY DEF IInv, TypeOK, MarksFollow, Attached, Current

\* What a wait searches from is recorded, and follows the log unless the test overtook it.
LEMMA TargetMark ==
  ASSUME IInv, pc \in {"poll", "checked"}, up, ~Overtaken(Target, {"clear", "reset"})
  PROVE  Target \in Marks /\ MarkIsRecorded(Target) /\ (Target.epoch = epoch \/ Target.index = 0)
<1>1. op = "hear" \/ (op = "exit" /\ InBlock)
  BY DEF IInv, Doing
<1>2. CASE op = "hear"
  <2>1. Target = mark
    BY <1>2 DEF Target
  <2>2. ~Overtaken(mark, {"clear"})
    BY <2>1 DEF Overtaken
  <2>3. Attached
    BY DEF Attached
  <2> QED
    BY <2>1, <2>2, <2>3, LastMark
<1>3. CASE op = "exit" /\ InBlock
  <2>1. Target = SearchMark
    BY <1>3 DEF Target
  <2> QED
    BY <1>3, <2>1, BlockMark
<1> QED
  BY <1>1, <1>2, <1>3

\* An entry that is appended is all that comes to a log.
LEMMA AppendedHolds ==
  ASSUME NEW l \in Log!Logs, Len(l.items) <= Capacity, NEW e \in Log!Entries,
         NEW k \in 1 .. Len(Log!Appended(l, e).items)
  PROVE  \/ Log!Appended(l, e).items[k] = e
         \/ \E j \in 1 .. Len(l.items) : Log!Appended(l, e).items[k] = l.items[j]
<1> DEFINE n == Log!Appended(l, e)
<1>1. l \in Lemmas!Logs /\ e \in Lemmas!Entries /\ n = Lemmas!Appended(l, e)
  BY SameLog
<1>2. LET m == Lemmas!Appended(l, e) IN
      /\ m \in Lemmas!Logs
      /\ Len(m.items) = (IF Len(l.items) = Capacity THEN Capacity ELSE Len(l.items) + 1)
      /\ Lemmas!IndexOf(m) = Lemmas!IndexOf(l) + 1
      /\ \A i \in 1 .. Len(m.items) :
           m.items[i] = Append(l.items, e)[i + m.dropped - l.dropped]
  BY <1>1, BoundsAssumption, Lemmas!AppendedKeepsNewest
<1> HIDE DEF n
<1>3. n \in Log!Logs /\ n.dropped + Len(n.items) = l.dropped + Len(l.items) + 1
  BY <1>1, <1>2, SameLog DEF Log!IndexOf
<1>4. /\ l.items \in Seq(Log!Entries) /\ l.dropped \in Nat /\ n.dropped \in Nat
      /\ Len(l.items) \in Nat /\ Len(n.items) \in Nat
  <2>1. l.items \in Seq(Log!Entries) /\ l.dropped \in Nat /\ n.dropped \in Nat
    BY <1>3 DEF Log!Logs
  <2> QED
    BY <1>3, <2>1, CancelledIsFinite
<1>5. Len(n.items) <= Len(l.items) + 1
  BY <1>1, <1>2, <1>4, BoundsAssumption
<1> DEFINE j == k + n.dropped - l.dropped
<1>6. k \in 1 .. Len(n.items) /\ n.items[k] = Append(l.items, e)[j]
  BY <1>1, <1>2 DEF n
<1>7. j \in 1 .. Len(l.items) + 1
  BY <1>3, <1>4, <1>5, <1>6, BoundsAssumption, Lemmas!Shift
<1> HIDE DEF j
<1>8. CASE j \in 1 .. Len(l.items)
  BY <1>4, <1>6, <1>8 DEF n
<1>9. CASE j = Len(l.items) + 1
  <2>1. n.items[k] = e
    BY <1>4, <1>6, <1>9
  <2> QED
    BY <2>1 DEF n
<1> QED
  BY <1>4, <1>7, <1>8, <1>9

\* While the clock is looked at, NVDA adds only what is numbered later.
LEMMA HeldAdds ==
  ASSUME IInv, \/ \E text \in Texts : SpeechQueued(text)
               \/ SpeechCanceled \/ MarkCanceled \/ Crash,
         NEW u \in Held'
  PROVE  u \in Held \/ u.nr = said + 1
<1>1. log \in Log!Logs /\ Len(log.items) <= Capacity /\ said \in Nat
  BY DEF IInv, TypeOK, LogIsNumbered
<1>2. PICK k \in 1 .. Len(log'.items) : u = log'.items[k].item
  BY DEF Held
<1>3. CASE \E text \in Texts : SpeechQueued(text)
  <2>1. PICK text \in Texts : SpeechQueued(text)
    BY <1>3
  <2> DEFINE e == [item |-> [text |-> text, nr |-> said + 1], cancelled |-> FALSE]
  <2>2. log' = Log!Appended(log, e)
    BY <2>1 DEF SpeechQueued
  <2>3. e \in Log!Entries /\ e.item.nr = said + 1
    BY <1>1 DEF Log!Entries, Utterances
  <2> HIDE DEF e
  <2>4. log'.items[k] = e \/ \E j \in 1 .. Len(log.items) : log'.items[k] = log.items[j]
    BY <1>1, <1>2, <2>2, <2>3, AppendedHolds
  <2> QED
    BY <1>2, <2>3, <2>4 DEF Held
<1>4. CASE SpeechCanceled
  <2>1. log' = log
    BY <1>4 DEF SpeechCanceled
  <2> QED
    BY <1>2, <2>1 DEF Held
<1>5. CASE MarkCanceled
  <2> DEFINE c == Log!CancelLastOf(log.items)
  <2>1. log'.items = c
    BY <1>5 DEF MarkCanceled, Log!MarkedLast
  <2>2. log.items \in Seq(Lemmas!Entries)
    BY <1>1, SameLog DEF Log!Logs
  <2>3. /\ Len(Lemmas!CancelLastOf(log.items)) = Len(log.items)
        /\ \A i \in 1 .. Len(log.items) :
             Lemmas!CancelLastOf(log.items)[i] =
               IF i = Len(log.items)
               THEN [item |-> log.items[i].item, cancelled |-> TRUE]
               ELSE log.items[i]
    BY <2>2, BoundsAssumption, Lemmas!CancelLastOfChangesLast
  <2>4. c = Lemmas!CancelLastOf(log.items)
    BY SameLog
  <2> HIDE DEF c
  <2>5. Len(log'.items) = Len(log.items)
    BY <2>1, <2>3, <2>4
  <2>6. k \in 1 .. Len(log.items)
    BY <2>5
  <2>7. log'.items[k] = IF k = Len(log.items)
                        THEN [item |-> log.items[k].item, cancelled |-> TRUE]
                        ELSE log.items[k]
    BY <2>1, <2>3, <2>4, <2>6, Zenon
  <2>8. log'.items[k].item = log.items[k].item
    BY <2>7
  <2> QED
    BY <1>2, <2>6, <2>8 DEF Held
<1>6. CASE Crash
  <2>1. log'.items = << >>
    BY <1>6, NewLogHasNone DEF Crash, Dead
  <2> QED
    BY <1>2, <2>1
<1> QED
  BY <1>3, <1>4, <1>5, <1>6

\* Every step keeps what the last check showed true.
LEMMA ListenedInv ==
  ASSUME IInv, Next
  PROVE  Listened'
<1>1. said \in Nat /\ heard \in Nat /\ heard <= said /\ Listened
  BY DEF IInv, TypeOK, Listened
<1>2. CASE \/ \E text \in Texts : SpeechQueued(text)
           \/ SpeechCanceled \/ MarkCanceled \/ Crash
  <2>1. /\ UNCHANGED <<pid, mark, entry, pc, op, base, epoch, cleared, heard>>
        /\ said' \in {said, said + 1}
    BY <1>2 DEF SpeechQueued, SpeechCanceled, MarkCanceled, Crash, Dead, hostVars, ghosts
  <2>2. heard' <= said'
    BY <1>1, <2>1
  <2>3. Target' = Target /\ (Overtaken(Target, {"clear", "reset"})' <=> Overtaken(Target, {"clear", "reset"}))
    BY <2>1 DEF Target, SearchMark, Mark, Overtaken
  <2>4. ASSUME pc' = "checked", ~Overtaken(Target, {"clear", "reset"})', NEW u \in Held',
               u.nr > Target'.at, u.nr <= heard'
        PROVE  u.text # "wanted"
    <3>1. u \in Held
      <4>1. u \in Held \/ u.nr = said + 1
        BY <1>2, HeldAdds
      <4> QED
        BY <1>1, <2>1, <2>4, <4>1
    <3> QED
      BY <1>1, <2>1, <2>3, <2>4, <3>1 DEF Listened
  <2> QED
    BY <2>2, <2>4 DEF Listened
<1>3. CASE CheckMisses
  <2>1. /\ pc = "poll" /\ up /\ ~Found /\ heard' = said
        /\ UNCHANGED <<log, pid, mark, entry, op, said, base, epoch, cleared>>
    BY <1>3 DEF CheckMisses, nvdaVars
  <2>2. /\ Target' = Target /\ Held' = Held
        /\ Overtaken(Target, {"clear", "reset"})' <=> Overtaken(Target, {"clear", "reset"})
    BY <2>1 DEF Target, SearchMark, Mark, Overtaken, Held
  <2>3. ASSUME ~Overtaken(Target, {"clear", "reset"}), NEW u \in Held, u.nr > Target.at
        PROVE  u.text # "wanted"
    <3>1. u \in Shown(Target)
      BY <2>1, <2>3, TargetMark, ShowsNew
    <3> QED
      BY <2>1, <3>1 DEF Found
  <2> QED
    BY <1>1, <2>1, <2>2, <2>3 DEF Listened
<1>4. CASE \/ MarkAction \/ EnterBlock \/ LeaveBlock
           \/ \E o \in {"reset", "clear"} : AskClear(o)
           \/ ClearItems \/ ClearCount \/ CallFails
           \/ Relaunch \/ Reattach \/ RelaunchFails
           \/ \E o \in {"hear", "exit"} : Listen(o)
           \/ CheckFinds \/ PollAgain \/ Expire
  <2>1. pc' # "checked" /\ said' = said /\ heard' \in {heard, 0, said}
    BY <1>4 DEF MarkAction, EnterBlock, LeaveBlock, AskClear, ClearItems, Emptied, ClearCount,
                CallFails, Relaunch, Reattach, RelaunchFails, Dead, Listen, CheckFinds, PollAgain,
                Expire, EndOfWait, ghosts
  <2> QED
    BY <1>1, <2>1 DEF Listened
<1> QED
  BY <1>2, <1>3, <1>4 DEF Next

\* Every step preserves the invariant.
LEMMA NextInv == IInv /\ [Next]_vars => IInv'
<1> SUFFICES ASSUME IInv, [Next]_vars PROVE IInv'
  OBVIOUS
<1>1. CASE Next
  BY <1>1, TypesInv, LogInv, RecordedInv, HostTypes, FollowInv, DoingInv, CountedInv, ListenedInv DEF IInv
<1>2. CASE UNCHANGED vars
  <2>1. UNCHANGED <<nvdaVars, hostVars, ghosts>>
    BY <1>2 DEF vars
  <2>2. UNCHANGED <<up, cancelling, log, cancellations, lock, pid, mark, entry, pc, op, said,
                    base, epoch, cleared, heard>>
    BY <2>1 DEF nvdaVars, hostVars, ghosts
  <2>3. TypeOK' /\ LogIsNumbered'
    BY <2>2 DEF IInv, TypeOK, LogIsNumbered
  <2>4. MarkIsRecorded(mark)' /\ (InBlock => MarkIsRecorded(entry.mark))' /\ entry'.pid <= pid'
    BY <2>2 DEF IInv, MarkIsRecorded, InBlock
  <2>5. MarksFollow' /\ Doing'
    BY <2>2 DEF IInv, MarksFollow, Doing, Current, Overtaken, InBlock
  <2>6. Counted'
    BY <2>2 DEF IInv, Counted, CancelledIn
  <2>7. Listened'
    BY <2>2 DEF IInv, Listened, Target, SearchMark, Mark, Overtaken, Held
  <2> QED
    BY <2>3, <2>4, <2>5, <2>6, <2>7 DEF IInv
<1> QED
  BY <1>1, <1>2

\* In every behaviour, for every capacity and bound: the inductive invariant of the log, the
\* marks and the host.
THEOREM HearingInvariant == Spec => []IInv
<1>1. Init => IInv
  BY InitInv
<1>2. IInv /\ [Next]_vars => IInv'
  BY NextInv
<1> QED
  BY <1>1, <1>2, PTL DEF Spec

-------------------------------------------------------------------------------
\* A search from a recorded mark shows nothing said before it.
LEMMA ShowsOnlyNew ==
  ASSUME IInv, NEW m \in Marks, MarkIsRecorded(m), NEW u \in Shown(m)
  PROVE  u.nr > m.at
<1>1. log \in Log!Logs /\ base \in Nat /\ m.index \in Nat /\ m.at \in Nat
  BY DEF IInv, TypeOK, Marks
<1>2. PICK k \in 1 .. Len(Log!Since(log, m.index)) : u = Log!Since(log, m.index)[k].item
  BY DEF Shown
<1>3. PICK j \in 1 .. Len(log.items) :
        Log!Since(log, m.index)[k] = log.items[j] /\ log.dropped + j > m.index
  BY <1>1, <1>2, SinceShows
<1>4. u.nr = base + log.dropped + j
  BY <1>2, <1>3 DEF IInv, LogIsNumbered
<1>5. log.dropped \in Nat /\ j \in Nat
  BY <1>1 DEF Log!Logs
<1>6. m.at <= base + m.index
  BY <1>1 DEF MarkIsRecorded
<1> QED
  BY <1>1, <1>3, <1>4, <1>5, <1>6

\* No assertion ever sees speech from before its mark.
THEOREM OnlyNewIsShown == Spec => []OnlyNewSpeechIsShown
<1>1. ASSUME IInv PROVE OnlyNewSpeechIsShown
  <2>1. ASSUME NEW m \in MarksInUse
        PROVE  m \in Marks /\ MarkIsRecorded(m)
    BY <1>1, BlockMark, LastMark DEF MarksInUse
  <2> QED
    BY <1>1, <2>1, ShowsOnlyNew DEF OnlyNewSpeechIsShown
<1> QED
  BY <1>1, HearingInvariant, PTL

\* All the speech that the log holds from after a mark is seen, unless the test itself
\* emptied the log since.
THEOREM NewIsShown == Spec => []NewSpeechIsShown
<1>1. ASSUME IInv PROVE NewSpeechIsShown
  <2> SUFFICES ASSUME Attached
               PROVE  /\ ~Overtaken(mark, {"clear"}) =>
                           \A u \in Held : u.nr > mark.at => u \in Shown(mark)
                      /\ InBlock /\ ~Overtaken(SearchMark, {"clear", "reset"}) =>
                           \A u \in Held : u.nr > SearchMark.at => u \in Shown(SearchMark)
    BY DEF NewSpeechIsShown
  <2>1. up /\ pc # "launching"
    BY DEF Attached
  <2>2. ~Overtaken(mark, {"clear"}) => \A u \in Held : u.nr > mark.at => u \in Shown(mark)
    BY <1>1, LastMark, ShowsNew
  <2>3. InBlock /\ ~Overtaken(SearchMark, {"clear", "reset"}) =>
          \A u \in Held : u.nr > SearchMark.at => u \in Shown(SearchMark)
    BY <1>1, <2>1, BlockMark, ShowsNew
  <2> QED
    BY <2>2, <2>3
<1> QED
  BY <1>1, HearingInvariant, PTL

\* cancel_count() covers the cancelled sequences since() can show, between any two steps of the
\* handler that counts and marks and of speech_clear (speech_tap.py: _on_speech_canceled).
THEOREM CancelledCountHolds == Spec => []CancelledAreCounted
<1>1. ASSUME IInv PROVE CancelledAreCounted
  <2>1. Cardinality(CancelledIn(log)) \in Nat /\ cancellations \in Nat /\ Counted
    BY <1>1, CancelledIsFinite DEF IInv, TypeOK
  <2> DEFINE count == Cardinality(CancelledIn(log))
  <2>2. count \in Nat /\ count + (IF cancelling /\ log.items # << >> THEN 1 ELSE 0) <= cancellations
    BY <2>1 DEF Counted
  <2> HIDE DEF count
  <2>3. count <= cancellations
    BY <2>1, <2>2
  <2> QED
    BY <2>3 DEF CancelledAreCounted, count
<1> QED
  BY <1>1, HearingInvariant, PTL

\* A wait for speech that ends without the text has missed only what was said after its last
\* check: nothing that was said until then, and that the log still holds, matches (wait_until).
THEOREM AbsenceHolds == Spec => AbsenceIsReal
<1> DEFINE Right == op' = "absent" /\ pc \in {"poll", "checked"} /\ ~Overtaken(Target, {"clear", "reset"})
                      => \A u \in Held : u.nr > Target.at /\ u.nr <= heard => u.text # "wanted"
<1>1. ASSUME IInv, [Next]_vars PROVE [Right]_vars
  <2> SUFFICES ASSUME op' = "absent", pc \in {"poll", "checked"}, Next,
                      ~Overtaken(Target, {"clear", "reset"}),
                      NEW u \in Held, u.nr > Target.at, u.nr <= heard
               PROVE  u.text # "wanted"
    BY <1>1
  <2>1. op = "hear" \/ (op = "exit" /\ InBlock)
    BY <1>1 DEF IInv, Doing
  <2>2. Expire
    BY <2>1 DEF Next, SpeechQueued, SpeechCanceled, MarkCanceled, Crash, MarkAction, EnterBlock,
                LeaveBlock, AskClear, ClearItems, ClearCount, CallFails, Relaunch, Reattach,
                RelaunchFails, Listen, CheckFinds, CheckMisses, PollAgain, EndOfWait, hostVars
  <2>3. pc = "checked"
    BY <2>2 DEF Expire
  <2> QED
    BY <1>1, <2>3 DEF IInv, Listened
<1>2. IInv /\ [Next]_vars => [Right]_vars
  BY <1>1
<1> QED
  BY <1>2, HearingInvariant, PTL DEF Spec, AbsenceIsReal

================================================================================
