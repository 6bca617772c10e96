---------------------------- MODULE CappedLogProofs ----------------------------
(***************************************************************************)
(* For every set of items, every capacity and every bound: the log keeps   *)
(* exactly the newest entries at their absolute positions (IInv), and it   *)
(* implements AppendLog.  CappedLogLemmas say what one call does to the    *)
(* kept items; the invariant and the refinement follow from them.          *)
(***************************************************************************)
EXTENDS CappedLog, CappedLogLemmas

USE CapacityAssumption

-------------------------------------------------------------------------------
\* The invariant holds when the log is new.
LEMMA InitInv == Init => IInv
BY EmptySeq DEF Init, IInv, TypeOK, WithinCapacity, NothingLostEarly, ItemsAreSuffix,
                NewLog, Logs, IndexOf

\* One append keeps the invariant: the evicted entry is the oldest and is counted.
LEMMA AppendInv ==
  ASSUME IInv, NEW item \in Items, AppendEntry(item)
  PROVE  IInv'
<1> DEFINE e == NewEntry(item)
<1>1. /\ log \in Logs /\ history \in Seq(Entries) /\ e \in Entries
      /\ log.items \in Seq(Entries) /\ log.dropped \in Nat
      /\ Len(log.items) \in Nat /\ Len(history) \in Nat
  BY LenProperties DEF IInv, TypeOK, Logs, Entries, NewEntry
<1>2. log' = Appended(log, e) /\ history' = Append(history, e)
      /\ UNCHANGED <<position, seen>>
  BY DEF AppendEntry
<1> HIDE DEF e
<1>3. /\ history' \in Seq(Entries) /\ Len(history') = Len(history) + 1
      /\ \A k \in 1 .. Len(history) : history'[k] = history[k]
      /\ history'[Len(history) + 1] = e
  BY <1>1, <1>2, AppendProperties
<1>4. /\ log' \in Logs
      /\ Len(log'.items) = (IF Len(log.items) = Capacity THEN Capacity ELSE Len(log.items) + 1)
      /\ IndexOf(log') = IndexOf(log) + 1
      /\ \A k \in 1 .. Len(log'.items) :
           log'.items[k] = Append(log.items, e)[k + log'.dropped - log.dropped]
  BY <1>1, <1>2, AppendedKeepsNewest DEF IInv, WithinCapacity
<1>5. /\ log'.dropped \in Nat /\ Len(log'.items) \in Nat
      /\ log'.dropped + Len(log'.items) = log.dropped + Len(log.items) + 1
  BY <1>4, LenProperties DEF Logs, IndexOf
<1>6. Len(log'.items) = (IF Len(log.items) = Capacity THEN Capacity ELSE Len(log.items) + 1)
  BY <1>4
<1>7. TypeOK'
  BY <1>2, <1>3, <1>4 DEF IInv, TypeOK
<1>8. WithinCapacity'
  BY <1>1, <1>4 DEF IInv, WithinCapacity
<1>9. NothingLostEarly'
  BY <1>1, <1>3, <1>4, <1>5 DEF IInv, WithinCapacity, NothingLostEarly, IndexOf
<1>10. ItemsAreSuffix'
  <2> SUFFICES ASSUME NEW k \in 1 .. Len(log'.items)
               PROVE  log'.items[k] = history'[k + log'.dropped]
    BY DEF ItemsAreSuffix
  <2> DEFINE j == k + log'.dropped - log.dropped
  <2>1. j \in 1 .. Len(log.items) + 1
    <3>1. Len(log'.items) <= Len(log.items) + 1
      BY <1>1, <1>6 DEF IInv, WithinCapacity
    <3>2. QED BY <1>1, <1>5, <3>1, Shift
  <2>2. log'.items[k] = Append(log.items, e)[j]
    BY <1>4
  <2>3. Len(history) = log.dropped + Len(log.items)
    BY DEF IInv, NothingLostEarly, IndexOf
  <2>4. k + log'.dropped = j + log.dropped
    BY <1>1, <1>5
  <2>5. CASE j = Len(log.items) + 1
    <3>1. Append(log.items, e)[j] = e
      BY <1>1, <2>5, AppendProperties
    <3>2. k + log'.dropped = Len(history) + 1
      BY <1>1, <2>3, <2>4, <2>5
    <3>3. QED BY <1>3, <2>2, <3>1, <3>2
  <2>6. CASE j \in 1 .. Len(log.items)
    <3>1. Append(log.items, e)[j] = log.items[j]
      BY <1>1, <2>6, AppendProperties
    <3>2. log.items[j] = history[j + log.dropped]
      BY <2>6 DEF IInv, ItemsAreSuffix
    <3>3. j + log.dropped \in 1 .. Len(history)
      BY <1>1, <2>3, <2>6
    <3>4. QED BY <1>3, <2>2, <2>4, <3>1, <3>2, <3>3
  <2>7. QED BY <1>1, <2>1, <2>5, <2>6
<1>11. QED BY <1>7, <1>8, <1>9, <1>10 DEF IInv

\* Marking changes the same entry in the kept items and in the history.
LEMMA MarkInv ==
  ASSUME IInv, MarkLast
  PROVE  IInv'
<1>1. /\ log \in Logs /\ history \in Seq(Entries)
      /\ log.items \in Seq(Entries) /\ log.dropped \in Nat
      /\ Len(log.items) \in Nat /\ Len(history) \in Nat
      /\ Len(history) = log.dropped + Len(log.items)
  BY LenProperties DEF IInv, TypeOK, Logs, NothingLostEarly, IndexOf
<1>2. /\ log'.items = CancelLastOf(log.items) /\ log'.dropped = log.dropped
      /\ log' = [items |-> CancelLastOf(log.items), dropped |-> log.dropped]
      /\ history' = CancelLastOf(history)
      /\ UNCHANGED <<position, seen>>
  BY DEF MarkLast, MarkedLast
<1>3. log' \in Logs
  BY <1>1, <1>2, CancelLastOfChangesLast DEF Logs
<1>4. history' \in Seq(Entries)
  BY <1>1, <1>2, CancelLastOfChangesLast
<1>5. Len(log'.items) = Len(log.items) /\ Len(history') = Len(history)
  BY <1>1, <1>2, CancelLastOfChangesLast
<1>6. ItemsAreSuffix'
  <2> SUFFICES ASSUME NEW k \in 1 .. Len(log.items)
               PROVE  CancelLastOf(log.items)[k] = CancelLastOf(history)[k + log.dropped]
    BY <1>2, <1>5 DEF ItemsAreSuffix
  <2>1. log.items[k] = history[k + log.dropped]
    BY DEF IInv, ItemsAreSuffix
  <2>2. k + log.dropped \in 1 .. Len(history)
        /\ (k = Len(log.items) <=> k + log.dropped = Len(history))
    BY <1>1
  <2>3. CancelLastOf(log.items)[k] = IF k = Len(log.items)
                                     THEN [item |-> log.items[k].item, cancelled |-> TRUE]
                                     ELSE log.items[k]
    BY <1>1, CancelLastOfChangesLast
  <2> DEFINE j == k + log.dropped
  <2>4. CancelLastOf(history)[j] = IF j = Len(history)
                                   THEN [item |-> history[j].item, cancelled |-> TRUE]
                                   ELSE history[j]
    BY <1>1, <2>2, CancelLastOfChangesLast
  <2>5. QED BY <2>1, <2>2, <2>3, <2>4
<1>7. WithinCapacity' /\ NothingLostEarly'
  BY <1>2, <1>5 DEF IInv, WithinCapacity, NothingLostEarly, IndexOf
<1>8. QED
  BY <1>2, <1>3, <1>4, <1>6, <1>7 DEF IInv, TypeOK

\* No call takes the log out of its invariant.
LEMMA NextInv == IInv /\ [Next]_vars => IInv'
<1> SUFFICES ASSUME IInv, [Next]_vars PROVE IInv'
  OBVIOUS
<1>1. ASSUME NEW item \in Items, AppendEntry(item) PROVE IInv'
  BY <1>1, AppendInv
<1>2. CASE Index
  <2>1. IndexOf(log) \in Nat
    BY LenProperties DEF IInv, TypeOK, Logs, IndexOf
  <2>2. QED
    BY <1>2, <2>1 DEF Index, IInv, TypeOK, WithinCapacity, NothingLostEarly, ItemsAreSuffix
<1>3. ASSUME NEW i \in 0 .. MaxHistory, SinceIndex(i) PROVE IInv'
  <2>1. Since(log, i) \in Seq(Entries)
    BY SinceIsASeq DEF IInv, TypeOK
  <2>2. [from |-> i, entries |-> Since(log, i)] \in [from : Nat, entries : Seq(Entries)]
    BY <2>1
  <2>3. QED
    BY <1>3, <2>2 DEF SinceIndex, IInv, TypeOK, WithinCapacity, NothingLostEarly, ItemsAreSuffix
<1>4. CASE MarkLast
  BY <1>4, MarkInv
<1>5. CASE Clear
  BY <1>5, EmptySeq DEF Clear, Cleared, NewLog, IInv, TypeOK, Logs, WithinCapacity,
                        NothingLostEarly, ItemsAreSuffix, IndexOf
<1>6. CASE UNCHANGED vars
  BY <1>6 DEF vars, IInv, TypeOK, WithinCapacity, NothingLostEarly, ItemsAreSuffix
<1>7. QED BY <1>1, <1>2, <1>3, <1>4, <1>5, <1>6 DEF Next

\* CappedLog's fields always describe exactly the newest entries of everything appended
\* since the last clear: none is lost early, none moves, none is kept past the capacity.
THEOREM CappedLogInvariant == Spec => []IInv
BY InitInv, NextInv, PTL DEF Spec

-------------------------------------------------------------------------------
\* What index() answers is the number of entries since the last clear.
LEMMA IndexIsLength == IInv => IndexOf(log) = Len(history)
BY DEF IInv, NothingLostEarly

\* What since(i) answers is what the unbounded log holds from i on, among the newest.
LEMMA SinceIsFrom ==
  ASSUME IInv, NEW i \in Int
  PROVE  Since(log, i) = Abstract!From(i)
<1> DEFINE start  == Larger(0, i - log.dropped)
           oldest == Abstract!Oldest
           first  == (IF i > oldest THEN i ELSE oldest) + 1
           h      == Len(history)
           n      == Len(log.items)
           d      == log.dropped
           s      == Since(log, i)
           t      == Abstract!From(i)
<1>1. /\ log \in Logs /\ history \in Seq(Entries)
      /\ n \in Nat /\ d \in Nat /\ h \in Nat
  BY LenProperties DEF IInv, TypeOK, Logs
<1>2. d + n = h /\ n <= Capacity /\ (d > 0 => n = Capacity)
  BY DEF IInv, WithinCapacity, NothingLostEarly, IndexOf
<1> HIDE DEF n, d
<1>3. oldest = d
  BY <1>1, <1>2 DEF Abstract!Oldest
<1>4. start \in Nat /\ first \in Int /\ h \in Int /\ first = start + d + 1
  BY <1>1, <1>3 DEF Larger, d
<1>5. t = SubSeq(history, first, h)
  BY DEF Abstract!From
<1> HIDE DEF start, oldest, first, h
<1>6. \A k \in first .. h : history[k] \in Entries
  BY <1>1, <1>4, ElementOfSeq DEF h
<1> HIDE DEF t
<1>7. t \in Seq(Entries)
  BY <1>4, <1>5, <1>6, SubSeqProperties
<1>8. Len(t) = IF first <= h THEN h - first + 1 ELSE 0
  BY <1>4, <1>5, <1>6, SubSeqProperties
<1>9. \A k \in 1 .. h - first + 1 : t[k] = history[first + k - 1]
  BY <1>4, <1>5, <1>6, SubSeqProperties
<1>10. s \in Seq(Entries)
  BY <1>1, SinceIsASeq
<1>11. Len(s) = IF start < n THEN n - start ELSE 0
  BY <1>1, SinceIsASeq DEF start, n
<1>12. \A k \in 1 .. Len(s) : s[k] = log.items[start + k]
  BY <1>1, SinceIsASeq DEF start
<1> HIDE DEF s
<1>13. Len(s) = Len(t)
  BY <1>1, <1>2, <1>4, <1>8, <1>11
<1>14. ASSUME NEW k \in 1 .. Len(s) PROVE s[k] = t[k]
  <2>1. k \in Int /\ 1 <= k /\ k <= n - start
    BY <1>1, <1>4, <1>11
  <2>2. start + k \in 1 .. n /\ start + k + d = first + k - 1 /\ k \in 1 .. h - first + 1
    BY <1>1, <1>2, <1>4, <2>1
  <2>3. log.items[start + k] = history[start + k + d]
    BY <2>2 DEF IInv, ItemsAreSuffix, n, d
  <2>4. QED BY <1>9, <1>12, <2>2, <2>3
<1>15. s = t
  BY <1>7, <1>10, <1>13, <1>14, SeqEqual
<1>16. QED BY <1>15 DEF s, t

\* Every step of the capped log is a step of the unbounded one or leaves it unchanged.
LEMMA StepSimulation == IInv /\ [Next]_vars => [Abstract!Next]_(Abstract!vars)
<1> SUFFICES ASSUME IInv, [Next]_vars PROVE [Abstract!Next]_(Abstract!vars)
  OBVIOUS
<1>1. ASSUME NEW item \in Items, AppendEntry(item) PROVE Abstract!Next
  BY <1>1 DEF AppendEntry, NewEntry, Abstract!Next, Abstract!Record
<1>2. CASE Index
  BY <1>2, IndexIsLength DEF Index, Abstract!Next, Abstract!AskIndex
<1>3. ASSUME NEW i \in 0 .. MaxHistory, SinceIndex(i) PROVE Abstract!Next
  <2>1. seen' = [from |-> i, entries |-> Abstract!From(i)] /\ UNCHANGED <<history, position>>
    BY <1>3, SinceIsFrom DEF SinceIndex
  <2>2. QED BY <2>1 DEF Abstract!Next, Abstract!AskSince, Abstract!Positions
<1>4. CASE MarkLast
  <2>1. CASE history = << >>
    BY <1>4, <2>1 DEF MarkLast, CancelLastOf, Abstract!vars
  <2>2. CASE history # << >>
    BY <1>4, <2>2 DEF MarkLast, CancelLastOf, Abstract!Next, Abstract!CancelLast
  <2>3. QED BY <2>1, <2>2
<1>5. CASE Clear
  BY <1>5 DEF Clear, Abstract!Next, Abstract!Forget
<1>6. CASE UNCHANGED vars
  BY <1>6 DEF vars, Abstract!vars
<1>7. QED BY <1>1, <1>2, <1>3, <1>4, <1>5, <1>6 DEF Next

\* CappedLog implements AppendLog: a host that stored an index still gets everything newer
\* than it that is among the Capacity newest entries, at any capacity.
THEOREM CappedLogRefinement == Spec => ImplementsAppendLog
<1>1. Init => Abstract!Init
  BY DEF Init, Abstract!Init
<1>2. QED
  BY <1>1, CappedLogInvariant, StepSimulation, PTL DEF Spec, ImplementsAppendLog, Abstract!Spec

===============================================================================
