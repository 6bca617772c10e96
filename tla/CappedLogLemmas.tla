---------------------------- MODULE CappedLogLemmas ----------------------------
(***************************************************************************)
(* What one call of a method of CappedLog does to the kept items, for      *)
(* every log, set of items and capacity.  The proofs about the modules     *)
(* that hold a log rest on these lemmas.                                   *)
(***************************************************************************)
EXTENDS CappedLogOps, SequenceTheorems, TLAPS

USE CapacityAssumption

\* A place in a list that grew by one and lost what came first, counted before the loss.
LEMMA Shift ==
  ASSUME NEW lost \in Nat, NEW lostNow \in Nat, NEW len \in Nat, NEW lenNow \in Nat,
         lostNow + lenNow = lost + len + 1, lenNow <= len + 1, NEW k \in 1 .. lenNow
  PROVE  k + lostNow - lost \in 1 .. len + 1
  OBVIOUS

\* append keeps the newest Capacity entries and counts the one it evicts (CappedLog.append).
LEMMA AppendedKeepsNewest ==
  ASSUME NEW l \in Logs, Len(l.items) <= Capacity, NEW e \in Entries
  PROVE  LET n == Appended(l, e) IN
         /\ n \in Logs
         /\ Len(n.items) = (IF Len(l.items) = Capacity THEN Capacity ELSE Len(l.items) + 1)
         /\ IndexOf(n) = IndexOf(l) + 1
         /\ \A k \in 1 .. Len(n.items) :
              n.items[k] = Append(l.items, e)[k + n.dropped - l.dropped]
<1> DEFINE grown    == Append(l.items, e)
           overflow == Larger(0, Len(grown) - Capacity)
           n        == Appended(l, e)
<1>1. l.items \in Seq(Entries) /\ l.dropped \in Nat /\ Len(l.items) \in Nat
  BY LenProperties DEF Logs
<1>2. grown \in Seq(Entries) /\ Len(grown) = Len(l.items) + 1
  BY <1>1, AppendProperties
<1>3. overflow = (IF Len(l.items) = Capacity THEN 1 ELSE 0)
  BY <1>1, <1>2 DEF Larger
<1>4. /\ n.items = SubSeq(grown, overflow + 1, Len(grown))
      /\ n.dropped = l.dropped + overflow
  BY DEF Appended
<1>5. n = [items |-> n.items, dropped |-> n.dropped]
  BY DEF Appended
<1> HIDE DEF grown, overflow, n
<1>6. overflow \in Nat /\ n.dropped \in Nat
  BY <1>1, <1>3, <1>4
<1>7. \A i \in overflow + 1 .. Len(grown) : grown[i] \in Entries
  BY <1>1, <1>2, <1>6, ElementOfSeq
<1>8. /\ n.items \in Seq(Entries)
      /\ Len(n.items) = Len(grown) - overflow
      /\ \A i \in 1 .. Len(n.items) : n.items[i] = grown[overflow + i]
  <2> DEFINE m == overflow + 1
             h == Len(grown)
  <2>1. m \in Int /\ h \in Int /\ m <= h
    BY <1>1, <1>2, <1>3
  <2>2. \A i \in m .. h : grown[i] \in Entries
    BY <1>7
  <2>3. n.items = SubSeq(grown, m, h)
    BY <1>4
  <2> HIDE DEF m, h
  <2>4. n.items \in Seq(Entries)
    BY <2>1, <2>2, <2>3, SubSeqProperties
  <2>5. Len(n.items) = h - m + 1
    BY <2>1, <2>2, <2>3, SubSeqProperties
  <2>6. \A i \in 1 .. h - m + 1 : n.items[i] = grown[m + i - 1]
    BY <2>1, <2>2, <2>3, SubSeqProperties
  <2>7. h - m + 1 = Len(grown) - overflow
    BY <1>6, <2>1 DEF m, h
  <2>8. ASSUME NEW i \in 1 .. Len(n.items)
        PROVE  n.items[i] = grown[overflow + i]
    <3>1. m + i - 1 = overflow + i
      BY <1>6 DEF m
    <3>2. QED BY <2>5, <2>6, <3>1
  <2>9. QED BY <2>4, <2>5, <2>7, <2>8
<1>9. n \in Logs
  BY <1>5, <1>6, <1>8 DEF Logs
<1>10. Len(n.items) = (IF Len(l.items) = Capacity THEN Capacity ELSE Len(l.items) + 1)
  BY <1>1, <1>2, <1>3, <1>8
<1>11. IndexOf(n) = IndexOf(l) + 1
  <2>1. n.dropped = l.dropped + overflow
    BY <1>4
  <2>2. Len(n.items) = Len(grown) - overflow
    BY <1>8
  <2>3. n.dropped + Len(n.items) = l.dropped + Len(l.items) + 1
    BY <1>1, <1>2, <1>6, <2>1, <2>2
  <2>4. QED BY <2>3 DEF IndexOf
<1>12. \A k \in 1 .. Len(n.items) : n.items[k] = grown[k + n.dropped - l.dropped]
  <2> SUFFICES ASSUME NEW k \in 1 .. Len(n.items)
               PROVE  n.items[k] = grown[k + n.dropped - l.dropped]
    OBVIOUS
  <2>1. n.dropped = l.dropped + overflow
    BY <1>4
  <2>2. k + n.dropped - l.dropped = overflow + k
    <3>1. k \in Int
      OBVIOUS
    <3>2. QED BY <1>1, <1>6, <2>1, <3>1
  <2>3. QED BY <1>8, <2>2
<1>13. QED BY <1>9, <1>10, <1>11, <1>12 DEF n, grown

\* mark_last touches the flag of the last entry and nothing else (CappedLog.mark_last).
LEMMA CancelLastOfChangesLast ==
  ASSUME NEW s \in Seq(Entries)
  PROVE  /\ CancelLastOf(s) \in Seq(Entries)
         /\ Len(CancelLastOf(s)) = Len(s)
         /\ \A k \in 1 .. Len(s) :
              CancelLastOf(s)[k] = IF k = Len(s)
                                   THEN [item |-> s[k].item, cancelled |-> TRUE]
                                   ELSE s[k]
<1>1. CASE s = << >>
  BY <1>1 DEF CancelLastOf
<1>2. CASE s # << >>
  <2> DEFINE last == Len(s)
             e    == [item |-> s[last].item, cancelled |-> TRUE]
  <2>1. last \in 1 .. last
    BY <1>2, EmptySeq, LenProperties
  <2>2. s[last] \in Entries
    BY <2>1, ElementOfSeq
  <2>3. e \in Entries
    BY <2>2 DEF Entries
  <2>4. CancelLastOf(s) = [s EXCEPT ![last] = e]
    BY <1>2 DEF CancelLastOf
  <2> HIDE DEF e
  <2>5. /\ CancelLastOf(s) \in Seq(Entries)
        /\ Len(CancelLastOf(s)) = last
        /\ \A k \in 1 .. last : CancelLastOf(s)[k] = IF k = last THEN e ELSE s[k]
    BY <2>1, <2>3, <2>4, ExceptSeq
  <2>6. QED BY <2>5 DEF e
<1>3. QED BY <1>1, <1>2

\* since returns entries, whatever index it is given (CappedLog.since).
LEMMA SinceIsASeq ==
  ASSUME NEW l \in Logs, NEW i \in Int
  PROVE  /\ Since(l, i) \in Seq(Entries)
         /\ LET start == Larger(0, i - l.dropped)
            IN  /\ Len(Since(l, i)) = IF start < Len(l.items) THEN Len(l.items) - start ELSE 0
                /\ \A k \in 1 .. Len(Since(l, i)) : Since(l, i)[k] = l.items[start + k]
<1> DEFINE start == Larger(0, i - l.dropped)
           m     == start + 1
           h     == Len(l.items)
<1>1. l.items \in Seq(Entries) /\ l.dropped \in Nat /\ h \in Nat
  BY LenProperties DEF Logs
<1>2. start \in Nat
  BY <1>1 DEF Larger
<1> HIDE DEF start
<1>3. \A k \in m .. h : l.items[k] \in Entries
  BY <1>1, <1>2, ElementOfSeq
<1>4. m \in Int /\ h \in Int
  BY <1>1, <1>2
<1>5. Since(l, i) = SubSeq(l.items, m, h)
  BY DEF Since, start
<1> HIDE DEF m, h
<1>6. Since(l, i) \in Seq(Entries)
  BY <1>3, <1>4, <1>5, SubSeqProperties
<1>7. Len(Since(l, i)) = IF m <= h THEN h - m + 1 ELSE 0
  BY <1>3, <1>4, <1>5, SubSeqProperties
<1>8. \A k \in 1 .. h - m + 1 : Since(l, i)[k] = l.items[m + k - 1]
  BY <1>3, <1>4, <1>5, SubSeqProperties
<1>9. Len(Since(l, i)) = IF start < h THEN h - start ELSE 0
  BY <1>2, <1>4, <1>7 DEF m
<1>10. ASSUME NEW k \in 1 .. Len(Since(l, i))
       PROVE  Since(l, i)[k] = l.items[start + k]
  <2>1. k \in 1 .. h - m + 1
    BY <1>4, <1>7
  <2>2. m + k - 1 = start + k
    BY <1>2 DEF m
  <2>3. QED BY <1>8, <2>1, <2>2
<1>11. QED BY <1>6, <1>9, <1>10 DEF start, h

================================================================================
