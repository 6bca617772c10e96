------------------------------ MODULE CappedLog -------------------------------
(***************************************************************************)
(* One CappedLog under every order of calls its users make: the speech     *)
(* and braille taps and the log tap append from NVDA's threads and mark    *)
(* the last entry; RPC handlers ask for the index, for what is new since   *)
(* an index, or clear.  The index a caller passes is any stored number:    *)
(* the host keeps its marks across evictions and across clears, so one can *)
(* be older than everything kept, or beyond the end.                       *)
(*                                                                         *)
(* history is a ghost: what an unbounded log would hold.  No action reads  *)
(* it to decide anything; it is the abstract log of AppendLog.             *)
(***************************************************************************)
EXTENDS CappedLogOps

CONSTANT MaxHistory   \* bound: appends between two clears

VARIABLES log,        \* [items, dropped]
          history,    \* ghost: every entry since the last clear
          position,   \* what index() answered last
          seen        \* the last call of since(): the index asked for, and the answer

vars == <<log, history, position, seen>>

NewEntry(item) == [item |-> item, cancelled |-> FALSE]

Init ==
  /\ log = NewLog /\ history = << >> /\ position = 0
  /\ seen = [from |-> 0, entries |-> << >>]

AppendEntry(item) ==
  /\ Len(history) < MaxHistory
  /\ log' = Appended(log, NewEntry(item))
  /\ history' = Append(history, NewEntry(item))
  /\ UNCHANGED <<position, seen>>

Index ==
  /\ position' = IndexOf(log)
  /\ UNCHANGED <<log, history, seen>>

SinceIndex(i) ==
  /\ seen' = [from |-> i, entries |-> Since(log, i)]
  /\ UNCHANGED <<log, history, position>>

MarkLast ==
  /\ log' = MarkedLast(log)
  /\ history' = CancelLastOf(history)
  /\ UNCHANGED <<position, seen>>

Clear ==
  /\ log' = Cleared(log)
  /\ history' = << >>
  /\ UNCHANGED <<position, seen>>

Next ==
  \/ \E item \in Items : AppendEntry(item)
  \/ Index
  \/ \E i \in 0 .. MaxHistory : SinceIndex(i)
  \/ MarkLast
  \/ Clear

Spec == Init /\ [][Next]_vars

-------------------------------------------------------------------------------
\* Type invariant of the log's state and of the last two answers.
TypeOK ==
  /\ log \in Logs
  /\ history \in Seq(Entries)
  /\ position \in Nat
  /\ seen \in [from : Nat, entries : Seq(Entries)]

\* The log never holds more than its capacity (CappedLog.append evicts in the same call).
WithinCapacity == Len(log.items) <= Capacity

\* dropped and the kept items always account for every append, and a full log drops no
\* more than it must: CappedLog loses an entry only when Capacity newer ones exist.
NothingLostEarly ==
  /\ IndexOf(log) = Len(history)
  /\ log.dropped > 0 => Len(log.items) = Capacity

\* Each kept item is the entry its absolute position names, marks included: eviction
\* shifts the list and the count together (CappedLog.append, mark_last).
ItemsAreSuffix ==
  \A k \in 1 .. Len(log.items) : log.items[k] = history[k + log.dropped]

IInv == TypeOK /\ WithinCapacity /\ NothingLostEarly /\ ItemsAreSuffix

\* The capped log answers every call as a log that never evicts would, restricted to the
\* Capacity newest entries ("a host that stored an index before an eviction still gets
\* everything newer than it", capped_log.py's docstring).
Abstract == INSTANCE AppendLog

ImplementsAppendLog == Abstract!Spec

===============================================================================
