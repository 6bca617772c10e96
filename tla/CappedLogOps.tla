----------------------------- MODULE CappedLogOps -----------------------------
(***************************************************************************)
(* The methods of capped_log.CappedLog as operators on its two fields: a   *)
(* log is a record of the kept items and of how many were dropped before   *)
(* them.  Each method holds the log's RLock from its first line to its     *)
(* last, so a call is one application of an operator here; the modules     *)
(* that hold a log in a variable (CappedLog, Hearing) decide who may       *)
(* call and when.                                                          *)
(***************************************************************************)
EXTENDS Integers, Sequences

CONSTANTS Items,      \* what a captured entry says: opaque to the log
          Capacity    \* DEFAULT_CAPACITY in the code, small in the runs

ASSUME CapacityAssumption == Capacity \in Nat \ {0}

\* The only field of an entry that changes after it was appended is "cancelled".
Entries == [item : Items, cancelled : BOOLEAN]

Logs == [items : Seq(Entries), dropped : Nat]

NewLog == [items |-> << >>, dropped |-> 0]

Larger(a, b) == IF a >= b THEN a ELSE b

\* Mutant of Appended: evicted entries are not counted.
AppendedUncounted(log, entry) ==
  LET grown    == Append(log.items, entry)
      overflow == Larger(0, Len(grown) - Capacity)
  IN  [items   |-> SubSeq(grown, overflow + 1, Len(grown)),
       dropped |-> log.dropped]

(***************************************************************************)
(* append: the entry goes last, then as many entries as exceed the         *)
(* capacity leave at the front and are counted as dropped.                 *)
(***************************************************************************)
Appended(log, entry) ==
  LET grown    == Append(log.items, entry)
      overflow == Larger(0, Len(grown) - Capacity)
  IN  [items   |-> SubSeq(grown, overflow + 1, Len(grown)),
       dropped |-> log.dropped + overflow]

\* index: the absolute position the next append will take.
IndexOf(log) == log.dropped + Len(log.items)

\* Mutant of Since: the index is taken for a place in the list.
SinceUnshifted(log, index) == SubSeq(log.items, index + 1, Len(log.items))

\* since: items[start:] for a start that is never negative; past the end it is empty.
Since(log, index) ==
  SubSeq(log.items, Larger(0, index - log.dropped) + 1, Len(log.items))

\* Sets the flag of the last entry of a sequence, if there is one.
CancelLastOf(entries) ==
  IF entries = << >> THEN entries
  ELSE [entries EXCEPT ![Len(entries)] = [item |-> @.item, cancelled |-> TRUE]]

\* mark_last: nothing to mark in an empty log.
MarkedLast(log) == [items |-> CancelLastOf(log.items), dropped |-> log.dropped]

\* clear forgets the entries and restarts the positions at zero.
Cleared(log) == NewLog

===============================================================================
