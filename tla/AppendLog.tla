------------------------------ MODULE AppendLog -------------------------------
(***************************************************************************)
(* What a reader of a log is promised: every entry has a fixed position    *)
(* counted from the last clear, index() is the position of the next one,   *)
(* and since(i) returns, in order, the entries at positions i and later    *)
(* that are among the Capacity newest.  There is no eviction here: the     *)
(* history keeps everything, and only the answers are limited.             *)
(***************************************************************************)
EXTENDS Integers, Sequences

CONSTANTS Items, Capacity, MaxHistory

VARIABLES history,    \* every entry since the last clear, oldest first
          position,   \* the last answer of index()
          seen        \* the last call of since(): the index asked for, and the answer

vars == <<history, position, seen>>

Positions == 0 .. MaxHistory

\* The first position still answered for.
Oldest == IF Len(history) > Capacity THEN Len(history) - Capacity ELSE 0

From(i) == SubSeq(history, (IF i > Oldest THEN i ELSE Oldest) + 1, Len(history))

Init ==
  /\ history = << >> /\ position = 0
  /\ seen = [from |-> 0, entries |-> << >>]

Record(item) ==
  /\ history' = Append(history, [item |-> item, cancelled |-> FALSE])
  /\ UNCHANGED <<position, seen>>

AskIndex == position' = Len(history) /\ UNCHANGED <<history, seen>>

AskSince(i) == seen' = [from |-> i, entries |-> From(i)] /\ UNCHANGED <<history, position>>

CancelLast ==
  /\ history # << >>
  /\ history' = [history EXCEPT ![Len(history)] = [item |-> @.item, cancelled |-> TRUE]]
  /\ UNCHANGED <<position, seen>>

Forget == history' = << >> /\ UNCHANGED <<position, seen>>

Next ==
  \/ \E item \in Items : Record(item)
  \/ AskIndex
  \/ \E i \in Positions : AskSince(i)
  \/ CancelLast
  \/ Forget

Spec == Init /\ [][Next]_vars

===============================================================================
