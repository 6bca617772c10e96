--------------------------- MODULE ActionMarkProofs ----------------------------
(***************************************************************************)
(* Speech after a mark recorded in quiet is not an earlier action's.  The  *)
(* argument: at the end of a quiet wait nothing in NVDA belongs to an      *)
(* earlier action, and what NVDA has only begets what it has.              *)
(***************************************************************************)
EXTENDS ActionMark, TLAPS

\* Appending to a sequence over a set, and taking its head off.
LEMMA AppendAndTail ==
  ASSUME NEW S, NEW s \in Seq(S)
  PROVE  /\ \A e \in S : Append(s, e) \in Seq(S)
         /\ s # << >> => Tail(s) \in Seq(S) /\ Head(s) \in S
  OBVIOUS

\* What speech an append adds: all before it is kept.
LEMMA AppendedSpeech ==
  ASSUME NEW S, NEW s \in Seq(S), NEW e \in S
  PROVE  /\ Len(Append(s, e)) = Len(s) + 1
         /\ \A i \in 1 .. Len(s) : Append(s, e)[i] = s[i]
         /\ Append(s, e)[Len(s) + 1] = e
  OBVIOUS

\* The first state: nothing was queued, said or marked.
LEMMA InitInv == Init => IInv
<1> SUFFICES ASSUME Init PROVE IInv
  OBVIOUS
<1> USE BoundsAssumption
<1>1. TypeOK
  <2>1. events = << >> /\ spoken = << >> /\ current = None
    BY DEF Init
  <2>2. events \in Seq(Causes \cup {Noop}) /\ spoken \in Seq(Causes)
    BY <2>1
  <2>3. pc = "ready" /\ acts = 0 /\ quiet = FALSE
    BY DEF Init
  <2>4. mark \in [index : Nat, act : Causes, quiet : BOOLEAN]
    BY DEF Init, Causes
  <2>5. acts \in Causes
    BY <2>3 DEF Causes
  <2>6. current \in Causes \cup {None}
    BY <2>1
  <2> QED
    BY <2>2, <2>3, <2>4, <2>5, <2>6 DEF TypeOK
<1>2. mark.index <= Len(spoken) /\ ~quiet /\ ~mark.quiet /\ mark.act <= acts
  BY DEF Init
<1> QED
  BY <1>1, <1>2 DEF IInv, AttributedToOwnAction

\* The queue stays free of earlier actions when NVDA adds an event of its own or one that
\* follows from the event in hand, and when its next event is taken.
LEMMA NvdaKeepsApart ==
  ASSUME NEW act \in Causes, NothingBefore(act), OwnEvent \/ FollowUp \/ TakeEvent
  PROVE  NothingBefore(act)'
<1> DEFINE S == {Own, Noop} \cup act .. MaxActions
<1> USE BoundsAssumption
<1>1. events \in Seq(S) /\ current \in {Own, None} \cup act .. MaxActions
  BY DEF NothingBefore
<1>2. CASE OwnEvent
  <2>1. events' = Append(events, Own) /\ current' = current
    BY <1>2 DEF OwnEvent
  <2>2. Own \in S
    OBVIOUS
  <2>3. Append(events, Own) \in Seq(S)
    BY <1>1, <2>2, AppendAndTail
  <2> QED
    BY <1>1, <2>1, <2>3 DEF NothingBefore
<1>3. CASE FollowUp
  <2>1. events' = Append(events, current) /\ current' = current /\ current # None
    BY <1>3 DEF FollowUp
  <2>2. current \in S
    BY <1>1, <2>1
  <2>3. Append(events, current) \in Seq(S)
    BY <1>1, <2>2, AppendAndTail
  <2> QED
    BY <1>1, <2>1, <2>3 DEF NothingBefore
<1>4. CASE TakeEvent
  <2>1. events # << >> /\ events' = Tail(events)
    BY <1>4 DEF TakeEvent
  <2>2. current' = IF Head(events) = Noop THEN None ELSE Head(events)
    BY <1>4 DEF TakeEvent
  <2>3. Tail(events) \in Seq(S) /\ Head(events) \in S
    BY <1>1, <2>1, AppendAndTail
  <2>4. current' \in {Own, None} \cup act .. MaxActions
    BY <2>2, <2>3
  <2> QED
    BY <2>1, <2>3, <2>4 DEF NothingBefore
<1> QED
  BY <1>2, <1>3, <1>4

\* An event of a later action, or the no-op, keeps the queue free of earlier ones.
LEMMA HostKeepsApart ==
  ASSUME NEW act \in Causes, NothingBefore(act), NEW e \in {Noop} \cup act .. MaxActions,
         events' = Append(events, e), current' = current
  PROVE  NothingBefore(act)'
<1> DEFINE S == {Own, Noop} \cup act .. MaxActions
<1>1. events \in Seq(S) /\ e \in S
  BY DEF NothingBefore
<1>2. Append(events, e) \in Seq(S)
  BY <1>1, AppendAndTail
<1> QED
  BY <1>2 DEF NothingBefore

\* The steps of NVDA preserve the types.
LEMMA NvdaTypes ==
  ASSUME TypeOK, OwnEvent \/ TakeEvent \/ FollowUp \/ Speak \/ FinishEvent
  PROVE  TypeOK'
<1> USE BoundsAssumption
<1>1. events \in Seq(Causes \cup {Noop}) /\ current \in Causes \cup {None} /\ spoken \in Seq(Causes)
  BY DEF TypeOK
<1>2. Own \in Causes
  BY DEF Own, Causes
<1>3. CASE OwnEvent
  <2>1. Append(events, Own) \in Seq(Causes \cup {Noop})
    BY <1>1, <1>2, AppendAndTail
  <2> QED
    BY <1>3, <2>1 DEF OwnEvent, TypeOK
<1>4. CASE TakeEvent
  <2>1. Tail(events) \in Seq(Causes \cup {Noop}) /\ Head(events) \in Causes \cup {Noop}
    BY <1>1, <1>4, AppendAndTail DEF TakeEvent
  <2>2. current' \in Causes \cup {None}
    BY <1>4, <2>1 DEF TakeEvent
  <2> QED
    BY <1>4, <2>1, <2>2 DEF TakeEvent, TypeOK
<1>5. CASE FollowUp
  <2>1. Append(events, current) \in Seq(Causes \cup {Noop})
    BY <1>1, <1>5, AppendAndTail DEF FollowUp
  <2> QED
    BY <1>5, <2>1 DEF FollowUp, TypeOK
<1>6. CASE Speak
  <2>1. Append(spoken, current) \in Seq(Causes)
    BY <1>1, <1>6, AppendAndTail DEF Speak
  <2> QED
    BY <1>6, <2>1 DEF Speak, TypeOK
<1>7. CASE FinishEvent
  BY <1>7 DEF FinishEvent, TypeOK
<1> QED
  BY <1>3, <1>4, <1>5, <1>6, <1>7

\* The steps of the host preserve the types.
LEMMA HostTypes ==
  ASSUME TypeOK,
         BeginAction \/ AskIdle \/ LookIdle \/ LookBusy \/ BudgetSpent \/ RecordMark \/ Act
  PROVE  TypeOK'
<1> USE BoundsAssumption
<1>1. events \in Seq(Causes \cup {Noop}) /\ acts \in Causes /\ spoken \in Seq(Causes)
  BY DEF TypeOK
<1>2. CASE BeginAction
  <2>1. acts + 1 \in Causes
    BY <1>1, <1>2 DEF BeginAction, Causes
  <2> QED
    BY <1>2, <2>1 DEF BeginAction, TypeOK
<1>3. CASE AskIdle
  <2>1. Append(events, Noop) \in Seq(Causes \cup {Noop})
    BY <1>1, AppendAndTail
  <2> QED
    BY <1>3, <2>1 DEF AskIdle, TypeOK
<1>4. CASE LookIdle
  BY <1>4 DEF LookIdle, TypeOK
<1>5. CASE LookBusy
  BY <1>5 DEF LookBusy, TypeOK
<1>6. CASE BudgetSpent
  BY <1>6 DEF BudgetSpent, TypeOK
<1>7. CASE RecordMark
  <2>1. Len(spoken) \in Nat
    BY <1>1
  <2> QED
    BY <1>7, <2>1 DEF RecordMark, TypeOK
<1>8. CASE Act
  <2>1. Append(events, acts) \in Seq(Causes \cup {Noop})
    BY <1>1, AppendAndTail
  <2> QED
    BY <1>8, <2>1 DEF Act, TypeOK
<1> QED
  BY <1>2, <1>3, <1>4, <1>5, <1>6, <1>7, <1>8

\* What IInv says of the host's variables and the mark, as NVDA's steps leave it.
LEMMA NvdaInv ==
  ASSUME IInv, OwnEvent \/ TakeEvent \/ FollowUp \/ Speak \/ FinishEvent
  PROVE  IInv'
<1> USE BoundsAssumption
<1>1. TypeOK /\ TypeOK'
  BY NvdaTypes DEF IInv
<1>2. UNCHANGED <<pc, acts, quiet, mark>>
  BY DEF OwnEvent, TakeEvent, FollowUp, Speak, FinishEvent
<1>3. mark.act \in Causes /\ acts \in Causes /\ mark.index \in Nat
  BY <1>1 DEF TypeOK
<1>4. ASSUME NEW act \in Causes, NothingBefore(act)
      PROVE  NothingBefore(act)'
  <2>1. CASE OwnEvent \/ FollowUp \/ TakeEvent
    BY <1>4, <2>1, NvdaKeepsApart
  <2>2. CASE Speak
    BY <1>4, <2>2 DEF Speak, NothingBefore
  <2>3. CASE FinishEvent
    BY <1>4, <2>3 DEF FinishEvent, NothingBefore
  <2> QED
    BY <2>1, <2>2, <2>3
<1>5. mark.index <= Len(spoken)' /\ AttributedToOwnAction'
  <2>1. mark.index <= Len(spoken) /\ AttributedToOwnAction /\ (mark.quiet => NothingBefore(mark.act))
    BY DEF IInv
  <2>2. CASE Speak
    <3>1. spoken' = Append(spoken, current) /\ current # None /\ current \in Causes
      BY <1>1, <2>2 DEF Speak, TypeOK
    <3>2. spoken \in Seq(Causes)
      BY <1>1 DEF TypeOK
    <3>3. /\ Len(spoken') = Len(spoken) + 1
          /\ \A i \in 1 .. Len(spoken) : spoken'[i] = spoken[i]
          /\ spoken'[Len(spoken) + 1] = current
      BY <3>1, <3>2, AppendedSpeech
    <3>4. Len(spoken) \in Nat
      BY <3>2
    <3>5. mark.quiet => current = Own \/ current >= mark.act
      BY <1>3, <2>1, <3>1 DEF NothingBefore
    <3>6. ASSUME mark.quiet, NEW i \in 1 .. Len(spoken'), i > mark.index
          PROVE  spoken'[i] = Own \/ spoken'[i] >= mark.act
      <4>1. CASE i \in 1 .. Len(spoken)
        BY <2>1, <3>3, <3>6, <4>1 DEF AttributedToOwnAction
      <4>2. CASE i = Len(spoken) + 1
        BY <3>3, <3>5, <3>6, <4>2
      <4> QED
        BY <3>3, <3>4, <4>1, <4>2
    <3>7. AttributedToOwnAction'
      BY <1>2, <3>6 DEF AttributedToOwnAction
    <3> QED
      BY <1>3, <2>1, <3>3, <3>4, <3>7
  <2>3. CASE spoken' = spoken
    BY <1>2, <2>1, <2>3 DEF AttributedToOwnAction
  <2> QED
    BY <2>2, <2>3 DEF OwnEvent, TakeEvent, FollowUp, FinishEvent
<1>6. quiet' /\ pc' \in {"mark", "act", "ready"} => NothingBefore(acts)'
  BY <1>2, <1>3, <1>4 DEF IInv, NothingBefore
<1>7. mark'.quiet => NothingBefore(mark.act)'
  BY <1>2, <1>3, <1>4 DEF IInv, NothingBefore
<1>8. (pc' \in {"settle", "settling"} => ~quiet') /\ mark'.act <= acts'
  BY <1>2 DEF IInv
<1> QED
  BY <1>1, <1>2, <1>5, <1>6, <1>7, <1>8 DEF IInv

\* The steps of the host preserve the invariant: one step per action.
LEMMA HostInv ==
  ASSUME IInv,
         BeginAction \/ AskIdle \/ LookIdle \/ LookBusy \/ BudgetSpent \/ RecordMark \/ Act
  PROVE  IInv'
<1> USE BoundsAssumption
<1>1. TypeOK /\ TypeOK'
  BY HostTypes DEF IInv
<1>2. mark.act \in Causes /\ acts \in Causes /\ mark.index \in Nat /\ mark.act <= acts
  BY <1>1 DEF TypeOK, IInv
<1>3. mark.index <= Len(spoken) /\ AttributedToOwnAction
  BY DEF IInv
<1>4. mark.quiet => NothingBefore(mark.act)
  BY DEF IInv
<1>5. CASE BeginAction
  <2>1. UNCHANGED <<events, current, spoken, mark>> /\ pc' = "settle" /\ ~quiet' /\ acts' = acts + 1
    BY <1>5 DEF BeginAction
  <2>2. mark'.index <= Len(spoken)' /\ AttributedToOwnAction' /\ (mark'.quiet => NothingBefore(mark.act)')
    BY <1>3, <1>4, <2>1 DEF AttributedToOwnAction, NothingBefore
  <2>3. mark'.act <= acts'
    BY <1>2, <2>1 DEF Causes
  <2> QED
    BY <1>1, <2>1, <2>2, <2>3 DEF IInv
<1>6. CASE AskIdle
  <2>1. UNCHANGED <<current, spoken, acts, quiet, mark>> /\ pc' = "settling" /\ ~quiet
    BY <1>6 DEF AskIdle, IInv
  <2>2. events' = Append(events, Noop)
    BY <1>6 DEF AskIdle
  <2>3. mark.quiet => NothingBefore(mark.act)'
    BY <1>2, <1>4, <2>1, <2>2, HostKeepsApart
  <2>4. mark'.index <= Len(spoken)' /\ AttributedToOwnAction'
    BY <1>3, <2>1 DEF AttributedToOwnAction
  <2> QED
    BY <1>1, <1>2, <2>1, <2>3, <2>4 DEF IInv, NothingBefore
<1>7. CASE LookIdle
  <2>1. UNCHANGED <<events, current, spoken, acts, mark>> /\ pc' = "mark" /\ quiet' = (current = None)
    BY <1>7 DEF LookIdle
  <2>2. events = << >>
    BY <1>7 DEF LookIdle
  <2>3. quiet' => NothingBefore(acts)'
    <3>1. << >> \in Seq({Own, Noop} \cup acts .. MaxActions)
      OBVIOUS
    <3>2. events' \in Seq({Own, Noop} \cup acts .. MaxActions)
      BY <2>1, <2>2, <3>1
    <3> QED
      BY <2>1, <3>2 DEF NothingBefore
  <2>4. mark'.index <= Len(spoken)' /\ AttributedToOwnAction' /\ (mark'.quiet => NothingBefore(mark.act)')
    BY <1>3, <1>4, <2>1 DEF AttributedToOwnAction, NothingBefore
  <2> QED
    BY <1>1, <1>2, <2>1, <2>3, <2>4 DEF IInv, NothingBefore
<1>8. CASE LookBusy \/ BudgetSpent
  <2>1. UNCHANGED <<events, current, spoken, acts, quiet, mark>> /\ pc' \in {"settle", "mark"} /\ ~quiet
    BY <1>8 DEF LookBusy, BudgetSpent, IInv
  <2>2. mark'.index <= Len(spoken)' /\ AttributedToOwnAction' /\ (mark'.quiet => NothingBefore(mark.act)')
    BY <1>3, <1>4, <2>1 DEF AttributedToOwnAction, NothingBefore
  <2> QED
    BY <1>1, <1>2, <2>1, <2>2 DEF IInv, NothingBefore
<1>9. CASE RecordMark
  <2>1. UNCHANGED <<events, current, spoken, acts, quiet>> /\ pc = "mark" /\ pc' = "act"
    BY <1>9 DEF RecordMark
  <2>2. mark'.index = Len(spoken) /\ mark'.act = acts /\ mark'.quiet = quiet
    BY <1>9 DEF RecordMark
  <2>3. quiet => NothingBefore(acts)
    BY <2>1 DEF IInv
  <2>4. Len(spoken) \in Nat
    BY <1>1 DEF TypeOK
  <2>5. AttributedToOwnAction'
    BY <2>1, <2>2, <2>4 DEF AttributedToOwnAction
  <2>6. mark'.index <= Len(spoken)' /\ mark'.act <= acts'
    BY <1>2, <2>1, <2>2, <2>4 DEF Causes
  <2>7. (quiet' => NothingBefore(acts)') /\ (mark'.quiet => NothingBefore(acts)')
    BY <2>1, <2>2, <2>3 DEF NothingBefore
  <2> QED
    BY <1>1, <2>1, <2>2, <2>5, <2>6, <2>7 DEF IInv, NothingBefore
<1>10. CASE Act
  <2>1. UNCHANGED <<current, spoken, acts, quiet, mark>> /\ pc = "act" /\ pc' = "ready"
    BY <1>10 DEF Act
  <2>2. events' = Append(events, acts)
    BY <1>10 DEF Act
  <2>3. acts \in mark.act .. MaxActions /\ acts \in acts .. MaxActions
    BY <1>2 DEF Causes
  <2>4. mark.quiet => NothingBefore(mark.act)'
    BY <1>2, <1>4, <2>1, <2>2, <2>3, HostKeepsApart
  <2>5. quiet => NothingBefore(acts)
    BY <2>1 DEF IInv
  <2>6. quiet => NothingBefore(acts)'
    BY <1>2, <2>1, <2>2, <2>3, <2>5, HostKeepsApart
  <2>7. mark'.index <= Len(spoken)' /\ AttributedToOwnAction'
    BY <1>3, <2>1 DEF AttributedToOwnAction
  <2> QED
    BY <1>1, <1>2, <2>1, <2>4, <2>6, <2>7 DEF IInv, NothingBefore
<1> QED
  BY <1>5, <1>6, <1>7, <1>8, <1>9, <1>10

\* Every step preserves the invariant.
LEMMA NextInv == IInv /\ [Next]_vars => IInv'
<1> SUFFICES ASSUME IInv, [Next]_vars PROVE IInv'
  OBVIOUS
<1>1. CASE OwnEvent \/ TakeEvent \/ FollowUp \/ Speak \/ FinishEvent
  BY <1>1, NvdaInv
<1>2. CASE BeginAction \/ AskIdle \/ LookIdle \/ LookBusy \/ BudgetSpent \/ RecordMark \/ Act
  BY <1>2, HostInv
<1>3. CASE UNCHANGED vars
  BY <1>3 DEF vars, IInv, TypeOK, NothingBefore, AttributedToOwnAction
<1> QED
  BY <1>1, <1>2, <1>3 DEF Next, SessionOver

\* In every behaviour, however many actions, utterances and waiting events: the inductive
\* invariant of the queue, the event in hand, the log and the mark.
THEOREM ActionMarkInvariant == Spec => []IInv
<1>1. Init => IInv
  BY InitInv
<1>2. IInv /\ [Next]_vars => IInv'
  BY NextInv
<1> QED
  BY <1>1, <1>2, PTL DEF Spec

\* Speech heard from a mark that was recorded in quiet is the action's own or NVDA's, never
\* an earlier action's: what mark_action (client.py) waits for.
THEOREM AttributionHolds == Spec => []AttributedToOwnAction
<1>1. IInv => AttributedToOwnAction
  BY DEF IInv
<1> QED
  BY <1>1, ActionMarkInvariant, PTL

================================================================================
