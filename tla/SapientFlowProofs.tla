--------------------------- MODULE SapientFlowProofs ---------------------------
(***************************************************************************)
(* Theorems about SapientFlow, for any number of steps and any contents.   *)
(***************************************************************************)
EXTENDS SapientFlow, SequenceTheorems, InductionLemmas

LEMMA ProceedsType ==
  ASSUME step \in Index, Proceeds
  PROVE  step' \in Index /\ at' \in {"sending", "closing"}
  BY StepsAssumption DEF Proceeds, Index

\* A queue of answers, or a transcript, that one element is put into.
LEMMA AppendKeepsType ==
  ASSUME NEW S, NEW s \in Seq(S), NEW e \in S
  PROVE  Append(s, e) \in Seq(S)
  BY AppendProperties

LEMMA TakeKeepsType ==
  ASSUME NEW S, NEW s \in Seq(S), s # <<>>
  PROVE  Head(s) \in S /\ Tail(s) \in Seq(S)
  BY HeadTailProperties


\* The messages that get into the inbox: those that parse.
Plain == [of: 0..Steps, content: Contents]
TInv == TypeOK /\ inbox \in Seq(Plain)

LEMMA TypeInit == Init => TInv
<1>. SUFFICES ASSUME Init PROVE TInv
  OBVIOUS
<1>1. step \in Index
  BY StepsAssumption DEF Init, Index
<1>2. /\ back \in Seq(Answer) /\ replied \in Seq(Answer)
      /\ inbox \in Seq(Answer) /\ inbox \in Seq(Plain) /\ captured \in Seq(Entry)
  BY EmptySeq DEF Init
<1>. QED
  BY <1>1, <1>2 DEF Init, TInv, TypeOK

LEMMA FlowType == ASSUME TInv, FlowSteps PROVE TInv'
<1>. USE DEF TInv
<1>1. CASE Connects
  BY <1>1 DEF Connects, TypeOK, connection, runVars
<1>2. CASE GivesUp
  BY <1>2 DEF GivesUp, TypeOK, connection, runVars
<1>3. CASE Sends
  BY <1>3 DEF Sends, TypeOK, connection, runVars
<1>4. CASE Receives
  <2>. DEFINE e == [step |-> step, of |-> Head(inbox).of, content |-> Head(inbox).content]
  <2>1. Head(inbox) \in Plain /\ inbox' \in Seq(Plain) /\ inbox' \in Seq(Answer)
    BY <1>4, TakeKeepsType DEF Receives, TypeOK
  <2>2. e \in Entry
    BY <2>1 DEF Plain, Entry, TypeOK
  <2>3. captured' \in Seq(Entry)
    BY <1>4, <2>2, AppendKeepsType DEF Receives, TypeOK
  <2>4. /\ step' \in Index
        /\ at' \in {"connecting", "sending", "receiving", "draining", "closing",
                    "answered", "failed"}
    BY <1>4, ProceedsType DEF Receives, TypeOK
  <2>. QED
    BY <1>4, <2>1, <2>3, <2>4 DEF Receives, TypeOK, runVars
<1>5. CASE Timeout
  BY <1>5 DEF Timeout, TypeOK, connection, runVars
<1>6. CASE StopsReceiving
  BY <1>6 DEF StopsReceiving, TypeOK, connection, runVars
<1>7. CASE StopsDraining
  BY <1>7, ProceedsType DEF StopsDraining, TypeOK, connection, runVars
<1>8. CASE Finalises
  BY <1>8 DEF Finalises, TypeOK, connection
<1>9. CASE StampRaises
  <2>1. inbox' \in Seq(Plain) /\ inbox' \in Seq(Answer)
    BY <1>9, TakeKeepsType DEF StampRaises, TypeOK
  <2>. QED
    BY <1>9, <2>1 DEF StampRaises, TypeOK, runVars
<1>. QED
  BY <1>1, <1>2, <1>3, <1>4, <1>5, <1>6, <1>7, <1>8, <1>9 DEF FlowSteps, GoesOn

\* What comes back answers a message sent so far, or none.
LEMMA OtherEndAdds ==
  ASSUME TypeOK, OtherEndAnswers
  PROVE  \E a \in Answer : /\ back' = Append(back, a) /\ replied' = Append(replied, a)
                          /\ a.of <= Sent
<1>1. step \in 1..Steps /\ Steps \in Nat
  BY StepsAssumption DEF TypeOK, Index
<1>2. Sent \in 0..Steps
  BY <1>1 DEF Sent
<1>3. PICK a \in [of: 0..Sent, content: Contents] \cup {[of |-> 0, content |-> "garbled"]} :
        back' = Append(back, a) /\ replied' = Append(replied, a)
  BY DEF OtherEndAnswers
<1>4. a \in Answer /\ a.of <= Sent
  <2>1. CASE a \in [of: 0..Sent, content: Contents]
    <3>1. /\ a = [of |-> a.of, content |-> a.content]
          /\ a.of \in 0..Sent /\ a.content \in Contents
      BY <2>1
    <3>2. a.of \in 0..Steps /\ a.of <= Sent
      BY <1>1, <1>2, <3>1
    <3>. QED
      BY <3>1, <3>2 DEF Answer
  <2>2. CASE a = [of |-> 0, content |-> "garbled"]
    <3>1. 0 \in 0..Steps /\ 0 <= Sent
      BY <1>1, <1>2
    <3>. QED
      BY <2>2, <3>1 DEF Answer
  <2>. QED
    BY <2>1, <2>2
<1>. QED
  BY <1>3, <1>4

LEMMA TypeStep == TInv /\ [Next]_vars => TInv'
<1>. SUFFICES ASSUME TInv, [Next]_vars PROVE TInv'
  OBVIOUS
<1>. USE DEF TInv
<1>1. CASE FlowSteps
  BY <1>1, FlowType
<1>2. CASE Reads
  <2>1. Head(back) \in Answer /\ back' \in Seq(Answer)
    BY <1>2, TakeKeepsType DEF Reads, TypeOK
  <2>2. inbox' \in Seq(Plain)
    <3>1. CASE Head(back).content = "garbled"
      BY <1>2, <3>1 DEF Reads
    <3>2. CASE Head(back).content # "garbled"
      <4>1. Head(back) \in Plain
        BY <2>1, <3>2 DEF Answer, Plain
      <4>. QED
        BY <1>2, <3>2, <4>1, AppendKeepsType DEF Reads
    <3>. QED
      BY <3>1, <3>2
  <2>3. inbox' \in Seq(Answer)
    BY <2>2, SeqMonotonic DEF Plain, Answer
  <2>. QED
    BY <1>2, <2>1, <2>2, <2>3 DEF Reads, TypeOK, runVars
<1>3. CASE OtherEndAnswers
  <2>1. PICK a \in Answer : back' = Append(back, a) /\ replied' = Append(replied, a)
    BY <1>3, OtherEndAdds
  <2>2. back' \in Seq(Answer) /\ replied' \in Seq(Answer)
    BY <2>1, AppendKeepsType DEF TypeOK
  <2>. QED
    BY <1>3, <2>2 DEF OtherEndAnswers, TypeOK, runVars
<1>4. CASE OtherEndCloses
  BY <1>4 DEF OtherEndCloses, TypeOK, runVars
<1>5. CASE ClearLists
  BY <1>5 DEF ClearLists, TypeOK, connection
<1>6. CASE ClearRemoves
  BY <1>6 DEF ClearRemoves, TypeOK, connection
<1>7. CASE ReaderStarts
  BY <1>7 DEF ReaderStarts, TypeOK, runVars
<1>8. CASE UNCHANGED vars
  BY <1>8 DEF vars, TypeOK, connection, runVars
<1>. QED
  BY <1>1, <1>2, <1>3, <1>4, <1>5, <1>6, <1>7, <1>8 DEF Next

\* The variables of the flow runner keep their types; in particular what gets
\* into the transcript is always a message that parses (run_flow, _reader).
THEOREM FlowTypeCorrect == Spec => []TypeOK
<1>1. TInv => TypeOK
  BY DEF TInv
<1>. QED
  BY <1>1, TypeInit, TypeStep, PTL DEF Spec

-----------------------------------------------------------------------------
(* What a step is satisfied by *)

\* What is on its way answers a message that has been sent, ...
Caused ==
  /\ \A i \in DOMAIN inbox : inbox[i].of <= Sent
  /\ \A i \in DOMAIN back : back[i].of <= Sent

\* ... and so does what the flow has got.
EntryCaused == \A k \in DOMAIN captured : captured[k].of <= captured[k].step

\* A flow that is under way has got what the steps before waited for, and one
\* that has ended without an error what all its steps waited for.
Taken(n) ==
  \A i \in 1..n : waits[i] # None => \E k \in DOMAIN captured : Satisfied(i, captured[k])
UnderWay == at \in {"connecting", "sending", "receiving", "draining"}
Served ==
  /\ UnderWay => ok /\ Taken(step - 1)
  /\ ok /\ at \in {"closing", "answered"} => Taken(Steps)
Drains == at = "draining" => waits[step] = None
OwnAnswers ==
  \A k \in DOMAIN captured :
    Satisfied(captured[k].step, captured[k]) =>
      captured[k].of = captured[k].step \/ Surplus(captured[k].content, k)

MInv == TInv /\ Caused /\ EntryCaused /\ Served /\ Drains /\ OwnAnswers

LEMMA MInvMatches == MInv => MatchesOwnAnswer
  BY DEF MInv, Served, Taken, OwnAnswers, MatchesOwnAnswer, Index

\* What taking the head of a queue and putting an element at its end do to the
\* elements by their positions.
LEMMA TakenHead ==
  ASSUME NEW S, NEW s \in Seq(S), s # <<>>
  PROVE  /\ 1 \in DOMAIN s /\ Head(s) = s[1]
         /\ DOMAIN Tail(s) = 1..(Len(s) - 1)
         /\ \A i \in DOMAIN Tail(s) : i + 1 \in DOMAIN s /\ Tail(s)[i] = s[i + 1]
<1>1. Len(s) \in Nat \ {0} /\ DOMAIN s = 1..Len(s)
  BY LenProperties, EmptySeq
<1>2. Len(Tail(s)) = Len(s) - 1 /\ Tail(s) \in Seq(S)
  BY HeadTailProperties
<1>3. DOMAIN Tail(s) = 1..(Len(s) - 1)
  BY <1>2, LenProperties
<1>4. \A i \in 1..(Len(s) - 1) : Tail(s)[i] = s[i + 1]
  BY <1>1, HeadTailProperties
<1>. QED
  BY <1>1, <1>3, <1>4

LEMMA PutAtEnd ==
  ASSUME NEW S, NEW s \in Seq(S), NEW e \in S
  PROVE  /\ DOMAIN s = 1..Len(s) /\ Len(s) \in Nat
         /\ DOMAIN Append(s, e) = 1..(Len(s) + 1)
         /\ Append(s, e)[Len(s) + 1] = e
         /\ \A i \in DOMAIN s : Append(s, e)[i] = s[i]
  BY AppendProperties, LenProperties

\* What has been sent stays sent.
LEMMA SentGrows ==
  ASSUME TypeOK, [Next]_vars
  PROVE  Sent \in Nat /\ Sent' \in Nat /\ Sent <= Sent'
<1>1. step \in Nat \ {0} /\ Steps \in Nat
  BY StepsAssumption DEF TypeOK, Index
<1>2. Sent \in {step - 1, step} /\ (at \notin {"connecting", "sending"} => Sent = step)
  BY DEF Sent
<1>3. \/ step' = step /\ (at' \in {"connecting", "sending"} => at \in {"connecting", "sending"})
      \/ step' = step + 1
  BY <1>1 DEF Next, FlowSteps, GoesOn, Connects, GivesUp, Sends, Receives, Timeout,
     StopsReceiving, StopsDraining, Finalises, StampRaises, ReaderStarts, Reads,
     OtherEndAnswers, OtherEndCloses, ClearLists, ClearRemoves, Proceeds, vars
<1>4. CASE step' = step /\ (at' \in {"connecting", "sending"} => at \in {"connecting", "sending"})
  BY <1>1, <1>4 DEF Sent
<1>5. CASE step' = step + 1
  BY <1>1, <1>5 DEF Sent
<1>. QED
  BY <1>3, <1>4, <1>5

LEMMA CausedStep ==
  ASSUME MInv, [Next]_vars
  PROVE  Caused'
<1>1. /\ TypeOK /\ Sent \in Nat /\ Sent' \in Nat /\ Sent <= Sent'
      /\ inbox \in Seq(Plain) /\ back \in Seq(Answer)
  BY SentGrows DEF MInv, TInv, TypeOK
<1>2. /\ \A i \in DOMAIN inbox : inbox[i].of <= Sent /\ inbox[i].of \in Nat
      /\ \A i \in DOMAIN back : back[i].of <= Sent /\ back[i].of \in Nat
  <2>1. /\ \A i \in DOMAIN inbox : inbox[i] \in Plain
        /\ \A i \in DOMAIN back : back[i] \in Answer
    BY <1>1, ElementOfSeq, LenProperties
  <2>2. Steps \in Nat
    BY StepsAssumption
  <2>. QED
    BY <2>1, <2>2 DEF MInv, Caused, Plain, Answer
<1>3. ASSUME \A i \in DOMAIN inbox' : inbox'[i].of \in Nat /\ inbox'[i].of <= Sent,
             \A i \in DOMAIN back' : back'[i].of \in Nat /\ back'[i].of <= Sent
      PROVE  Caused'
  BY <1>1, <1>3 DEF Caused
<1>4. CASE UNCHANGED <<inbox, back>>
  BY <1>2, <1>3, <1>4
<1>5. CASE Receives \/ StampRaises
  <2>1. CASE inbox # <<>> /\ inbox' = Tail(inbox) /\ back' = back
    <3>1. \A i \in DOMAIN inbox' : i + 1 \in DOMAIN inbox /\ inbox'[i] = inbox[i + 1]
      BY <1>1, <2>1, TakenHead
    <3>. QED
      BY <1>2, <1>3, <2>1, <3>1
  <2>. QED
    BY <1>4, <1>5, <2>1 DEF Receives, StampRaises
<1>6. CASE Reads
  <2>1. back # <<>> /\ back' = Tail(back)
    BY <1>6 DEF Reads
  <2>2. /\ \A i \in DOMAIN back' : i + 1 \in DOMAIN back /\ back'[i] = back[i + 1]
        /\ 1 \in DOMAIN back /\ Head(back) = back[1]
    BY <1>1, <2>1, TakenHead
  <2>3. CASE inbox' = inbox
    BY <1>2, <1>3, <2>2, <2>3
  <2>4. CASE inbox' = Append(inbox, Head(back)) /\ Head(back).content # "garbled"
    <3>1. Head(back) \in Plain
      <4>1. Head(back) \in Answer
        BY <1>1, <2>1, TakeKeepsType
      <4>. QED
        BY <2>4, <4>1 DEF Answer, Plain
    <3>2. \A i \in DOMAIN inbox' : inbox'[i] = back[1] \/ (i \in DOMAIN inbox /\ inbox'[i] = inbox[i])
      BY <1>1, <2>2, <2>4, <3>1, PutAtEnd
    <3>. QED
      BY <1>2, <1>3, <2>2, <3>2
  <2>. QED
    BY <1>6, <2>3, <2>4 DEF Reads
<1>7. CASE OtherEndAnswers
  <2>1. PICK a \in Answer : back' = Append(back, a) /\ a.of <= Sent
    BY <1>1, <1>7, OtherEndAdds
  <2>2. \A i \in DOMAIN back' : back'[i] = a \/ (i \in DOMAIN back /\ back'[i] = back[i])
    BY <1>1, <2>1, PutAtEnd
  <2>3. a.of \in Nat
    BY StepsAssumption DEF Answer
  <2>4. inbox' = inbox
    BY <1>7 DEF OtherEndAnswers
  <2>. QED
    BY <1>2, <1>3, <2>1, <2>2, <2>3, <2>4
<1>. QED
  BY <1>4, <1>5, <1>6, <1>7 DEF Next, FlowSteps, GoesOn, vars, connection, Connects,
     GivesUp, Sends, Timeout, StopsReceiving, StopsDraining, Finalises, ReaderStarts,
     OtherEndCloses, ClearLists, ClearRemoves

\* An answer that is taken is entered behind those before, under the step that
\* takes it, which is the step whose message it answers or a later one.
LEMMA EntryAdded ==
  ASSUME MInv, Receives
  PROVE  /\ DOMAIN captured = 1..Len(captured) /\ Len(captured) \in Nat
         /\ DOMAIN captured' = 1..(Len(captured) + 1)
         /\ \A i \in DOMAIN captured : captured'[i] = captured[i] /\ captured[i] \in Entry
         /\ captured'[Len(captured) + 1] \in Entry
         /\ captured'[Len(captured) + 1].step = step
         /\ captured'[Len(captured) + 1].content = Head(inbox).content
         /\ captured'[Len(captured) + 1].of <= step
<1>. DEFINE e == [step |-> step, of |-> Head(inbox).of, content |-> Head(inbox).content]
<1>1. /\ captured' = Append(captured, e) /\ at \in {"receiving", "draining"} /\ inbox # <<>>
  BY DEF Receives
<1>2. captured \in Seq(Entry) /\ inbox \in Seq(Plain) /\ step \in Index
  BY DEF MInv, TInv, TypeOK
<1>3. Head(inbox) \in Plain
  BY <1>1, <1>2, TakeKeepsType
<1>4. e \in Entry
  BY <1>2, <1>3 DEF Plain, Entry
<1>5. Head(inbox).of <= step
  <2>1. 1 \in DOMAIN inbox /\ Head(inbox) = inbox[1]
    BY <1>1, <1>2, TakenHead
  <2>2. Sent = step
    BY <1>1 DEF Sent
  <2>. QED
    BY <2>1, <2>2 DEF MInv, Caused
<1>6. \A i \in DOMAIN captured : captured[i] \in Entry
  BY <1>2, ElementOfSeq, LenProperties
<1>7. e.step = step /\ e.of = Head(inbox).of /\ e.content = Head(inbox).content
  OBVIOUS
<1>. HIDE DEF e
<1>8. /\ DOMAIN captured = 1..Len(captured) /\ Len(captured) \in Nat
      /\ DOMAIN captured' = 1..(Len(captured) + 1)
      /\ captured'[Len(captured) + 1] = e
      /\ \A i \in DOMAIN captured : captured'[i] = captured[i]
  BY <1>1, <1>2, <1>4, PutAtEnd
<1>. QED
  BY <1>4, <1>5, <1>6, <1>7, <1>8

\* Entries that are added change nothing about those before.
LEMMA SurplusStays ==
  ASSUME waits' = waits, NEW c, NEW k \in Nat,
         \A i \in 1..k : captured'[i] = captured[i],
         Surplus(c, k)
  PROVE  Surplus(c, k)'
<1>1. PICK a \in 1..k :
        /\ captured[a].content = c
        /\ \/ captured[a].of = 0
           \/ waits[captured[a].of] # c
           \/ \E b \in 1..(a - 1) : captured[b].of = captured[a].of /\ captured[b].content = c
  BY DEF Surplus
<1>2. \A b \in 1..(a - 1) : b \in 1..k
  OBVIOUS
<1>. QED
  BY <1>1, <1>2 DEF Surplus

\* The step that is satisfied by the answer to another step's message had a
\* message too many: that step waited for something else, or it had its own
\* answer, or there was a message too many by then already.
LEMMA ReceivesOwnAnswers ==
  ASSUME MInv, Receives
  PROVE  OwnAnswers' /\ EntryCaused'
<1>. DEFINE n == Len(captured)
<1>1. /\ DOMAIN captured = 1..n /\ n \in Nat /\ DOMAIN captured' = 1..(n + 1)
      /\ \A i \in DOMAIN captured : captured'[i] = captured[i] /\ captured[i] \in Entry
      /\ captured'[n + 1] \in Entry
      /\ captured'[n + 1].step = step /\ captured'[n + 1].of <= step
  BY EntryAdded
<1>2. waits' = waits /\ Taken(step - 1) /\ step \in 1..Steps /\ Steps \in Nat
  BY StepsAssumption DEF MInv, Receives, Served, UnderWay, TInv, TypeOK, Index
<1>. HIDE DEF n
<1>3. EntryCaused'
  <2>. SUFFICES ASSUME NEW k \in DOMAIN captured'
                PROVE  captured'[k].of <= captured'[k].step
    BY DEF EntryCaused
  <2>1. k \in DOMAIN captured \/ k = n + 1
    BY <1>1
  <2>. QED
    BY <1>1, <2>1 DEF MInv, EntryCaused
<1>4. OwnAnswers'
  <2>. SUFFICES ASSUME NEW k \in DOMAIN captured', Satisfied(captured[k].step, captured[k])',
                       captured'[k].of # captured'[k].step
                PROVE  Surplus(captured[k].content, k)'
    BY DEF OwnAnswers
  <2>1. PICK c : c = captured'[k].content
    OBVIOUS
  <2>2. SUFFICES Surplus(c, k)'
    BY <2>1 DEF Surplus
  <2>3. CASE k \in DOMAIN captured
    <3>1. captured'[k] = captured[k] /\ k \in Nat /\ \A i \in 1..k : captured'[i] = captured[i]
      BY <1>1, <2>3
    <3>2. Surplus(captured[k].content, k)
      BY <1>2, <2>3, <3>1 DEF MInv, OwnAnswers, Satisfied
    <3>3. Surplus(c, k)
      BY <2>1, <3>1, <3>2
    <3>. QED
      BY <1>2, <3>1, <3>3, SurplusStays
  <2>4. CASE k = n + 1
    <3>1. /\ captured'[k].step = step /\ c = waits[step]
          /\ captured'[k].of \in 0..(step - 1)
      BY <1>1, <1>2, <2>1, <2>4 DEF Satisfied, Entry
    <3>2. c # None
      BY <1>1, <2>1, <2>4, ContentsAssumption DEF Entry
    <3>3. k \in 1..k /\ k \in Nat
      BY <1>1, <2>4
    <3>4. PICK j : j = captured'[k].of
      OBVIOUS
    <3>5. CASE j = 0 \/ waits[j] # c
      BY <1>2, <2>1, <3>3, <3>4, <3>5 DEF Surplus
    <3>6. CASE j # 0 /\ waits[j] = c
      <4>1. j \in 1..(step - 1)
        BY <1>2, <3>1, <3>4, <3>6
      <4>2. PICK b \in DOMAIN captured : Satisfied(j, captured[b])
        BY <1>2, <3>2, <3>6, <4>1 DEF Taken
      <4>3. /\ captured[b].step = j /\ captured[b].content = c /\ captured'[b] = captured[b]
            /\ b \in 1..(k - 1) /\ b \in Nat /\ b <= k
        BY <1>1, <2>4, <3>6, <4>2 DEF Satisfied
      <4>4. CASE captured[b].of = j
        BY <2>1, <3>3, <3>4, <4>3, <4>4 DEF Surplus
      <4>5. CASE captured[b].of # j
        <5>1. Surplus(captured[b].content, b)
          BY <4>2, <4>3, <4>5 DEF MInv, OwnAnswers
        <5>2. Surplus(c, b)
          BY <4>3, <5>1
        <5>3. \A i \in 1..b : captured'[i] = captured[i]
          BY <1>1, <4>2
        <5>4. Surplus(c, b)'
          BY <1>2, <4>3, <5>2, <5>3, SurplusStays
        <5>5. 1..b \subseteq 1..k
          BY <3>3, <4>3
        <5>. QED
          BY <5>4, <5>5 DEF Surplus
      <4>. QED
        BY <4>4, <4>5
    <3>. QED
      BY <3>5, <3>6
  <2>. QED
    BY <1>1, <2>3, <2>4
<1>. QED
  BY <1>3, <1>4

\* A step that enters nothing and does not go on to another step of the flow.
LEMMA NothingTaken ==
  ASSUME MInv, UNCHANGED <<waits, step, captured>>,
         UnderWay' => UnderWay /\ ok',
         ok' /\ at' \in {"closing", "answered"} => ok /\ at \in {"closing", "answered"},
         at' = "draining" => waits[step] = None
  PROVE  EntryCaused' /\ Served' /\ Drains' /\ OwnAnswers'
<1>1. EntryCaused' /\ Drains'
  BY DEF MInv, EntryCaused, Drains
<1>2. OwnAnswers'
  BY DEF MInv, OwnAnswers, Satisfied, Surplus
<1>3. /\ Taken(Steps)' <=> Taken(Steps)
      /\ Taken(step - 1)' <=> Taken(step - 1)
  BY DEF Taken, Satisfied
<1>4. Served'
  BY <1>3 DEF MInv, Served
<1>. QED
  BY <1>1, <1>2, <1>4

\* Going on to the next step, when this one has got what it waited for.
LEMMA ProceedsKeeps ==
  ASSUME MInv, UnderWay, Proceeds, NEW n, n = step, UNCHANGED <<waits, ok>>, Taken(n)'
  PROVE  Served' /\ Drains'
<1>1. step \in 1..Steps /\ Steps \in Nat /\ ok
  BY StepsAssumption DEF MInv, TInv, TypeOK, Index, Served
<1>2. CASE step < Steps
  <2>1. step' = step + 1 /\ at' = "sending"
    BY <1>2 DEF Proceeds
  <2>2. (1..(step - 1))' = 1..n
    BY <1>1, <2>1
  <2>. QED
    BY <1>1, <2>1, <2>2 DEF Served, Taken, UnderWay, Drains
<1>3. CASE ~(step < Steps)
  <2>1. at' = "closing" /\ n = Steps
    BY <1>1, <1>3 DEF Proceeds
  <2>. QED
    BY <2>1 DEF Served, UnderWay, Drains
<1>. QED
  BY <1>2, <1>3

LEMMA ReceivesServes ==
  ASSUME MInv, Receives
  PROVE  Served' /\ Drains'
<1>1. /\ DOMAIN captured = 1..Len(captured) /\ Len(captured) \in Nat
      /\ DOMAIN captured' = 1..(Len(captured) + 1)
      /\ \A i \in DOMAIN captured : captured'[i] = captured[i]
      /\ captured'[Len(captured) + 1].step = step
      /\ captured'[Len(captured) + 1].content = Head(inbox).content
  BY EntryAdded
<1>2. /\ waits' = waits /\ ok' = ok /\ at \in {"receiving", "draining"} /\ UnderWay
      /\ ok /\ Taken(step - 1) /\ step \in 1..Steps /\ Steps \in Nat
  BY StepsAssumption DEF MInv, Receives, Served, UnderWay, TInv, TypeOK, Index
<1>3. ASSUME NEW i, NEW k \in DOMAIN captured, Satisfied(i, captured[k])
      PROVE  k \in DOMAIN captured' /\ Satisfied(i, captured[k])'
  BY <1>1, <1>2, <1>3 DEF Satisfied
<1>4. CASE at = "receiving" /\ Head(inbox).content = waits[step]
  <2>1. PICK n : n = step
    OBVIOUS
  <2>2. Taken(n)'
    <3>1. SUFFICES ASSUME NEW i \in 1..n, waits'[i] # None
                   PROVE  \E k \in DOMAIN captured' : Satisfied(i, captured[k])'
      BY DEF Taken
    <3>2. CASE i = n
      <4>1. PICK k \in DOMAIN captured' :
              captured'[k].step = step /\ captured'[k].content = waits[step]
        BY <1>1, <1>4
      <4>. QED
        BY <1>2, <2>1, <3>2, <4>1 DEF Satisfied
    <3>3. CASE i # n
      <4>1. i \in 1..(step - 1)
        BY <1>2, <2>1, <3>3
      <4>. QED
        BY <1>2, <1>3, <3>1, <4>1 DEF Taken
    <3>. QED
      BY <3>2, <3>3
  <2>3. Proceeds
    BY <1>4 DEF Receives
  <2>. QED
    BY <1>2, <2>1, <2>2, <2>3, ProceedsKeeps
<1>5. CASE ~(at = "receiving" /\ Head(inbox).content = waits[step])
  <2>1. at' = at /\ step' = step
    BY <1>5 DEF Receives
  <2>2. Taken(step - 1)'
    BY <1>2, <1>3, <2>1 DEF Taken
  <2>. QED
    BY <1>2, <2>1, <2>2 DEF MInv, Served, UnderWay, Drains
<1>. QED
  BY <1>4, <1>5

LEMMA MInvInit == Init => MInv
<1>. SUFFICES ASSUME Init PROVE MInv
  OBVIOUS
<1>1. TInv /\ inbox = <<>> /\ back = <<>> /\ captured = <<>> /\ step = 1 /\ at = "connecting"
  BY TypeInit DEF Init
<1>2. DOMAIN inbox = {} /\ DOMAIN back = {} /\ DOMAIN captured = {}
  BY <1>1
<1>3. Caused /\ EntryCaused /\ OwnAnswers
  BY <1>2 DEF Caused, EntryCaused, OwnAnswers
<1>4. Taken(step - 1)
  BY <1>1 DEF Taken
<1>. QED
  BY <1>1, <1>3, <1>4 DEF Init, MInv, Served, Drains

LEMMA MInvStep == MInv /\ [Next]_vars => MInv'
<1>. SUFFICES ASSUME MInv, [Next]_vars PROVE MInv'
  OBVIOUS
<1>1. TInv' /\ Caused'
  BY TypeStep, CausedStep DEF MInv
<1>2. ASSUME EntryCaused' /\ Served' /\ Drains' /\ OwnAnswers'
      PROVE  MInv'
  BY <1>1, <1>2 DEF MInv
<1>3. CASE \/ Connects \/ GivesUp \/ Sends \/ Timeout \/ StopsReceiving \/ Finalises
           \/ StampRaises
  <2>0. UnderWay => ok
    BY DEF MInv, Served
  <2>1. /\ UNCHANGED <<waits, step, captured>>
        /\ UnderWay' => UnderWay /\ ok'
        /\ ok' /\ at' \in {"closing", "answered"} => ok /\ at \in {"closing", "answered"}
        /\ at' = "draining" => waits[step] = None
    BY <1>3, <2>0 DEF Connects, GivesUp, Sends, Timeout, StopsReceiving, Finalises,
       StampRaises, UnderWay
  <2>. QED
    BY <1>2, <2>1, NothingTaken
<1>4. CASE \/ ReaderStarts \/ Reads \/ OtherEndAnswers \/ OtherEndCloses \/ ClearLists
           \/ ClearRemoves \/ UNCHANGED vars
  <2>1. UNCHANGED <<waits, at, step, ok, captured>>
    BY <1>4 DEF ReaderStarts, Reads, OtherEndAnswers, OtherEndCloses, ClearLists,
       ClearRemoves, vars
  <2>2. /\ UnderWay' => UnderWay /\ ok'
        /\ at' = "draining" => waits[step] = None
    BY <2>1 DEF UnderWay, MInv, Served, Drains
  <2>. QED
    BY <1>2, <2>1, <2>2, NothingTaken
<1>5. CASE Receives
  BY <1>2, <1>5, ReceivesServes, ReceivesOwnAnswers
<1>6. CASE StopsDraining
  <2>1. UNCHANGED <<waits, ok, captured>> /\ at = "draining" /\ Proceeds /\ UnderWay
    BY <1>6 DEF StopsDraining, UnderWay
  <2>2. EntryCaused' /\ OwnAnswers'
    BY <2>1 DEF EntryCaused, OwnAnswers, Satisfied, Surplus, MInv
  <2>3. waits[step] = None /\ Taken(step - 1) /\ step \in 1..Steps /\ Steps \in Nat
    BY <2>1, StepsAssumption DEF MInv, Drains, Served, TInv, TypeOK, Index
  <2>4. PICK n : n = step
    OBVIOUS
  <2>5. Taken(n)'
    <3>1. \A i \in 1..n : i = n \/ i \in 1..(step - 1)
      BY <2>3, <2>4
    <3>. QED
      BY <2>1, <2>3, <2>4, <3>1 DEF Taken, Satisfied
  <2>6. Served' /\ Drains'
    BY <2>1, <2>4, <2>5, ProceedsKeeps
  <2>. QED
    BY <1>2, <2>2, <2>6
<1>. QED
  BY <1>3, <1>4, <1>5, <1>6 DEF Next, FlowSteps, GoesOn

\* In a flow of any length, whatever comes back, a step is only ever satisfied
\* by the answer to its own message or after a message too many of the content
\* it waits for; and a flow without an error got all it waited for (run_flow,
\* lines 167-212).
THEOREM StepsTakeOwnAnswers == Spec => []MatchesOwnAnswer
  BY MInvInit, MInvStep, MInvMatches, PTL DEF Spec

-----------------------------------------------------------------------------
(* The result on disk *)

SavedLast == saved => at = "answered"

LEMMA SavedLastAlways == Spec => []SavedLast
<1>1. Init => SavedLast
  BY DEF Init, SavedLast
<1>2. SavedLast /\ [Next]_vars => SavedLast'
  BY DEF SavedLast, Next, vars, runVars, FlowSteps, GoesOn, Connects, GivesUp, Sends, Receives,
         Timeout, StopsReceiving, StopsDraining, Finalises, StampRaises, ReaderStarts, Reads,
         OtherEndAnswers, OtherEndCloses, ClearLists, ClearRemoves, Proceeds
<1>. QED
  BY <1>1, <1>2, PTL DEF Spec

\* A result is removed by no clear but one that had listed it (clear_runs,
\* line 225, against run_flow's last write).
THEOREM ResultsOutliveClears == Spec => ResultIsKept
<1>1. SavedLast /\ [Next]_vars => (saved /\ ~saved' => clearing = "seen")
  BY DEF SavedLast, Next, vars, runVars, FlowSteps, GoesOn, Connects, GivesUp, Sends, Receives,
         Timeout, StopsReceiving, StopsDraining, Finalises, StampRaises, ReaderStarts, Reads,
         OtherEndAnswers, OtherEndCloses, ClearLists, ClearRemoves
<1>2. SavedLast /\ [Next]_vars => [saved /\ ~saved' => clearing = "seen"]_vars
  BY <1>1
<1>. QED
  BY <1>2, SavedLastAlways, PTL DEF Spec, ResultIsKept

-----------------------------------------------------------------------------
(* What the transcript holds *)

\* Parsed, by its values on the beginnings of the answers.
Next1(before, a) == IF a.content = "garbled" THEN before ELSE Append(before, a)
Parses(f, s) ==
  /\ f \in [0..Len(s) -> Seq(Answer)]
  /\ f[0] = <<>>
  /\ \A k \in 1..Len(s) : f[k] = Next1(f[k - 1], s[k])

LEMMA ParsedParses ==
  ASSUME NEW s \in Seq(Answer)
  PROVE  \E f : Parses(f, s) /\ Parsed(s) = f[Len(s)]
<1>. DEFINE n == Len(s)
            S == Seq(Answer)
            empty == <<>>
            Then(before, k) ==
              IF s[k].content = "garbled" THEN before ELSE Append(before, s[k])
            Is(f) == f = [k \in 0..n |-> IF k = 0 THEN empty ELSE Then(f[k - 1], k)]
            g == CHOOSE f : Is(f)
            F == [k \in 1..n |-> [before \in S |-> Then(before, k)]]
<1>1. n \in Nat /\ empty \in S /\ \A k \in 1..n : s[k] \in Answer
  BY LenProperties, ElementOfSeq, EmptySeq
<1>2. \A k \in 1..n : \A before \in S : Then(before, k) \in S
  BY <1>1, AppendProperties
<1>3. Parsed(s) = g[n]
  BY DEF Parsed
<1>4. \A k, before : Then(before, k) = Next1(before, s[k])
  BY DEF Next1
<1>. HIDE DEF n, S, empty, Then, g
<1>5. F \in [1..n -> [S -> S]]
  BY <1>2
<1>6. PICK f \in [0..n -> S] : f[0] = empty /\ \A k \in 1..n : f[k] = F[k][f[k - 1]]
  <2>1. \E f : IsRecursion(f, n, S, empty, F)
    <3>. HIDE DEF F
    <3>. QED
      BY <1>1, <1>5, BoundedRecursion
  <2>. QED
    BY <2>1 DEF IsRecursion
<1>7. ASSUME NEW k \in 1..n PROVE f[k] = Then(f[k - 1], k) /\ k - 1 \in 0..n
  <2>1. k - 1 \in 0..n
    BY <1>1
  <2>. QED
    BY <1>6, <2>1
<1>8. Is(f)
  <2>1. \A k \in 0..n : f[k] = IF k = 0 THEN empty ELSE Then(f[k - 1], k)
    BY <1>1, <1>6, <1>7
  <2>. QED
    BY <1>6, <2>1
<1>9. \A k \in 0..n : g[k] = IF k = 0 THEN empty ELSE Then(g[k - 1], k)
  <2>1. Is(g)
    <3>. HIDE DEF Is
    <3>. QED
      BY <1>8 DEF g
  <2>. QED
    BY <2>1
<1>. DEFINE T == {k \in 0..n : g[k] = f[k]}
<1>10. 0 \in T
  BY <1>1, <1>6, <1>9
<1>11. ASSUME NEW k \in 0..(n - 1), k \in T PROVE k + 1 \in T
  <2>1. k + 1 \in 1..n /\ k + 1 - 1 = k /\ k + 1 \in 0..n /\ k + 1 # 0
    BY <1>1
  <2>2. g[k + 1] = Then(g[k], k + 1)
    BY <1>9, <2>1
  <2>3. f[k + 1] = Then(f[k], k + 1)
    BY <1>7, <2>1
  <2>. QED
    BY <1>11, <2>1, <2>2, <2>3
<1>12. g[n] = f[n]
  <2>. HIDE DEF T
  <2>1. \A k \in 0..n : k \in T
    BY <1>1, <1>10, <1>11, BoundedInduction
  <2>. QED
    BY <1>1, <2>1 DEF T
<1>13. Parses(f, s)
  BY <1>6, <1>7, <1>4 DEF Parses, n, S, empty
<1>. QED
  BY <1>3, <1>12, <1>13 DEF n

LEMMA ParsedType == ASSUME NEW s \in Seq(Answer) PROVE Parsed(s) \in Seq(Answer)
<1>1. PICK f : Parses(f, s) /\ Parsed(s) = f[Len(s)]
  BY ParsedParses
<1>. QED
  BY <1>1, LenProperties DEF Parses

LEMMA ParsedEmpty == Parsed(<<>>) = <<>>
<1>1. <<>> \in Seq(Answer) /\ Len(<<>>) = 0
  BY EmptySeq
<1>2. PICK f : Parses(f, <<>>) /\ Parsed(<<>>) = f[Len(<<>>)]
  BY <1>1, ParsedParses
<1>. QED
  BY <1>1, <1>2 DEF Parses

\* One more answer, at the end.
LEMMA ParsedAppend ==
  ASSUME NEW s \in Seq(Answer), NEW a \in Answer
  PROVE  Parsed(Append(s, a)) = Next1(Parsed(s), a)
<1>. DEFINE t == Append(s, a)
            n == Len(s)
<1>1. /\ t \in Seq(Answer) /\ n \in Nat /\ Len(t) = n + 1 /\ t[n + 1] = a
      /\ \A k \in 1..n : t[k] = s[k]
  BY AppendProperties, LenProperties
<1>. HIDE DEF t, n
<1>2. PICK f : Parses(f, s) /\ Parsed(s) = f[n]
  BY ParsedParses DEF n
<1>3. PICK g : Parses(g, t) /\ Parsed(t) = g[n + 1]
  BY <1>1, ParsedParses
<1>. DEFINE T == {k \in 0..n : g[k] = f[k]}
<1>4. 0 \in T
  BY <1>1, <1>2, <1>3 DEF Parses
<1>5. ASSUME NEW k \in 0..(n - 1), k \in T PROVE k + 1 \in T
  <2>1. k + 1 \in 1..n /\ k + 1 \in 1..(n + 1) /\ k + 1 - 1 = k /\ k + 1 \in 0..n
    BY <1>1
  <2>2. g[k + 1] = Next1(g[k], s[k + 1])
    BY <1>1, <1>3, <2>1 DEF Parses
  <2>3. f[k + 1] = Next1(f[k], s[k + 1])
    BY <1>2, <2>1 DEF Parses, n
  <2>. QED
    BY <1>5, <2>1, <2>2, <2>3
<1>6. g[n] = f[n]
  <2>. HIDE DEF T
  <2>1. \A k \in 0..n : k \in T
    BY <1>1, <1>4, <1>5, BoundedInduction
  <2>. QED
    BY <1>1, <2>1 DEF T
<1>7. g[n + 1] = Next1(g[n], a)
  <2>1. n + 1 \in 1..Len(t) /\ n + 1 - 1 = n
    BY <1>1
  <2>. QED
    BY <1>1, <1>3, <2>1 DEF Parses
<1>. QED
  BY <1>2, <1>3, <1>6, <1>7 DEF t

\* One answer fewer, at the front.
LEMMA ParsedHead ==
  ASSUME NEW s \in Seq(Answer), s # <<>>
  PROVE  Parsed(s) = (IF Head(s).content = "garbled" THEN <<>> ELSE <<Head(s)>>) \o Parsed(Tail(s))
<1>. DEFINE t == Tail(s)
            n == Len(t)
            first == IF Head(s).content = "garbled" THEN <<>> ELSE <<Head(s)>>
<1>1. /\ t \in Seq(Answer) /\ Len(s) \in Nat /\ n \in Nat /\ Len(s) = n + 1
      /\ Head(s) = s[1] /\ s[1] \in Answer
      /\ \A k \in 1..n : t[k] = s[k + 1] /\ t[k] \in Answer
  <2>1. Len(s) \in Nat \ {0} /\ t \in Seq(Answer) /\ n = Len(s) - 1
    BY EmptySeq, HeadTailProperties
  <2>2. \A k \in 1..n : t[k] = s[k + 1] /\ t[k] \in Answer
    BY <2>1, HeadTailProperties, ElementOfSeq
  <2>3. Head(s) = s[1] /\ s[1] \in Answer
    BY <2>1, ElementOfSeq
  <2>. HIDE DEF t, n
  <2>. QED
    BY <2>1, <2>2, <2>3
<1>2. first \in Seq(Answer) /\ Next1(<<>>, s[1]) = first
  <2>1. Append(<<>>, s[1]) = <<s[1]>> /\ <<s[1]>> \in Seq(Answer) /\ <<>> \in Seq(Answer)
    <3>1. <<>> \in Seq(Answer)
      BY EmptySeq
    <3>2. Append(<<>>, s[1]) = <<>> \o <<s[1]>> /\ Append(<<>>, s[1]) \in Seq(Answer)
      BY <1>1, <3>1, AppendIsConcat, AppendProperties
    <3>3. <<s[1]>> \in Seq(Answer)
      BY <1>1
    <3>. QED
      BY <3>1, <3>2, <3>3, ConcatEmptySeq
  <2>. QED
    BY <1>1, <2>1 DEF Next1
<1>3. PICK f : Parses(f, s) /\ Parsed(s) = f[Len(s)]
  BY ParsedParses
<1>4. PICK g : Parses(g, t) /\ Parsed(t) = g[n]
  <2>. HIDE DEF t
  <2>. QED
    BY <1>1, ParsedParses
<1>. HIDE DEF t, n, first
<1>. DEFINE T == {k \in 0..n : f[k + 1] = first \o g[k]}
<1>5. 0 \in T
  <2>1. f[1] = Next1(f[0], s[1]) /\ f[0] = <<>> /\ g[0] = <<>>
    BY <1>1, <1>3, <1>4 DEF Parses
  <2>2. first \o <<>> = first
    BY <1>2, ConcatEmptySeq
  <2>. QED
    BY <1>1, <1>2, <2>1, <2>2
<1>6. ASSUME NEW k \in 0..(n - 1), k \in T PROVE k + 1 \in T
  <2>1. /\ k + 1 \in 1..n /\ k + 1 - 1 = k /\ k + 1 \in 0..n /\ k \in 0..n
        /\ k + 1 + 1 \in 1..Len(s) /\ k + 1 + 1 - 1 = k + 1
    BY <1>1
  <2>2. f[k + 1 + 1] = Next1(f[k + 1], t[k + 1]) /\ t[k + 1] \in Answer
    <3>1. f[k + 1 + 1] = Next1(f[k + 1 + 1 - 1], s[k + 1 + 1])
      BY <1>3, <2>1 DEF Parses
    <3>. QED
      BY <1>1, <2>1, <3>1
  <2>3. g[k + 1] = Next1(g[k], t[k + 1]) /\ g[k] \in Seq(Answer)
    BY <1>4, <2>1 DEF Parses, n
  <2>4. f[k + 1] = first \o g[k] /\ first \o g[k] \in Seq(Answer)
    BY <1>2, <1>6, <2>3, ConcatProperties
  <2>5. Append(first \o g[k], t[k + 1]) = first \o Append(g[k], t[k + 1])
    <3>. DEFINE b == <<t[k + 1]>>
    <3>1. b \in Seq(Answer)
      BY <2>2
    <3>2. Append(first \o g[k], t[k + 1]) = (first \o g[k]) \o b
      BY <2>2, <2>4, AppendIsConcat
    <3>3. Append(g[k], t[k + 1]) = g[k] \o b
      BY <2>2, <2>3, AppendIsConcat
    <3>4. (first \o g[k]) \o b = first \o (g[k] \o b)
      <4>1. PICK x : x = g[k]
        OBVIOUS
      <4>2. first \in Seq(Answer) /\ x \in Seq(Answer)
        BY <1>2, <2>3, <4>1
      <4>. HIDE DEF b
      <4>3. (first \o x) \o b = first \o (x \o b)
        BY <3>1, <4>2, ConcatAssociative
      <4>. QED
        BY <4>1, <4>3
    <3>. HIDE DEF b
    <3>. QED
      BY <3>2, <3>3, <3>4, Zenon
  <2>6. f[k + 1 + 1] = first \o g[k + 1]
    BY <2>2, <2>3, <2>4, <2>5 DEF Next1
  <2>. QED
    BY <2>1, <2>6
<1>7. f[n + 1] = first \o g[n]
  <2>. HIDE DEF T
  <2>1. \A k \in 0..n : k \in T
    BY <1>1, <1>5, <1>6, BoundedInduction
  <2>. QED
    BY <1>1, <2>1 DEF T
<1>. QED
  BY <1>1, <1>3, <1>4, <1>7 DEF t, first

InOrder == Received \o inbox \o Parsed(back) = Parsed(replied)

\* What the flow has got so far, as answers.
LEMMA ReceivedIs ==
  ASSUME TInv
  PROVE  /\ Received \in Seq(Answer) /\ Len(Received) = Len(captured)
         /\ Len(captured) \in Nat /\ DOMAIN captured = 1..Len(captured)
<1>1. captured \in Seq(Entry)
  BY DEF TInv, TypeOK
<1>2. /\ DOMAIN captured = 1..Len(captured) /\ Len(captured) \in Nat
      /\ \A i \in 1..Len(captured) : captured[i] \in Entry
  BY <1>1, LenProperties, ElementOfSeq
<1>3. \A i \in 1..Len(captured) : [of |-> captured[i].of, content |-> captured[i].content] \in Answer
  BY <1>2 DEF Entry, Answer
<1>. QED
  BY <1>2, <1>3 DEF Received

\* Taking from the inbox moves an answer behind those received.
LEMMA ReceivesKeepsOrder ==
  ASSUME MInv, Receives
  PROVE  Received' \o inbox' = Received \o inbox
<1>. DEFINE e == [step |-> step, of |-> Head(inbox).of, content |-> Head(inbox).content]
            a == Head(inbox)
            b == <<a>>
<1>1. /\ captured \in Seq(Entry) /\ inbox \in Seq(Plain) /\ inbox # <<>> /\ step \in Index
      /\ captured' = Append(captured, e) /\ inbox' = Tail(inbox) /\ TInv /\ inbox \in Seq(Answer)
  BY DEF MInv, TInv, TypeOK, Receives
<1>2. /\ a \in Plain /\ a \in Answer /\ inbox' \in Seq(Answer) /\ e \in Entry
      /\ [of |-> e.of, content |-> e.content] = a
  <2>1. a \in Plain /\ inbox' \in Seq(Plain)
    BY <1>1, TakeKeepsType
  <2>2. inbox' \in Seq(Answer)
    BY <1>1, TakeKeepsType
  <2>. QED
    BY <1>1, <2>1, <2>2 DEF Plain, Answer, Entry
<1>3. Received' = Append(Received, a)
  <2>1. /\ DOMAIN captured = 1..Len(captured) /\ Len(captured) \in Nat
        /\ DOMAIN captured' = 1..(Len(captured) + 1)
        /\ captured'[Len(captured) + 1] = e
        /\ \A i \in DOMAIN captured : captured'[i] = captured[i]
    <3>. HIDE DEF e
    <3>. QED
      BY <1>1, <1>2, PutAtEnd
  <2>2. /\ DOMAIN Received = 1..Len(captured) /\ Len(Received) = Len(captured)
        /\ Received \in Seq(Answer)
    BY <1>1, <2>1, ReceivedIs DEF Received
  <2>. DEFINE s == Append(Received, a)
              n == Len(captured)
  <2>3. /\ s \in Seq(Answer) /\ Len(s) = n + 1 /\ s[n + 1] = a
        /\ \A i \in 1..n : s[i] = Received[i]
    <3>. HIDE DEF a
    <3>. QED
      BY <1>2, <2>2, AppendProperties
  <2>4. /\ Received' \in Seq(Answer) /\ Len(Received') = n + 1
    <3>1. \A i \in 1..(n + 1) : i \in 1..n \/ i = n + 1
      BY <2>1
    <3>2. \A i \in 1..(n + 1) : [of |-> captured'[i].of, content |-> captured'[i].content] \in Answer
      <4>1. \A i \in 1..n : captured[i] \in Entry
        BY <1>1, ElementOfSeq
      <4>2. \A i \in 1..(n + 1) : captured'[i] \in Entry
        <5>. HIDE DEF e
        <5>. QED
          BY <1>2, <2>1, <3>1, <4>1
      <4>. QED
        BY <4>2 DEF Entry, Answer
    <3>3. Received' = [i \in 1..(n + 1) |-> [of |-> captured'[i].of, content |-> captured'[i].content]]
      BY <2>1 DEF Received
    <3>. QED
      BY <2>1, <3>2, <3>3
  <2>5. \A i \in 1..(n + 1) : Received'[i] = s[i]
    <3>1. ASSUME NEW i \in 1..n PROVE Received'[i] = s[i]
      <4>1. i \in DOMAIN captured /\ i \in DOMAIN captured' /\ captured'[i] = captured[i]
        BY <2>1
      <4>2. Received'[i] = Received[i]
        BY <4>1 DEF Received
      <4>. QED
        BY <2>3, <4>2
    <3>2. Received'[n + 1] = s[n + 1]
      <4>1. n + 1 \in DOMAIN captured' /\ captured'[n + 1] = e
        BY <2>1
      <4>2. Received'[n + 1] = [of |-> e.of, content |-> e.content]
        <5>. HIDE DEF n, e
        <5>. QED
          BY <4>1 DEF Received
      <4>. QED
        BY <1>2, <2>3, <4>2
    <3>3. \A i \in 1..(n + 1) : i \in 1..n \/ i = n + 1
      BY <2>1
    <3>. HIDE DEF n, s
    <3>. QED
      BY <3>1, <3>2, <3>3
  <2>. HIDE DEF s
  <2>6. Received' = s
    <3>. HIDE DEF n
    <3>. QED
      BY <2>3, <2>4, <2>5, SeqEqual
  <2>. QED
    BY <2>6 DEF s
<1>4. inbox = b \o inbox' /\ b \in Seq(Answer)
  BY <1>1, HeadTailProperties, SeqEqual, <1>2, ConcatProperties
<1>5. Received \in Seq(Answer)
  BY <1>1, ReceivedIs
<1>6. Received' = Received \o b
  <2>. HIDE DEF a
  <2>. QED
    BY <1>2, <1>3, <1>5, AppendIsConcat
<1>. HIDE DEF b
<1>7. PICK rest \in Seq(Answer) : rest = inbox'
  BY <1>2
<1>8. (Received \o b) \o rest = Received \o (b \o rest)
  BY <1>4, <1>5, ConcatAssociative
<1>. QED
  BY <1>4, <1>6, <1>7, <1>8

\* Reading moves an answer into the inbox, or out of the way.
LEMMA ReadsKeepsOrder ==
  ASSUME TInv, InOrder, Reads
  PROVE  InOrder'
<1>. DEFINE first == IF Head(back).content = "garbled" THEN <<>> ELSE <<Head(back)>>
<1>1. /\ back \in Seq(Answer) /\ back # <<>> /\ back' = Tail(back) /\ inbox \in Seq(Answer)
      /\ inbox' = IF Head(back).content = "garbled" THEN inbox ELSE Append(inbox, Head(back))
      /\ UNCHANGED <<captured, replied>>
  BY DEF TInv, TypeOK, Reads
<1>2. Head(back) \in Answer /\ Tail(back) \in Seq(Answer)
  BY <1>1, TakeKeepsType
<1>3. first \in Seq(Answer) /\ inbox' = inbox \o first
  <2>1. CASE Head(back).content = "garbled"
    BY <1>1, <2>1, EmptySeq, ConcatEmptySeq
  <2>2. CASE Head(back).content # "garbled"
    <3>1. PICK a \in Answer : a = Head(back)
      BY <1>2
    <3>2. <<a>> \in Seq(Answer) /\ Append(inbox, a) = inbox \o <<a>>
      BY <1>1, AppendIsConcat
    <3>. QED
      BY <1>1, <2>2, <3>1, <3>2
  <2>. QED
    BY <2>1, <2>2
<1>4. PICK tail \in Seq(Answer) : tail = Parsed(Tail(back))
  BY <1>2, ParsedType
<1>5. Parsed(back) = first \o tail
  BY <1>1, <1>4, ParsedHead
<1>. HIDE DEF first
<1>6. Received \in Seq(Answer) /\ Received' = Received
  BY <1>1, ReceivedIs DEF Received
<1>7. (Received \o inbox) \o (first \o tail) = ((Received \o inbox) \o first) \o tail
  <2>1. Received \o inbox \in Seq(Answer)
    BY <1>1, <1>6, ConcatProperties
  <2>2. \A r, f, t \in Seq(Answer) : r \o (f \o t) = (r \o f) \o t
    BY ConcatAssociative
  <2>. QED
    BY <1>3, <1>4, <2>1, <2>2
<1>8. (Received \o inbox) \o first = Received \o (inbox \o first)
  <2>1. Received \in Seq(Answer) /\ inbox \in Seq(Answer) /\ first \in Seq(Answer)
    BY <1>1, <1>3, <1>6
  <2>2. \A r, i, f \in Seq(Answer) : (r \o i) \o f = r \o (i \o f)
    BY ConcatAssociative
  <2>. QED
    BY <2>1, <2>2
<1>9. Received \o inbox \o Parsed(back) = Parsed(replied)
  BY DEF InOrder
<1>10. Received' \o inbox' \o Parsed(back)' = Parsed(replied)'
  BY <1>1, <1>3, <1>4, <1>5, <1>6, <1>7, <1>8, <1>9
<1>. QED
  BY <1>10 DEF InOrder

\* What comes back is added behind what is on its way.
LEMMA AnswersKeepOrder ==
  ASSUME TInv, InOrder, OtherEndAnswers
  PROVE  InOrder'
<1>1. back \in Seq(Answer) /\ replied \in Seq(Answer) /\ inbox \in Seq(Answer)
      /\ UNCHANGED <<captured, inbox>>
  BY DEF TInv, TypeOK, OtherEndAnswers
<1>2. PICK a \in Answer : back' = Append(back, a) /\ replied' = Append(replied, a)
  BY OtherEndAdds DEF TInv
<1>. DEFINE X == Received \o inbox
<1>3. Parsed(back)' = Next1(Parsed(back), a) /\ Parsed(replied)' = Next1(Parsed(replied), a)
  BY <1>1, <1>2, ParsedAppend
<1>4. /\ Parsed(back) \in Seq(Answer) /\ Received' = Received
      /\ X \in Seq(Answer) /\ X \o Parsed(back) = Parsed(replied)
      /\ X \o Parsed(back) \in Seq(Answer)
  <2>1. Received \in Seq(Answer) /\ Parsed(back) \in Seq(Answer)
    BY <1>1, ReceivedIs, ParsedType
  <2>2. X \in Seq(Answer) /\ X \o Parsed(back) \in Seq(Answer)
    BY <1>1, <2>1, ConcatProperties
  <2>3. Received' = Received
    BY <1>1 DEF Received
  <2>. QED
    BY <2>1, <2>2, <2>3 DEF InOrder
<1>5. X' = X
  BY <1>1, <1>4
<1>6. X \o Next1(Parsed(back), a) = Next1(X \o Parsed(back), a)
  <2>. HIDE DEF X
  <2>1. PICK s \in Seq(Answer) : s = Parsed(back)
    BY <1>4
  <2>2. /\ Append(s, a) = s \o <<a>> /\ <<a>> \in Seq(Answer)
        /\ Append(X \o s, a) = (X \o s) \o <<a>>
    BY <1>4, <2>1, AppendIsConcat
  <2>3. X \o (s \o <<a>>) = (X \o s) \o <<a>>
    BY <1>4, <2>2, ConcatAssociative
  <2>4. X \o Append(s, a) = Append(X \o s, a)
    BY <2>2, <2>3
  <2>. QED
    BY <2>1, <2>4 DEF Next1
<1>7. X' \o Parsed(back)' = Parsed(replied)'
  <2>. HIDE DEF X
  <2>. QED
    BY <1>3, <1>4, <1>5, <1>6
<1>. QED
  BY <1>7 DEF InOrder

\* Whatever comes back and however the steps run out of time, the transcript of
\* a flow that raises nothing, the inbox and what is on its way are together all
\* the messages that came back and parse, in their order; and an answer is
\* entered under its own step or a later one (run_flow and its reader task).
THEOREM TranscriptIsComplete == Spec => []CapturedInOrder
<1>. DEFINE Kept == at # "failed" => InOrder
<1>1. Init => Kept
  <2>. SUFFICES ASSUME Init PROVE InOrder
    OBVIOUS
  <2>1. Received = <<>> /\ inbox = <<>> /\ back = <<>> /\ replied = <<>>
    BY DEF Init, Received
  <2>2. <<>> \o <<>> = <<>>
    BY EmptySeq, ConcatEmptySeq
  <2>. QED
    BY <2>1, <2>2, ParsedEmpty DEF InOrder
<1>2. MInv /\ Kept /\ [Next]_vars => Kept'
  <2>. SUFFICES ASSUME MInv, Kept, [Next]_vars, at' # "failed" PROVE InOrder'
    OBVIOUS
  <2>0. TInv /\ (at # "failed" => InOrder)
    BY DEF MInv
  <2>1. CASE UNCHANGED <<captured, inbox, back, replied>> /\ at # "failed"
    BY <2>0, <2>1 DEF InOrder, Received
  <2>2. CASE Receives
    <3>1. UNCHANGED <<back, replied>> /\ at # "failed"
      BY <2>2 DEF Receives
    <3>. QED
      BY <2>0, <2>2, <3>1, ReceivesKeepsOrder DEF InOrder
  <2>3. CASE Reads
    BY <2>0, <2>3, ReadsKeepsOrder DEF Reads, Connected
  <2>4. CASE OtherEndAnswers
    BY <2>0, <2>4, AnswersKeepOrder DEF OtherEndAnswers, Connected
  <2>5. CASE StampRaises
    BY <2>5 DEF StampRaises
  <2>6. CASE ~(Receives \/ Reads \/ OtherEndAnswers \/ StampRaises)
    <3>1. UNCHANGED <<captured, inbox, back, replied>> /\ at # "failed"
      BY <2>6 DEF Next, vars, connection, FlowSteps, GoesOn, Connects, GivesUp, Sends,
        Timeout, StopsReceiving, StopsDraining, Finalises, ReaderStarts, OtherEndCloses,
        ClearLists, ClearRemoves
    <3>. QED
      BY <2>1, <3>1
  <2>. QED
    BY <2>2, <2>3, <2>4, <2>5, <2>6
<1>3. MInv /\ Kept => CapturedInOrder
  BY DEF MInv, EntryCaused, InOrder, CapturedInOrder
<1>. QED
  BY <1>1, <1>2, <1>3, MInvInit, MInvStep, PTL DEF Spec
=============================================================================
