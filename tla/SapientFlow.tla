------------------------------ MODULE SapientFlow ------------------------------
(***************************************************************************)
(* The flow runner of the ui service: run_flow of message/flow.py, and     *)
(* clear_runs of message/routes.py, which removes the directories of runs  *)
(* in a thread of its own.                                                 *)
(*                                                                         *)
(* A flow sends the messages of its steps over one connection.  A reader   *)
(* task puts what comes back into an inbox; a step takes from it until its *)
(* reply is there or its time is up.  The other end is Apex with the       *)
(* systems behind it: a message gets any number of answers, Apex's own and  *)
(* those of every system it is forwarded to, and messages that answer       *)
(* nothing come in between.                                                *)
(***************************************************************************)
EXTENDS Naturals, Sequences, SequencesExt
CONSTANTS
  Steps,        (* the number of steps of the flow                         *)
  Contents,     (* the content types of what comes back                    *)
  MaxAnswers,   (* bound on the messages that come back                    *)
  None          (* a step that waits for nothing                           *)

ASSUME StepsAssumption == Steps \in Nat \ {0}
ASSUME AnswersAssumption == MaxAnswers \in Nat
ASSUME ContentsAssumption == None \notin Contents /\ "garbled" \notin Contents

VARIABLES
  waits,       (* per step: wait_for; fixed by the request                 *)
  at,          (* connecting, sending, receiving, draining, closing,       *)
               (* answered (the result returned), failed (an exception)    *)
  step,        (* the index of the step                                    *)
  ok,          (* overall_error is None                                    *)
  back,        (* what is on its way to the reader task                    *)
  reader,      (* the reader task: none, created, running                  *)
  ended,       (* the other end has closed the connection                  *)
  inbox,       (* the queue of the reader task                             *)
  captured,    (* the received part of the transcript                      *)
  replied,     (* everything the other end has sent, for the properties    *)
  runDir,      (* the run's directory: present, gone                       *)
  saved,       (* result.json is in it                                     *)
  clearing     (* clear_runs: idle, seen, unseen (result.json when         *)
               (* rmtree listed the directory), over                       *)

connection == <<back, ended, inbox, reader, replied>>
runVars == <<runDir, saved, clearing>>
vars == <<waits, at, step, ok, connection, captured, runVars>>

Index == 1..Steps
\* `of` is the step whose message is answered, 0 for a message that answers
\* none: the program does not see it, the properties do.
Answer == [of: 0..Steps, content: Contents \cup {"garbled"}]
Entry == [step: Index, of: 0..Steps, content: Contents]

Init ==
  /\ waits \in [Index -> Contents \cup {None}]
  /\ at = "connecting" /\ step = 1 /\ ok = TRUE
  /\ back = <<>> /\ ended = FALSE /\ inbox = <<>> /\ reader = "none" /\ replied = <<>>
  /\ captured = <<>>
  /\ runDir = "present" /\ saved = FALSE /\ clearing = "idle"

Connected == at \in {"sending", "receiving", "draining"}

\* The last step whose message is sent.
Sent == IF at \in {"connecting", "sending"} THEN step - 1 ELSE step

-----------------------------------------------------------------------------
(* The flow *)

Connects ==
  /\ at = "connecting"
  /\ at' = "sending"
  /\ reader' = "created"
  /\ UNCHANGED <<waits, step, ok, back, ended, inbox, captured, replied, runVars>>

\* An error ends the flow: the connection does not answer, the template is
\* missing, does not render or does not validate, or the write fails.
GivesUp ==
  /\ at \in {"connecting", "sending"}
  /\ at' = "closing" /\ ok' = FALSE
  /\ UNCHANGED <<waits, step, connection, captured, runVars>>

Sends ==
  /\ at = "sending"
  /\ at' = "receiving"
  /\ UNCHANGED <<waits, step, ok, connection, captured, runVars>>

\* Wrong variant: there is one step too many.
ProceedsPastEnd ==
  IF step <= Steps THEN step' = step + 1 /\ at' = "sending"
                   ELSE step' = step /\ at' = "closing"

\* On to the next step, or to the end.
Proceeds ==
  IF step < Steps THEN step' = step + 1 /\ at' = "sending"
                  ELSE step' = step /\ at' = "closing"

\* Wrong variant: the newest message of the inbox is taken.
ReceivesNewest ==
  /\ at \in {"receiving", "draining"} /\ inbox # <<>>
  /\ inbox' = Front(inbox)
  /\ captured' = Append(captured,
       [step |-> step, of |-> Last(inbox).of, content |-> Last(inbox).content])
  /\ IF at = "receiving" /\ Last(inbox).content = waits[step]
     THEN Proceeds ELSE UNCHANGED <<at, step>>
  /\ UNCHANGED <<waits, ok, back, ended, reader, replied, runVars>>

\* Wrong variant: any message satisfies the wait.
ReceivesAny ==
  /\ at \in {"receiving", "draining"} /\ inbox # <<>>
  /\ inbox' = Tail(inbox)
  /\ captured' = Append(captured,
       [step |-> step, of |-> Head(inbox).of, content |-> Head(inbox).content])
  /\ IF at = "receiving" /\ waits[step] # None
     THEN Proceeds ELSE UNCHANGED <<at, step>>
  /\ UNCHANGED <<waits, ok, back, ended, reader, replied, runVars>>

\* One message from the inbox; the one waited for ends the step.
Receives ==
  /\ at \in {"receiving", "draining"} /\ inbox # <<>>
  /\ inbox' = Tail(inbox)
  /\ captured' = Append(captured,
       [step |-> step, of |-> Head(inbox).of, content |-> Head(inbox).content])
  /\ IF at = "receiving" /\ Head(inbox).content = waits[step]
     THEN Proceeds ELSE UNCHANGED <<at, step>>
  /\ UNCHANGED <<waits, ok, back, ended, reader, replied, runVars>>

\* Wrong variant: once the other end has closed, the step waits without limit.
TimeoutUnlessEnded ==
  /\ at = "receiving" /\ waits[step] # None /\ ~ended
  /\ at' = "closing" /\ ok' = FALSE
  /\ UNCHANGED <<waits, step, connection, captured, runVars>>

\* Wrong variant: the flow goes on after a step that got no reply.
TimeoutGoesOn ==
  /\ at = "receiving" /\ waits[step] # None
  /\ Proceeds /\ ok' = FALSE
  /\ UNCHANGED <<waits, connection, captured, runVars>>

\* recv_timeout_s is over without the reply.
Timeout ==
  /\ at = "receiving" /\ waits[step] # None
  /\ at' = "closing" /\ ok' = FALSE
  /\ UNCHANGED <<waits, step, connection, captured, runVars>>

\* A step that waits for nothing receives for recv_timeout_s all the same ...
StopsReceiving ==
  /\ at = "receiving" /\ waits[step] = None
  /\ at' = "draining"
  /\ UNCHANGED <<waits, step, ok, connection, captured, runVars>>

\* ... and then for drain_after_s.
StopsDraining ==
  /\ at = "draining"
  /\ Proceeds
  /\ UNCHANGED <<waits, ok, connection, captured, runVars>>

\* stamp() cannot decode the message it enters, sent or received: nothing
\* catches that, and the transcript is lost with the flow.
StampRaises ==
  /\ \/ at = "sending" /\ UNCHANGED inbox
     \/ at \in {"receiving", "draining"} /\ inbox # <<>> /\ inbox' = Tail(inbox)
  /\ at' = "failed"
  /\ UNCHANGED <<waits, step, ok, back, ended, reader, captured, replied, runVars>>

\* The connection is closed and result.json written.  Two things stop that and
\* nothing catches either: the directory is gone, or the reader task has not
\* begun when it is cancelled, so that awaiting it raises CancelledError.
Finalises ==
  /\ at = "closing"
  /\ LET written == runDir = "present" /\ reader # "created"
     IN  /\ saved' = written
         /\ at' = IF written THEN "answered" ELSE "failed"
  /\ UNCHANGED <<waits, step, ok, connection, captured, runDir, clearing>>

-----------------------------------------------------------------------------
(* The reader task and the other end *)

\* The event loop gets to the reader task at the flow's first await that
\* really waits: a step with no gap, no position to fetch and no time to
\* receive in has none.
ReaderStarts ==
  /\ Connected /\ reader = "created"
  /\ reader' = "running"
  /\ UNCHANGED <<waits, at, step, ok, back, ended, inbox, captured, replied, runVars>>

\* A message that does not parse is logged and passed over.
Reads ==
  /\ Connected /\ reader = "running" /\ back # <<>>
  /\ back' = Tail(back)
  /\ inbox' = IF Head(back).content = "garbled" THEN inbox ELSE Append(inbox, Head(back))
  /\ UNCHANGED <<waits, at, step, ok, ended, reader, captured, replied, runVars>>

\* A message comes back: an answer to any message sent so far, which may have
\* been answered before, or one that answers nothing.  One that does not parse
\* counts as no answer.
OtherEndAnswers ==
  /\ Connected /\ ~ended /\ Len(replied) < MaxAnswers
  /\ \E answer \in [of: 0..Sent, content: Contents] \cup {[of |-> 0, content |-> "garbled"]} :
       /\ back' = Append(back, answer)
       /\ replied' = Append(replied, answer)
  /\ UNCHANGED <<waits, at, step, ok, ended, inbox, reader, captured, runVars>>

OtherEndCloses ==
  /\ Connected /\ ~ended
  /\ ended' = TRUE
  /\ UNCHANGED <<waits, at, step, ok, back, inbox, reader, captured, replied, runVars>>

-----------------------------------------------------------------------------
(* clear_runs *)

ClearLists ==
  /\ clearing = "idle" /\ runDir = "present"
  /\ clearing' = IF saved THEN "seen" ELSE "unseen"
  /\ UNCHANGED <<waits, at, step, ok, connection, captured, runDir, saved>>

\* Wrong variant: what the directory holds is removed, whenever it came.
ClearRemovesAll ==
  /\ clearing \in {"seen", "unseen"}
  /\ runDir' = "gone"
  /\ saved' = FALSE
  /\ clearing' = "over"
  /\ UNCHANGED <<waits, at, step, ok, connection, captured>>

\* rmtree removes the files it has listed, then the directory, which fails if
\* there is a file it has not listed.
ClearRemoves ==
  /\ clearing \in {"seen", "unseen"}
  /\ IF clearing = "unseen" /\ saved
     THEN UNCHANGED <<runDir, saved>>
     ELSE runDir' = "gone" /\ saved' = FALSE
  /\ clearing' = "over"
  /\ UNCHANGED <<waits, at, step, ok, connection, captured>>

-----------------------------------------------------------------------------
\* What the flow does whether or not a message comes.
GoesOn ==
  \/ Connects \/ GivesUp \/ Sends \/ Timeout \/ StopsReceiving \/ StopsDraining
  \/ Finalises
FlowSteps == GoesOn \/ Receives \/ StampRaises
Next ==
  \/ FlowSteps \/ ReaderStarts \/ Reads
  \/ OtherEndAnswers \/ OtherEndCloses
  \/ ClearLists \/ ClearRemoves

Spec == Init /\ [][Next]_vars

\* Every wait of the flow has a timeout; nothing is assumed of the other end,
\* nor that a message ever stops the waiting.
FairSpec == Spec /\ WF_vars(GoesOn)

-----------------------------------------------------------------------------
(* Properties *)

TypeOK ==
  /\ waits \in [Index -> Contents \cup {None}]
  /\ at \in {"connecting", "sending", "receiving", "draining", "closing",
             "answered", "failed"}
  /\ step \in Index /\ ok \in BOOLEAN
  /\ back \in Seq(Answer) /\ replied \in Seq(Answer)
  /\ ended \in BOOLEAN /\ reader \in {"none", "created", "running"}
  /\ inbox \in Seq(Answer)
  /\ captured \in Seq(Entry)
  /\ runDir \in {"present", "gone"} /\ saved \in BOOLEAN
  /\ clearing \in {"idle", "seen", "unseen", "over"}

\* The answers that parse, in their order.
Parsed(answers) ==
  LET parsed[n \in 0..Len(answers)] ==
        IF n = 0 THEN <<>>
        ELSE IF answers[n].content = "garbled" THEN parsed[n - 1]
        ELSE Append(parsed[n - 1], answers[n])
  IN  parsed[Len(answers)]
Received ==
  [i \in DOMAIN captured |-> [of |-> captured[i].of, content |-> captured[i].content]]

\* The transcript holds what the other end sent, in its order, with nothing
\* left out that the flow has got to, and no answer before the step it answers
\* (run_flow: "The whole conversation is captured"), as long as there is one.
CapturedInOrder ==
  at # "failed" =>
    /\ Received \o inbox \o Parsed(back) = Parsed(replied)
    /\ \A i \in DOMAIN captured : captured[i].of <= captured[i].step

\* Up to entry k the flow has got a message of content c that no step was
\* waiting for: it answers nothing, or the message of a step that did not wait
\* for it, or one that had been answered with c before.
Surplus(c, k) ==
  \E a \in 1..k :
    /\ captured[a].content = c
    /\ \/ captured[a].of = 0
       \/ waits[captured[a].of] # c
       \/ \E b \in 1..(a - 1) : captured[b].of = captured[a].of /\ captured[b].content = c

\* A step is satisfied by the answer to its own message, unless there was a
\* message too many of the content it waits for (run_flow matches the content
\* only); and a flow without an error has got every answer it waited for
\* (run_flow, line 183).
Satisfied(i, e) == e.step = i /\ e.content = waits[i]
MatchesOwnAnswer ==
  /\ \A k \in DOMAIN captured : LET e == captured[k] IN
       Satisfied(e.step, e) => e.of = e.step \/ Surplus(e.content, k)
  /\ ok /\ at \in {"closing", "answered"} =>
       \A i \in Index : waits[i] # None => \E k \in DOMAIN captured : Satisfied(i, captured[k])

\* A result stays on disk unless a clear that listed it removes it: one that
\* began before the result was written leaves it, or has already made the
\* writing fail.
ResultIsKept == [][saved /\ ~saved' => clearing = "seen"]_vars

\* A flow ends, also when the other end is silent or closes: by its timeouts.
FlowEnds == <>(at \in {"answered", "failed"})
=============================================================================
