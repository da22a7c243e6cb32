--------------------------- MODULE WorkflowProofs ---------------------------
(***************************************************************************)
(* What the contracts of runs and of delivery give together, for every     *)
(* number of messages, threads, attempts and failures.                     *)
(***************************************************************************)
EXTENDS Workflow, TLAPS

RunTypes ==
  /\ run \in [Message -> RunStatus]
  /\ outputs \subseteq Output
  /\ investigated \in [Message -> 0..1]

DeliveryTypes ==
  /\ status \in [Output -> {"absent", "pending", "sent", "failed", "cancelled"}]
  /\ attempts \in [Output -> Nat]
  /\ messageTs \in [Output -> Nat]
  /\ transcript \in [Output -> SUBSET Nat]
  /\ posted \in [Output -> Nat]
  /\ superseded \subseteq Output
  /\ failures \in Nat
  /\ late \in BOOLEAN

\* A run's output is inserted by the transaction that ends the run, as its
\* outcome has it.
OutputTellsOutcome ==
  \A m \in Message :
    /\ <<m, "answer">> \in outputs => run[m] = "succeeded" /\ investigated[m] = 1
    /\ <<m, "error">> \in outputs => run[m] = "failed"

\* Both halves see the same rows.
RowsAgree == \A o \in Output : status[o] # "absent" <=> o \in outputs

\* Slack shows what was attempted, and the transcript what Slack showed.
Shown(o) ==
  /\ attempts[o] > 0 => o \in outputs
  /\ posted[o] <= attempts[o]
  /\ posted[o] <= 1 + failures
  /\ transcript[o] \subseteq 1..posted[o]
  /\ status[o] = "sent" => posted[o] > 0
ShownInOrder == \A o \in Output : Shown(o)

\* A reply is out of date exactly when a newer message is stored.
StaleIsNewer == \A o \in Output : o \in superseded <=> Newer(run, o[1])

\* What has settled an output without a reply in Slack.
GivenUpForCause ==
  \A o \in Output :
    /\ status[o] = "failed" => attempts[o] >= MaxAttempts
    /\ status[o] = "cancelled" => o \in superseded \/ "off" \in Mode

\* What has ended a run, and what it left.
EndedForCause ==
  \A m \in Message :
    /\ run[m] = "succeeded" => <<m, "answer">> \in outputs
    /\ run[m] = "failed" => <<m, "error">> \in outputs \/ "off" \in Mode
    /\ run[m] = "cancelled" => Newer(run, m) \/ "off" \in Mode

IInv ==
  /\ RunTypes /\ DeliveryTypes
  /\ OutputTellsOutcome /\ RowsAgree /\ ShownInOrder
  /\ StaleIsNewer /\ GivenUpForCause /\ EndedForCause

-----------------------------------------------------------------------------
(* Threads.                                                                *)

\* The outputs of a message, and the message of an output.
LEMMA OutputsOfMessages ==
  /\ \A m \in Message : <<m, "answer">> \in Output /\ <<m, "error">> \in Output
  /\ \A o \in Output : o[1] \in Message
BY DEF Output

\* A run that goes on leaves the order of its thread alone.
LEMMA ThreadsKept ==
  ASSUME NEW m \in Message, NEW to \in RunStatus, run \in [Message -> RunStatus],
         run[m] # "absent", to # "absent", run' = [run EXCEPT ![m] = to]
  PROVE  \A n \in Message : Newer(run', n) <=> Newer(run, n)
<1>1. \A n \in Message : run'[n] # "absent" <=> run[n] # "absent"
  OBVIOUS
<1> QED BY <1>1 DEF Newer

\* A message that is stored comes after those of its thread that are older.
LEMMA ThreadsGrow ==
  ASSUME NEW m \in Message, run \in [Message -> RunStatus],
         run' = [run EXCEPT ![m] = "queued"]
  PROVE  \A n \in Message :
           Newer(run', n) <=> Newer(run, n) \/ (n < m /\ ConvOf[n] = ConvOf[m])
<1>1. \A n \in Message : run'[n] # "absent" <=> run[n] # "absent" \/ n = m
  OBVIOUS
<1>2. \A a, b \in Message : a > b <=> b < a
  BY MessageAssumption
<1> QED BY <1>1, <1>2 DEF Newer

-----------------------------------------------------------------------------
(* The invariant is inductive.                                             *)

\* Nothing is stored and nothing is shown before the first message.
LEMMA InitInv == Init => IInv
<1> SUFFICES ASSUME Init PROVE IInv
  OBVIOUS
<1> USE OutputsOfMessages DEF Init, Running!Init, Delivering!Init
<1>1. RunTypes BY DEF RunTypes, RunStatus
<1>2. DeliveryTypes BY DEF DeliveryTypes
<1>3. OutputTellsOutcome /\ RowsAgree BY DEF OutputTellsOutcome, RowsAgree
<1>4. ShownInOrder BY DEF ShownInOrder, Shown
<1>5. StaleIsNewer BY DEF StaleIsNewer, Newer
<1>6. GivenUpForCause /\ EndedForCause BY DEF GivenUpForCause, EndedForCause
<1> QED BY <1>1, <1>2, <1>3, <1>4, <1>5, <1>6 DEF IInv

\* A stored message is newer than those before it, and its run has left nothing.
LEMMA StoreStep ==
  ASSUME IInv, NEW m \in Message, StoreTrigger(m)
  PROVE  IInv'
<1> USE OutputsOfMessages DEF IInv, StoreTrigger, Running!Store, Delivering!Supersede
<1>1. /\ run' = [run EXCEPT ![m] = "queued"]
      /\ run \in [Message -> RunStatus]
      /\ run[m] = "absent"
  BY DEF RunTypes
<1>2. \A n \in Message :
        Newer(run', n) <=> Newer(run, n) \/ (n < m /\ ConvOf[n] = ConvOf[m])
  BY <1>1, ThreadsGrow
<1>3. \A n \in Message : n # m => run'[n] = run[n]
  BY <1>1
<1>4. RunTypes' BY <1>1 DEF RunTypes, RunStatus
<1>5. DeliveryTypes' BY DEF DeliveryTypes, Older
<1>6. OutputTellsOutcome' /\ RowsAgree'
  BY <1>1, <1>3 DEF OutputTellsOutcome, RowsAgree
<1>7. ShownInOrder' BY DEF ShownInOrder, Shown
<1>8. StaleIsNewer'
  BY <1>2 DEF StaleIsNewer, Older
<1>9. GivenUpForCause' BY DEF GivenUpForCause
<1>10. EndedForCause'
  BY <1>1, <1>2, <1>3 DEF EndedForCause
<1> QED BY <1>4, <1>5, <1>6, <1>7, <1>8, <1>9, <1>10

\* A step of a run that inserts an output leaves the other outputs alone.
LEMMA CreateStep ==
  ASSUME IInv, NEW o \in Output, Delivering!Create(o), outputs' = outputs \cup {o}
  PROVE  DeliveryTypes' /\ RowsAgree' /\ ShownInOrder' /\ GivenUpForCause'
<1> USE DEF IInv, Delivering!Create
<1>1. /\ status[o] = "absent"
      /\ status' = [status EXCEPT ![o] = "pending"]
      /\ status \in [Output -> {"absent", "pending", "sent", "failed", "cancelled"}]
  BY DEF DeliveryTypes
<1>2. \A p \in Output : status'[p] = IF p = o THEN "pending" ELSE status[p]
  BY <1>1
<1>3. DeliveryTypes' BY <1>1 DEF DeliveryTypes
<1>4. RowsAgree' BY <1>2 DEF RowsAgree
<1>5. ShownInOrder' BY <1>2 DEF ShownInOrder, Shown
<1>6. GivenUpForCause' BY <1>2 DEF GivenUpForCause
<1> QED BY <1>3, <1>4, <1>5, <1>6

\* The answer comes with the success.
LEMMA AnswerStep ==
  ASSUME IInv, NEW m \in Message, Answer(m)
  PROVE  IInv'
<1> USE OutputsOfMessages DEF IInv, Answer, Running!Succeed
<1>1. /\ run \in [Message -> RunStatus] /\ run[m] = "running" /\ investigated[m] = 1
      /\ run' = [run EXCEPT ![m] = "succeeded"]
      /\ outputs' = outputs \cup {<<m, "answer">>}
      /\ UNCHANGED <<error, investigated>>
  BY DEF RunTypes
<1>2. \A n \in Message : Newer(run', n) <=> Newer(run, n)
  BY <1>1, ThreadsKept DEF RunStatus
<1>3. DeliveryTypes' /\ RowsAgree' /\ ShownInOrder' /\ GivenUpForCause'
  BY <1>1, CreateStep
<1>4. RunTypes' BY <1>1 DEF RunTypes, RunStatus
<1>5. \A n \in Message : run'[n] = IF n = m THEN "succeeded" ELSE run[n]
  BY <1>1
<1>6. \A n \in Message :
        /\ <<n, "answer">> \in outputs' <=> <<n, "answer">> \in outputs \/ n = m
        /\ <<n, "error">> \in outputs' <=> <<n, "error">> \in outputs
  BY <1>1
<1>7. OutputTellsOutcome' BY <1>1, <1>5, <1>6 DEF OutputTellsOutcome
<1>8. StaleIsNewer' BY <1>2 DEF StaleIsNewer, Delivering!Create
<1>9. EndedForCause'
  <2> SUFFICES ASSUME NEW n \in Message
               PROVE  /\ run'[n] = "succeeded" => <<n, "answer">> \in outputs'
                      /\ run'[n] = "failed" => <<n, "error">> \in outputs' \/ "off" \in Mode
                      /\ run'[n] = "cancelled" => Newer(run', n) \/ "off" \in Mode
    BY DEF EndedForCause
  <2>1. CASE n = m BY <2>1, <1>5, <1>6
  <2>2. CASE n # m BY <2>2, <1>2, <1>5, <1>6 DEF EndedForCause
  <2> QED BY <2>1, <2>2
<1> QED BY <1>3, <1>4, <1>7, <1>8, <1>9

\* The error comes with the failure, but for the off mode.
LEMMA ReportStep ==
  ASSUME IInv, NEW m \in Message, NEW code \in ErrorCode, Report(m, code)
  PROVE  IInv'
<1> USE OutputsOfMessages DEF IInv, Report, Running!Fail
<1>1. /\ run \in [Message -> RunStatus] /\ run[m] = "running"
      /\ run' = [run EXCEPT ![m] = "failed"]
      /\ investigated' = investigated
  BY DEF RunTypes
<1>2. \A n \in Message : Newer(run', n) <=> Newer(run, n)
  BY <1>1, ThreadsKept DEF RunStatus
<1>3. RunTypes' BY <1>1 DEF RunTypes, RunStatus
<1>4. \A n \in Message : run'[n] = IF n = m THEN "failed" ELSE run[n]
  BY <1>1
<1>5. superseded' = superseded
  BY DEF delivery, Delivering!Create
<1>6. StaleIsNewer' BY <1>2, <1>5 DEF StaleIsNewer
<1>7. CASE outputs' # outputs
  <2>1. outputs' = outputs \cup {<<m, "error">>}
    BY <1>7
  <2>2. Delivering!Create(<<m, "error">>)
    BY <1>7
  <2>3. DeliveryTypes' /\ RowsAgree' /\ ShownInOrder' /\ GivenUpForCause'
    BY <2>1, <2>2, CreateStep
  <2>4. \A n \in Message :
          /\ <<n, "error">> \in outputs' <=> <<n, "error">> \in outputs \/ n = m
          /\ <<n, "answer">> \in outputs' <=> <<n, "answer">> \in outputs
    BY <2>1
  <2>5. OutputTellsOutcome' BY <1>1, <1>4, <2>4 DEF OutputTellsOutcome
  <2>6. \A n \in Message :
          /\ run'[n] = "succeeded" => <<n, "answer">> \in outputs'
          /\ run'[n] = "failed" => <<n, "error">> \in outputs' \/ "off" \in Mode
          /\ run'[n] = "cancelled" => Newer(run', n) \/ "off" \in Mode
    <3> TAKE n \in Message
    <3>1. CASE n = m BY <3>1, <1>4, <2>4
    <3>2. CASE n # m BY <3>2, <1>2, <1>4, <2>4 DEF EndedForCause
    <3> QED BY <3>1, <3>2
  <2>7. EndedForCause' BY <2>6 DEF EndedForCause
  <2> QED BY <1>3, <1>6, <2>3, <2>5, <2>7
<1>8. CASE outputs' = outputs
  <2>1. UNCHANGED delivery
    BY <1>8
  <2>2. DeliveryTypes' /\ RowsAgree' /\ ShownInOrder' /\ GivenUpForCause'
    BY <1>8, <2>1
    DEF delivery, DeliveryTypes, RowsAgree, ShownInOrder, Shown, GivenUpForCause
  <2>3. OutputTellsOutcome' BY <1>1, <1>4, <1>8 DEF OutputTellsOutcome
  <2>4. <<m, "error">> \notin outputs
    BY <1>1 DEF OutputTellsOutcome
  <2>5. "off" \in Mode
    BY <1>8, <2>4
  <2>6. \A n \in Message :
          /\ run'[n] = "succeeded" => <<n, "answer">> \in outputs'
          /\ run'[n] = "failed" => <<n, "error">> \in outputs' \/ "off" \in Mode
          /\ run'[n] = "cancelled" => Newer(run', n) \/ "off" \in Mode
    <3> TAKE n \in Message
    <3>1. CASE n = m BY <3>1, <1>4, <2>5
    <3>2. CASE n # m BY <3>2, <1>2, <1>4, <1>8 DEF EndedForCause
    <3> QED BY <3>1, <3>2
  <2>7. EndedForCause' BY <2>6 DEF EndedForCause
  <2> QED BY <1>3, <1>6, <2>2, <2>3, <2>7
<1> QED BY <1>7, <1>8

\* A run that begins, investigates or is cancelled says nothing to Slack.
LEMMA ProceedStep ==
  ASSUME IInv, NEW m \in Message, Proceed(m)
  PROVE  IInv'
<1> USE OutputsOfMessages DEF IInv, Proceed
<1>1. UNCHANGED <<outputs, delivery>>
  BY DEF Running!Begin, Running!Investigate, Running!Cancel
<1>2. DeliveryTypes' /\ RowsAgree' /\ ShownInOrder' /\ GivenUpForCause'
  BY <1>1 DEF delivery, DeliveryTypes, RowsAgree, ShownInOrder, Shown, GivenUpForCause
<1>3. CASE Running!Begin(m) \/ Running!Cancel(m)
  <2>1. PICK to \in RunStatus :
          /\ to \in {"running", "cancelled"}
          /\ run' = [run EXCEPT ![m] = to]
          /\ to = "cancelled" => Newer(run, m) \/ "off" \in Mode
    <3>1. CASE Running!Begin(m)
      <4>1. run' = [run EXCEPT ![m] = "running"] BY <3>1 DEF Running!Begin
      <4> QED BY <4>1 DEF RunStatus
    <3>2. CASE Running!Cancel(m)
      <4>1. /\ run' = [run EXCEPT ![m] = "cancelled"]
            /\ Newer(run, m) \/ "off" \in Mode
        BY <3>2 DEF Running!Cancel, Running!Newer, Newer
      <4> QED BY <4>1 DEF RunStatus
    <3> QED BY <1>3, <3>1, <3>2
  <2>2. run[m] \in {"queued", "running"} /\ investigated' = investigated
    BY <1>3 DEF Running!Begin, Running!Cancel
  <2>3. run \in [Message -> RunStatus]
    BY DEF RunTypes
  <2>4. \A n \in Message : Newer(run', n) <=> Newer(run, n)
    BY <2>1, <2>2, <2>3, ThreadsKept
  <2>5. \A n \in Message : run'[n] = IF n = m THEN to ELSE run[n]
    BY <2>1, <2>3
  <2>6. RunTypes' BY <1>1, <2>1, <2>2, <2>3 DEF RunTypes
  <2>7. OutputTellsOutcome' BY <1>1, <2>2, <2>5 DEF OutputTellsOutcome
  <2>8. StaleIsNewer' BY <1>1, <2>4 DEF StaleIsNewer, delivery
  <2>9. EndedForCause' BY <1>1, <2>1, <2>4, <2>5 DEF EndedForCause
  <2> QED BY <1>2, <2>6, <2>7, <2>8, <2>9
<1>4. CASE Running!Investigate(m)
  <2>1. /\ run[m] = "running" /\ run' = run
        /\ investigated' = [investigated EXCEPT ![m] = 1]
    BY <1>4 DEF Running!Investigate
  <2>2. RunTypes' BY <1>1, <2>1 DEF RunTypes
  <2>3. OutputTellsOutcome' BY <1>1, <2>1 DEF OutputTellsOutcome, RunTypes
  <2>4. StaleIsNewer' /\ EndedForCause'
    BY <1>1, <2>1 DEF StaleIsNewer, EndedForCause, delivery, Newer
  <2> QED BY <1>2, <2>2, <2>3, <2>4
<1> QED BY <1>3, <1>4

\* Delivery moves one output, whose row exists, and no run.
LEMMA DeliverStep ==
  ASSUME IInv, NEW o \in Output, Deliver(o)
  PROVE  IInv'
<1> USE OutputsOfMessages DEF IInv
<1>1. UNCHANGED runs /\ superseded' = superseded
  BY DEF Deliver, Delivering!Attempt, Delivering!Accept, Delivering!Sent,
         Delivering!GiveUp, Delivering!Withdraw
<1>2. RunTypes' /\ OutputTellsOutcome' /\ StaleIsNewer' /\ EndedForCause'
  BY <1>1 DEF runs, RunTypes, OutputTellsOutcome, StaleIsNewer, EndedForCause, Newer
<1>3. status[o] # "absent" /\ o \in outputs
  BY DEF Deliver, Delivering!Attempt, Delivering!Accept, Delivering!Sent,
         Delivering!GiveUp, Delivering!Withdraw, Delivering!Open, RowsAgree,
         ShownInOrder, Shown, DeliveryTypes
<1>4. ASSUME NEW to \in {"sent", "failed", "cancelled"},
             status' = [status EXCEPT ![o] = to]
      PROVE  /\ RowsAgree'
             /\ status' \in [Output -> {"absent", "pending", "sent", "failed", "cancelled"}]
             /\ \A p \in Output : status'[p] = IF p = o THEN to ELSE status[p]
  <2>1. \A p \in Output : status'[p] = IF p = o THEN to ELSE status[p]
    BY <1>4 DEF DeliveryTypes
  <2>2. RowsAgree'
    BY <1>1, <1>3, <2>1 DEF runs, RowsAgree
  <2> QED BY <1>4, <2>1, <2>2 DEF DeliveryTypes
<1>5. CASE Delivering!Attempt(o)
  <2> USE <1>5 DEF Delivering!Attempt
  <2>1. /\ attempts' = [attempts EXCEPT ![o] = @ + 1]
        /\ UNCHANGED <<status, messageTs, transcript, posted, failures, late>>
    OBVIOUS
  <2>2. \A p \in Output : attempts'[p] = IF p = o THEN attempts[p] + 1 ELSE attempts[p]
    BY <2>1 DEF DeliveryTypes
  <2>3. DeliveryTypes' BY <1>1, <2>1 DEF DeliveryTypes
  <2>4. RowsAgree' BY <1>1, <2>1 DEF RowsAgree, runs
  <2>5. ShownInOrder'
    BY <1>1, <1>3, <2>1, <2>2 DEF ShownInOrder, Shown, DeliveryTypes, runs
  <2>6. GivenUpForCause' BY <1>1, <2>1, <2>2 DEF GivenUpForCause, DeliveryTypes
  <2> QED BY <1>2, <2>3, <2>4, <2>5, <2>6
<1>6. CASE Delivering!Accept(o)
  <2> USE <1>6 DEF Delivering!Accept
  <2>1. /\ posted' = [posted EXCEPT ![o] = @ + 1]
        /\ failures' \in {failures, failures + 1}
        /\ posted[o] < attempts[o] /\ posted'[o] <= 1 + failures'
        /\ UNCHANGED <<status, attempts, messageTs, transcript, late>>
    OBVIOUS
  <2>2. \A p \in Output : posted'[p] = IF p = o THEN posted[p] + 1 ELSE posted[p]
    BY <2>1 DEF DeliveryTypes
  <2>3. DeliveryTypes' BY <1>1, <2>1 DEF DeliveryTypes
  <2>4. RowsAgree' BY <1>1, <2>1 DEF RowsAgree, runs
  <2>5. ShownInOrder'
    BY <1>1, <2>1, <2>2 DEF ShownInOrder, Shown, DeliveryTypes, runs
  <2>6. GivenUpForCause' BY <1>1, <2>1 DEF GivenUpForCause
  <2> QED BY <1>2, <2>3, <2>4, <2>5, <2>6
<1>7. CASE Delivering!Sent(o)
  <2> USE <1>7 DEF Delivering!Sent
  <2>1. PICK ts \in 1..posted[o] :
          /\ messageTs' = [messageTs EXCEPT ![o] = ts]
          /\ transcript' = [transcript EXCEPT ![o] = @ \cup {ts}]
    OBVIOUS
  <2>2. /\ status' = [status EXCEPT ![o] = "sent"]
        /\ UNCHANGED <<attempts, posted, failures, late>>
    OBVIOUS
  <2>3. /\ RowsAgree'
        /\ status' \in [Output -> {"absent", "pending", "sent", "failed", "cancelled"}]
        /\ \A p \in Output : status'[p] = IF p = o THEN "sent" ELSE status[p]
    BY <1>4, <2>2
  <2>4. \A p \in Output :
          transcript'[p] = IF p = o THEN transcript[p] \cup {ts} ELSE transcript[p]
    BY <2>1 DEF DeliveryTypes
  <2>5. ts \in Nat /\ posted[o] > 0
    BY <2>1 DEF DeliveryTypes
  <2>6. DeliveryTypes' BY <1>1, <2>1, <2>2, <2>3, <2>5 DEF DeliveryTypes
  <2>7. ShownInOrder'
    BY <1>1, <2>1, <2>2, <2>3, <2>4, <2>5 DEF ShownInOrder, Shown, DeliveryTypes, runs
  <2>8. GivenUpForCause' BY <1>1, <2>2, <2>3 DEF GivenUpForCause
  <2> QED BY <1>2, <2>3, <2>6, <2>7, <2>8
<1>8. CASE Delivering!GiveUp(o) \/ Delivering!Withdraw(o)
  <2>1. UNCHANGED <<attempts, messageTs, transcript, posted, failures, late>>
    BY <1>8 DEF Delivering!GiveUp, Delivering!Withdraw
  <2>2. PICK to \in {"sent", "failed", "cancelled"} :
          /\ status' = [status EXCEPT ![o] = to]
          /\ \/ to = "failed" /\ attempts[o] >= MaxAttempts
             \/ to = "cancelled" /\ (o \in superseded \/ "off" \in Mode)
    <3>1. CASE Delivering!GiveUp(o) BY <3>1 DEF Delivering!GiveUp
    <3>2. CASE Delivering!Withdraw(o) BY <3>2 DEF Delivering!Withdraw
    <3> QED BY <1>8, <3>1, <3>2
  <2>3. /\ RowsAgree'
        /\ status' \in [Output -> {"absent", "pending", "sent", "failed", "cancelled"}]
        /\ \A p \in Output : status'[p] = IF p = o THEN to ELSE status[p]
    BY <1>4, <2>2
  <2>4. DeliveryTypes' BY <1>1, <2>1, <2>3 DEF DeliveryTypes
  <2>5. ShownInOrder'
    BY <1>1, <2>1, <2>2, <2>3 DEF ShownInOrder, Shown, runs
  <2>6. GivenUpForCause'
    BY <1>1, <2>1, <2>2, <2>3 DEF GivenUpForCause
  <2> QED BY <1>2, <2>3, <2>4, <2>5, <2>6
<1> QED BY <1>5, <1>6, <1>7, <1>8 DEF Deliver

\* A failure only allows more.
LEMMA FailureStep ==
  ASSUME IInv, Failure
  PROVE  IInv'
<1> USE DEF IInv, Failure, Delivering!Failure
<1>1. RunTypes' /\ OutputTellsOutcome' /\ StaleIsNewer' /\ EndedForCause'
  BY DEF runs, RunTypes, OutputTellsOutcome, StaleIsNewer, EndedForCause, Newer
<1>2. DeliveryTypes' BY DEF DeliveryTypes
<1>3. RowsAgree' /\ GivenUpForCause' BY DEF runs, RowsAgree, GivenUpForCause
<1>4. ShownInOrder' BY DEF runs, ShownInOrder, Shown, DeliveryTypes
<1> QED BY <1>1, <1>2, <1>3, <1>4

LEMMA StutterStep ==
  ASSUME IInv, UNCHANGED vars
  PROVE  IInv'
BY DEF IInv, vars, runs, delivery, RunTypes, DeliveryTypes, OutputTellsOutcome,
       RowsAgree, ShownInOrder, Shown, StaleIsNewer, GivenUpForCause, EndedForCause, Newer

LEMMA InvariantStep == IInv /\ [Next]_vars => IInv'
<1> SUFFICES ASSUME IInv, [Next]_vars PROVE IInv'
  OBVIOUS
<1>1. ASSUME NEW m \in Message, StoreTrigger(m) PROVE IInv' BY <1>1, StoreStep
<1>2. ASSUME NEW m \in Message, Answer(m) PROVE IInv' BY <1>2, AnswerStep
<1>3. ASSUME NEW m \in Message, Proceed(m) PROVE IInv' BY <1>3, ProceedStep
<1>4. ASSUME NEW m \in Message, NEW code \in ErrorCode, Report(m, code) PROVE IInv'
  BY <1>4, ReportStep
<1>5. ASSUME NEW o \in Output, Deliver(o) PROVE IInv' BY <1>5, DeliverStep
<1>6. CASE Failure BY <1>6, FailureStep
<1>7. CASE UNCHANGED vars BY <1>7, StutterStep
<1> QED BY <1>1, <1>2, <1>3, <1>4, <1>5, <1>6, <1>7 DEF Next

LEMMA Invariance == Spec => []IInv
BY InitInv, InvariantStep, PTL DEF Spec

-----------------------------------------------------------------------------
(* Theorems.                                                               *)

\* A running run finds the keys of its replies unused, so that the transaction
\* which ends it does insert one (on_conflict_do_nothing).
THEOREM InsertsHappen == Spec => []KeysAreFree
<1>1. IInv => KeysAreFree
  <2> SUFFICES ASSUME IInv, NEW m \in Message, run[m] = "running"
               PROVE  status[<<m, "answer">>] = "absent" /\ status[<<m, "error">>] = "absent"
    BY DEF KeysAreFree
  <2>1. <<m, "answer">> \notin outputs /\ <<m, "error">> \notin outputs
    BY DEF IInv, OutputTellsOutcome
  <2> QED BY <2>1, OutputsOfMessages DEF IInv, RowsAgree
<1> QED BY <1>1, Invariance, PTL

\* A message gets one reply, and Slack shows it again only for a failure each:
\* the transaction that inserts an output ends the run, and an output is posted
\* again only when a worker died, lapsed or lost Slack's answer.
THEOREM AtMostOneReply == Spec => []OneReply
<1>1. IInv => OneReply
  <2> SUFFICES ASSUME IInv, NEW m \in Message
               PROVE  /\ posted[<<m, "answer">>] = 0 \/ posted[<<m, "error">>] = 0
                      /\ posted[<<m, "answer">>] + posted[<<m, "error">>] <= 1 + failures
    BY DEF OneReply
  <2> DEFINE a == <<m, "answer">>
             e == <<m, "error">>
  <2>1. /\ posted[a] \in Nat /\ posted[e] \in Nat
        /\ attempts[a] \in Nat /\ attempts[e] \in Nat /\ failures \in Nat
    BY OutputsOfMessages DEF IInv, DeliveryTypes
  <2>2. /\ posted[a] <= attempts[a] /\ posted[a] <= 1 + failures
        /\ attempts[a] > 0 => a \in outputs
        /\ posted[e] <= attempts[e] /\ posted[e] <= 1 + failures
        /\ attempts[e] > 0 => e \in outputs
    BY OutputsOfMessages DEF IInv, ShownInOrder, Shown
  <2>3. ~(a \in outputs /\ e \in outputs)
    BY DEF IInv, OutputTellsOutcome
  <2> HIDE DEF a, e
  <2>4. posted[a] = 0 \/ posted[e] = 0
    BY <2>1, <2>2, <2>3
  <2>5. posted[a] + posted[e] <= 1 + failures
    BY <2>1, <2>2, <2>4
  <2> QED BY <2>4, <2>5 DEF a, e
<1> QED BY <1>1, Invariance, PTL

\* What people read, and what the transcript hands to the next investigation,
\* is the outcome that was committed.
THEOREM OutcomesTold == Spec => []RepliesTellOutcomes
<1>1. IInv => RepliesTellOutcomes
  <2> SUFFICES ASSUME IInv PROVE RepliesTellOutcomes
    OBVIOUS
  <2>1. ASSUME NEW o \in Output, posted[o] > 0 \/ transcript[o] # {}
        PROVE  o \in outputs
    <3>1. posted[o] \in Nat /\ attempts[o] \in Nat
      BY DEF IInv, DeliveryTypes
    <3>2. /\ attempts[o] > 0 => o \in outputs
          /\ posted[o] <= attempts[o]
          /\ transcript[o] \subseteq 1..posted[o]
      BY DEF IInv, ShownInOrder, Shown
    <3> QED BY <2>1, <3>1, <3>2
  <2> QED BY <2>1, OutputsOfMessages DEF IInv, OutputTellsOutcome, RepliesTellOutcomes
<1> QED BY <1>1, Invariance, PTL

\* No new attempt is made to post a reply that a newer message has overtaken,
\* wherever its run or its delivery was when that message was stored.
THEOREM OvertakenStays == Spec => NoStaleAttempt
<1>1. IInv /\ [Next]_vars =>
        [\A o \in Output : attempts'[o] > attempts[o] => ~Newer(run, o[1])]_vars
  <2> SUFFICES ASSUME IInv, Next, NEW o \in Output, attempts'[o] > attempts[o]
               PROVE  ~Newer(run, o[1])
    OBVIOUS
  <2>1. attempts \in [Output -> Nat]
    BY DEF IInv, DeliveryTypes
  <2>2. ~UNCHANGED attempts
    BY <2>1
  <2>3. PICK p \in Output : Deliver(p)
    BY <2>2 DEF Next, StoreTrigger, Answer, Proceed, Report, Failure, delivery,
       Delivering!Supersede, Delivering!Create, Delivering!Failure
  <2>4. Delivering!Attempt(p)
    BY <2>2, <2>3 DEF Deliver, Delivering!Accept, Delivering!Sent, Delivering!GiveUp,
       Delivering!Withdraw
  <2>5. attempts' = [attempts EXCEPT ![p] = @ + 1] /\ p \notin superseded
    BY <2>4 DEF Delivering!Attempt
  <2>6. p = o
    BY <2>1, <2>5
  <2> QED BY <2>5, <2>6 DEF IInv, StaleIsNewer
<1> QED BY <1>1, Invariance, PTL DEF Spec, NoStaleAttempt

\* A run that has ended has told its outcome, or has a reason to be silent.
THEOREM NobodyWaitsInVain == Spec => []NoSilentEnd
<1>1. IInv => NoSilentEnd
  <2> SUFFICES ASSUME IInv, NEW m \in Message
               PROVE  LET excused == Newer(run, m) \/ "off" \in Mode
                          told(o) == \/ status[o] = "pending"
                                     \/ status[o] = "sent" /\ posted[o] > 0
                                     \/ status[o] = "failed" /\ attempts[o] >= MaxAttempts
                                     \/ status[o] = "cancelled" /\ excused
                      IN /\ run[m] = "succeeded" => told(<<m, "answer">>)
                         /\ run[m] = "failed" => told(<<m, "error">>) \/ "off" \in Mode
                         /\ run[m] = "cancelled" => excused
    BY DEF NoSilentEnd
  <2>1. ASSUME NEW o \in outputs, o[1] = m
        PROVE  \/ status[o] = "pending"
               \/ status[o] = "sent" /\ posted[o] > 0
               \/ status[o] = "failed" /\ attempts[o] >= MaxAttempts
               \/ status[o] = "cancelled" /\ (Newer(run, m) \/ "off" \in Mode)
    <3>1. o \in Output /\ status[o] # "absent"
      BY DEF IInv, RunTypes, RowsAgree
    <3>2. status[o] \in {"absent", "pending", "sent", "failed", "cancelled"}
      BY <3>1 DEF IInv, DeliveryTypes
    <3>3. /\ status[o] = "sent" => posted[o] > 0
          /\ status[o] = "failed" => attempts[o] >= MaxAttempts
          /\ status[o] = "cancelled" => Newer(run, m) \/ "off" \in Mode
      BY <2>1, <3>1 DEF IInv, ShownInOrder, Shown, GivenUpForCause, StaleIsNewer
    <3> QED BY <3>1, <3>2, <3>3
  <2>2. /\ run[m] = "succeeded" => <<m, "answer">> \in outputs
        /\ run[m] = "failed" => <<m, "error">> \in outputs \/ "off" \in Mode
        /\ run[m] = "cancelled" => Newer(run, m) \/ "off" \in Mode
    BY DEF IInv, EndedForCause
  <2> QED BY <2>1, <2>2
<1> QED BY <1>1, Invariance, PTL
=============================================================================
