------------------------------- MODULE Outbox -------------------------------
(***************************************************************************)
(* Delivery of slack_output rows (slack/pipeline.py deliver_output): the   *)
(* transaction that checks and counts the attempt, the Slack call, and the *)
(* transaction that records its result, on concurrent slots of the control *)
(* worker, with the recovery that re-enqueues pending outputs.             *)
(***************************************************************************)
EXTENDS Integers, FiniteSets

CONSTANTS
  RunOutput,      \* answers and error replies of runs
  Flavor,         \* feedback_flavor outputs, which are never superseded
  Slot,           \* job slots of the control worker
  NoJob,
  Mode,           \* the values CEREBRO_GLOBAL_MODE takes in the deployment
  MaxAttempts,    \* config.slack_delivery_max_attempts
  MaxFailures     \* bound: deaths of a worker in the middle of a job, heartbeats that
                  \* expire while it lives, transactions and accepted calls that raise

Output == RunOutput \cup Flavor
Job == Output \X Nat

ASSUME OutboxAssumption ==
  /\ RunOutput \cap Flavor = {}
  /\ Mode \subseteq {"enabled", "off"} /\ Mode # {}
  /\ MaxAttempts \in Nat \ {0}
  /\ MaxFailures \in Nat
  /\ NoJob \notin Job /\ IsFiniteSet(Slot)

VARIABLES
  status,         \* slack_output.status, "absent" before the row exists
  attempts,       \* slack_output.attempts
  messageTs,      \* slack_output.slack_message_ts; 0 stands for NULL
  transcript,     \* outbound message rows, by output: the timestamps stored
  superseded,     \* outputs whose thread has a later inbound message
  allowed,        \* history: the attempts counted before that message came
  todo,           \* outputs with a waiting delivery job
  doing,          \* delivery jobs fetched and not finished
  fetched,        \* how many delivery jobs of the output were ever fetched
  pc, job, beat,  \* the slots of the control worker
  mode,           \* the mode each slot's process has cached
  answer,         \* the timestamp Slack returned to the slot
  tick,           \* the recovery tick
  stalled,        \* jobs it found stalled and has not released
  pending,        \* outputs it found pending and has not enqueued
  posted,         \* Slack: posts accepted for the output, timestamps 1, 2, ...
  crashes, lapses, faults

rows == <<status, attempts, messageTs, transcript>>
queue == <<todo, doing, fetched>>
slots == <<pc, job, beat, mode, answer>>
recovery == <<tick, stalled, pending>>
bounds == <<crashes, lapses, faults>>
stale == <<superseded, allowed>>
vars == <<rows, stale, queue, slots, recovery, posted, bounds>>

DeliveryStatus == {"absent", "pending", "sent", "failed", "cancelled"}
Failures == crashes + lapses + faults

PC == {"idle", "check", "post", "record_sent", "record_failure", "finish"}

Init ==
  /\ status = [o \in Output |-> "absent"]
  /\ attempts = [o \in Output |-> 0]
  /\ messageTs = [o \in Output |-> 0]
  /\ transcript = [o \in Output |-> {}]
  /\ superseded = {}
  /\ allowed = [o \in Output |-> 0]
  /\ todo = {} /\ doing = {}
  /\ fetched = [o \in Output |-> 0]
  /\ pc = [s \in Slot |-> "idle"]
  /\ job = [s \in Slot |-> NoJob]
  /\ beat = [s \in Slot |-> TRUE]
  /\ mode \in [Slot -> Mode]
  /\ answer = [s \in Slot |-> 0]
  /\ tick = "idle" /\ stalled = {} /\ pending = {}
  /\ posted = [o \in Output |-> 0]
  /\ crashes = 0 /\ lapses = 0 /\ faults = 0

-----------------------------------------------------------------------------
(* Where outputs come from, and what supersedes them.                      *)

\* The transaction of a run or of a reaction inserts the row; the enqueue call
\* that follows may be lost.
Create(o) ==
  /\ status[o] = "absent"
  /\ status' = [status EXCEPT ![o] = "pending"]
  /\ todo' = todo \cup {o} \/ UNCHANGED todo
  /\ UNCHANGED <<attempts, messageTs, transcript, stale, doing, fetched, slots,
                 recovery, posted, bounds>>

\* A later message of the thread is stored, perhaps between the run's last look
\* at the thread and the transaction that inserts its output.
Supersede(o) ==
  /\ o \in RunOutput \ superseded
  /\ superseded' = superseded \cup {o}
  /\ allowed' = [allowed EXCEPT ![o] = attempts[o]]
  /\ UNCHANGED <<rows, queue, slots, recovery, posted, bounds>>

-----------------------------------------------------------------------------
(* A delivery job.                                                         *)

Goto(s, label) == pc' = [pc EXCEPT ![s] = label]
OutputOf(s) == job[s][1]

\* Mutant: a status is misspelt.
SetStatusMisspelt(o, value) ==
  status' = [status EXCEPT ![o] = IF value = "cancelled" THEN "canceled" ELSE value]

SetStatus(o, value) == status' = [status EXCEPT ![o] = value]

\* Mutant: the output's execution lock is not taken.
FetchIgnoringLock(s, o) ==
  /\ pc[s] = "idle" /\ beat[s] /\ o \in todo
  /\ todo' = todo \ {o}
  /\ fetched' = [fetched EXCEPT ![o] = @ + 1]
  /\ doing' = doing \cup {<<o, fetched[o] + 1>>}
  /\ job' = [job EXCEPT ![s] = <<o, fetched[o] + 1>>]
  /\ Goto(s, "check")
  /\ UNCHANGED <<rows, stale, beat, mode, answer, recovery, posted, bounds>>

\* The lock slack-output:{id} admits one job of an output at a time.
Fetch(s, o) ==
  /\ pc[s] = "idle" /\ beat[s] /\ o \in todo
  /\ \A j \in doing : j[1] # o
  /\ todo' = todo \ {o}
  /\ fetched' = [fetched EXCEPT ![o] = @ + 1]
  /\ doing' = doing \cup {<<o, fetched[o] + 1>>}
  /\ job' = [job EXCEPT ![s] = <<o, fetched[o] + 1>>]
  /\ Goto(s, "check")
  /\ UNCHANGED <<rows, stale, beat, mode, answer, recovery, posted, bounds>>

delivering == <<stale, queue, job, beat, mode, recovery, bounds>>

\* Mutant: a message that arrives after the first attempt is overlooked.
CheckFreshOnly(s) ==
  LET o == OutputOf(s)
      withheld == mode[s] = "off" \/ (o \in superseded /\ attempts[o] = 0)
  IN /\ pc[s] = "check"
     /\ \/ /\ status[o] # "pending"
           /\ Goto(s, "finish")
           /\ UNCHANGED <<status, attempts>>
        \/ /\ status[o] = "pending" /\ withheld
           /\ SetStatus(o, "cancelled")
           /\ Goto(s, "finish")
           /\ UNCHANGED attempts
        \/ /\ status[o] = "pending" /\ ~withheld
           /\ attempts' = [attempts EXCEPT ![o] = @ + 1]
           /\ Goto(s, "post")
           /\ UNCHANGED status
     /\ UNCHANGED <<messageTs, transcript, delivering, answer, posted>>

\* The first transaction: drop what is not pending, cancel what is off or
\* superseded, count the attempt of the rest.
Check(s) ==
  LET o == OutputOf(s)
      withheld == mode[s] = "off" \/ o \in superseded
  IN /\ pc[s] = "check"
     /\ \/ /\ status[o] # "pending"
           /\ Goto(s, "finish")
           /\ UNCHANGED <<status, attempts>>
        \/ /\ status[o] = "pending" /\ withheld
           /\ SetStatus(o, "cancelled")
           /\ Goto(s, "finish")
           /\ UNCHANGED attempts
        \/ /\ status[o] = "pending" /\ ~withheld
           /\ attempts' = [attempts EXCEPT ![o] = @ + 1]
           /\ Goto(s, "post")
           /\ UNCHANGED status
     /\ UNCHANGED <<messageTs, transcript, delivering, answer, posted>>

\* chat.postMessage: accepted and answered, or rejected.
Post(s) ==
  LET o == OutputOf(s) IN
  /\ pc[s] = "post"
  /\ \/ /\ posted' = [posted EXCEPT ![o] = @ + 1]
        /\ answer' = [answer EXCEPT ![s] = posted[o] + 1]
        /\ Goto(s, "record_sent")
     \/ /\ Goto(s, "record_failure")
        /\ UNCHANGED <<posted, answer>>
  /\ UNCHANGED <<rows, delivering>>

\* Accepted, but the caller sees an exception (a timeout, or no timestamp).
PostUnanswered(s) ==
  /\ pc[s] = "post" /\ Failures < MaxFailures
  /\ faults' = faults + 1
  /\ posted' = [posted EXCEPT ![OutputOf(s)] = @ + 1]
  /\ Goto(s, "record_failure")
  /\ UNCHANGED <<rows, stale, queue, job, beat, mode, answer, recovery, crashes, lapses>>

\* Mutant: one attempt too many is allowed.
RecordFailureLate(s) ==
  LET o == OutputOf(s) IN
  /\ pc[s] = "record_failure"
  /\ IF attempts[o] > MaxAttempts THEN SetStatus(o, "failed") ELSE UNCHANGED status
  /\ Goto(s, "finish")
  /\ UNCHANGED <<attempts, messageTs, transcript, delivering, answer, posted>>

\* The failure transaction does not look at the output's status again.
RecordFailure(s) ==
  LET o == OutputOf(s) IN
  /\ pc[s] = "record_failure"
  /\ IF attempts[o] >= MaxAttempts THEN SetStatus(o, "failed") ELSE UNCHANGED status
  /\ Goto(s, "finish")
  /\ UNCHANGED <<attempts, messageTs, transcript, delivering, answer, posted>>

\* Mutant: a reply that was already recorded is recorded again.
RecordSentAgain(s) ==
  LET o == OutputOf(s) IN
  /\ pc[s] = "record_sent"
  /\ SetStatus(o, "sent")
  /\ messageTs' = [messageTs EXCEPT ![o] = answer[s]]
  /\ transcript' = [transcript EXCEPT ![o] = @ \cup {answer[s]}]
  /\ Goto(s, "finish")
  /\ UNCHANGED <<attempts, delivering, answer, posted>>

\* Mutant: the timestamp is stored but the status forgotten.
RecordSentPending(s) ==
  LET o == OutputOf(s) IN
  /\ pc[s] = "record_sent"
  /\ messageTs' = [messageTs EXCEPT ![o] = answer[s]]
  /\ transcript' = [transcript EXCEPT ![o] = @ \cup {answer[s]}]
  /\ Goto(s, "finish")
  /\ UNCHANGED <<status, attempts, delivering, answer, posted>>

\* The success transaction: the first timestamp recorded stays, and is
\* mirrored into the transcript.
RecordSent(s) ==
  LET o == OutputOf(s) IN
  /\ pc[s] = "record_sent"
  /\ IF status[o] = "sent" THEN UNCHANGED <<status, messageTs, transcript>>
     ELSE /\ SetStatus(o, "sent")
          /\ messageTs' = [messageTs EXCEPT ![o] = answer[s]]
          /\ transcript' = [transcript EXCEPT ![o] = @ \cup {answer[s]}]
  /\ Goto(s, "finish")
  /\ UNCHANGED <<attempts, delivering, answer, posted>>

\* One of the three transactions raises and the job fails; nothing retries it
\* but the recovery.
TransactionFails(s) ==
  /\ pc[s] \in {"check", "record_sent", "record_failure"} /\ Failures < MaxFailures
  /\ faults' = faults + 1
  /\ Goto(s, "finish")
  /\ UNCHANGED <<rows, stale, queue, job, beat, mode, answer, recovery, posted,
                 crashes, lapses>>

FinishJob(s) ==
  /\ pc[s] = "finish"
  /\ doing' = doing \ {job[s]}
  /\ job' = [job EXCEPT ![s] = NoJob]
  /\ answer' = [answer EXCEPT ![s] = 0]
  /\ Goto(s, "idle")
  /\ UNCHANGED <<rows, stale, todo, fetched, beat, mode, recovery, posted, bounds>>

-----------------------------------------------------------------------------
(* The recovery, as far as outputs are concerned.  One tick at a time.     *)

Healthy(j) == \E s \in Slot : pc[s] # "idle" /\ job[s] = j /\ beat[s]

recovering == <<rows, stale, slots, posted, bounds>>

FindStalled ==
  /\ tick = "idle"
  /\ stalled' = {j \in doing : ~Healthy(j)}
  /\ tick' = "release"
  /\ UNCHANGED <<queue, pending, recovering>>

\* A delivery job is released without touching its output.  A job that ended
\* meanwhile makes finish_job raise, and the tick ends.
Release(j) ==
  /\ tick = "release" /\ j \in stalled
  /\ \/ /\ j \in doing
        /\ doing' = doing \ {j}
        /\ stalled' = stalled \ {j}
        /\ UNCHANGED tick
     \/ /\ j \notin doing
        /\ stalled' = {}
        /\ tick' = "idle"
        /\ UNCHANGED doing
  /\ UNCHANGED <<todo, fetched, pending, recovering>>

\* Mutant: outputs that were attempted once are not recovered.
FindUntriedPending ==
  /\ tick = "release" /\ stalled = {}
  /\ pending' = {o \in Output : status[o] = "pending" /\ attempts[o] = 0}
  /\ tick' = "enqueue"
  /\ UNCHANGED <<queue, stalled, recovering>>

FindPending ==
  /\ tick = "release" /\ stalled = {}
  /\ pending' = {o \in Output : status[o] = "pending"}
  /\ tick' = "enqueue"
  /\ UNCHANGED <<queue, stalled, recovering>>

Resubmit(o) ==
  /\ tick = "enqueue" /\ o \in pending
  /\ todo' = todo \cup {o}
  /\ pending' = pending \ {o}
  /\ UNCHANGED <<doing, fetched, tick, stalled, recovering>>

EndTick ==
  /\ tick = "enqueue" /\ pending = {}
  /\ tick' = "idle"
  /\ UNCHANGED <<queue, stalled, pending, recovering>>

-----------------------------------------------------------------------------
\* A control worker dies with the job of a slot and is restarted.  Recovery
\* ticks run on a control worker too: one in progress may die with it.
Crash(s) ==
  /\ Failures < MaxFailures
  /\ crashes' = crashes + 1
  /\ pc' = [pc EXCEPT ![s] = "idle"]
  /\ job' = [job EXCEPT ![s] = NoJob]
  /\ beat' = [beat EXCEPT ![s] = TRUE]
  /\ answer' = [answer EXCEPT ![s] = 0]
  /\ \E v \in Mode : mode' = [mode EXCEPT ![s] = v]
  /\ \/ tick' = "idle" /\ stalled' = {} /\ pending' = {}
     \/ UNCHANGED recovery
  /\ UNCHANGED <<rows, stale, queue, posted, lapses, faults>>

Lapse(s) ==
  /\ Failures < MaxFailures /\ pc[s] # "idle" /\ beat[s]
  /\ lapses' = lapses + 1
  /\ beat' = [beat EXCEPT ![s] = FALSE]
  /\ UNCHANGED <<rows, stale, queue, pc, job, mode, answer, recovery, posted, crashes, faults>>

Resume(s) ==
  /\ ~beat[s]
  /\ beat' = [beat EXCEPT ![s] = TRUE]
  /\ UNCHANGED <<rows, stale, queue, pc, job, mode, answer, recovery, posted, bounds>>

-----------------------------------------------------------------------------
Deliver(s) ==
  \/ Check(s) \/ Post(s) \/ RecordFailure(s) \/ RecordSent(s) \/ FinishJob(s)

Recover ==
  \/ FindStalled \/ FindPending \/ EndTick
  \/ \E j \in stalled : Release(j)
  \/ \E o \in pending : Resubmit(o)

Next ==
  \/ \E o \in Output : Create(o) \/ Supersede(o)
  \/ \E s \in Slot :
       \/ \E o \in todo : Fetch(s, o)
       \/ Deliver(s) \/ PostUnanswered(s) \/ TransactionFails(s)
       \/ Crash(s) \/ Lapse(s) \/ Resume(s)
  \/ Recover

Spec == Init /\ [][Next]_vars

\* Reporting slots run on, idle ones take waiting jobs, the scheduler ticks.
Fairness ==
  /\ \A s \in Slot :
       /\ \A o \in Output : WF_vars(Fetch(s, o))
       /\ WF_vars(beat[s] /\ Deliver(s))
       /\ WF_vars(Resume(s))
  /\ WF_vars(Recover)

FairSpec == Spec /\ Fairness

-----------------------------------------------------------------------------
(* Properties.                                                             *)

\* Every variable has the type the rows, the queue and the slots give it.
TypeOK ==
  /\ status \in [Output -> DeliveryStatus]
  /\ attempts \in [Output -> Nat]
  /\ messageTs \in [Output -> Nat]
  /\ transcript \in [Output -> SUBSET Nat]
  /\ superseded \subseteq RunOutput
  /\ allowed \in [Output -> Nat]
  /\ todo \subseteq Output
  /\ doing \subseteq Job
  /\ fetched \in [Output -> Nat]
  /\ pc \in [Slot -> PC]
  /\ job \in [Slot -> Job \cup {NoJob}]
  /\ beat \in [Slot -> BOOLEAN]
  /\ mode \in [Slot -> Mode]
  /\ answer \in [Slot -> Nat]
  /\ tick \in {"idle", "release", "enqueue"}
  /\ stalled \subseteq Job
  /\ pending \subseteq Output
  /\ posted \in [Output -> Nat]
  /\ crashes \in Nat /\ lapses \in Nat /\ faults \in Nat

\* A settled output never changes again: a late result of a slot whose job was
\* already released overwrites nothing.  Needs: no heartbeat of a living
\* worker lapses (RecordFailure and RecordSent do not look at the job).
SettledIsFinal ==
  [][\A o \in Output :
       lapses = 0 /\ status[o] \in {"sent", "failed", "cancelled"} => status'[o] = status[o]]_vars

\* The transcript the next investigation reads holds a reply exactly for sent
\* outputs, once, under the timestamp feedback is looked up by, and Slack did
\* accept it.
TranscriptMirrorsSent ==
  lapses = 0 =>
    \A o \in Output :
      /\ transcript[o] = IF status[o] = "sent" THEN {messageTs[o]} ELSE {}
      /\ status[o] = "sent" => messageTs[o] \in 1..posted[o]

Contract ==
  INSTANCE DeliveryContract WITH failures <- Failures, late <- lapses > 0

\* The slots, the queue and the recovery together keep the promise of
\* DeliveryContract: what deliver_output read in its first transaction still holds
\* when it calls Slack and when it records the result.
ImplementsDelivery == Contract!Spec

\* An answer that a newer message of the thread made stale is not posted, unless
\* its attempt was counted before: the check in the delivery job closes the gap
\* the run leaves between its own last check and its commit.
SupersededIsNotPosted ==
  \A o \in superseded : posted[o] <= allowed[o]

\* Each crash, lapse or fault costs an output at most one attempt beyond the
\* configured maximum.
AttemptsAreBounded ==
  \A o \in Output : attempts[o] <= MaxAttempts + crashes + lapses + faults

\* Slack accepts an output a second time only after a crash, a lapse or a fault,
\* one for each repetition.
RepetitionsNeedFaults ==
  \A o \in Output : posted[o] <= 1 + crashes + lapses + faults

\* Every output is settled: lost enqueues, dead workers and failed jobs are
\* repaired by the recovery, and rejections are given up after a while.
EveryOutputSettles ==
  \A o \in Output : status[o] = "pending" ~> status[o] \in {"sent", "failed", "cancelled"}
=============================================================================
