---------------------------- MODULE RunLifecycle ----------------------------
(***************************************************************************)
(* The life of an agent run: the control worker stores the trigger and     *)
(* queues the run, an agent worker executes it (slack/pipeline.py          *)
(* execute_run), and the periodic recovery (jobs/tasks.py) finalizes the   *)
(* jobs of workers whose heartbeat expired and closes commit/enqueue gaps. *)
(* Every transaction, and every call between two transactions that another *)
(* process can observe, is one step.                                       *)
(***************************************************************************)
EXTENDS Runs, Sequences, SequencesExt

CONSTANTS
  Executor,       \* job slots of the agent workers
  Recoverer,      \* recovery ticks that may be in progress at once
  NoJob,
  MaxCrashes,     \* bound: process deaths and restarts
  MaxLapses,      \* bound: heartbeats that expire while the worker lives
  MaxFaults       \* bound: exceptions and cancellations that end a job

ASSUME BoundsAssumption ==
  MaxCrashes \in Nat /\ MaxLapses \in Nat /\ MaxFaults \in Nat

VARIABLES
  \* rows of the database
  run,            \* agent_run.status, by trigger message
  error,          \* agent_run.error_code
  conversation,   \* conversation.state
  outputs,        \* the slack_output rows ever inserted for runs
  \* the Procrastinate queue
  todo,           \* waiting jobs of each execution lock, oldest first
  doing,          \* jobs a worker has fetched and nobody has finished
  fetched,        \* how many jobs of the run were ever fetched
  submitted,      \* outputs a delivery job was deferred for
  \* the control worker
  handoff,        \* runs committed whose enqueue call is still to come
  controlMode,    \* the mode its process has cached
  tick,           \* where each recovery tick is
  stalled,        \* the jobs it found stalled and has not finalized
  releasing,      \* the job it is about to finish
  pendingRuns,    \* the queued runs it found and has not enqueued
  \* the agent workers
  pc,             \* where each slot is in execute_run
  job,            \* the job it executes
  beat,           \* is its heartbeat fresh?
  mode,           \* the mode its process has cached
  \* history and bounds
  investigated,   \* how often the runner was invoked for the run
  escaped,        \* runs left running by an exception no handler caught
  crashes, lapses, faults

rows == <<run, error, conversation, outputs>>
queue == <<todo, doing, fetched, submitted>>
recovery == <<tick, stalled, releasing, pendingRuns>>
control == <<handoff, controlMode, recovery>>
workers == <<pc, job, beat, mode>>
bounds == <<escaped, crashes, lapses, faults>>
vars == <<rows, queue, control, workers, investigated, bounds>>

ConversationState == {"open", "running", "answered", "failed"}

\* The n-th fetched job of a run is <<run, n>>.
Job == Message \X Nat
ASSUME NoJobAssumption == NoJob \notin Job

PC == {"idle", "start", "prepare", "investigate", "commit", "fail",
       "submit_answer", "submit_error", "finish"}
Tick == {"idle", "finalize", "release", "enqueue"}

Init ==
  /\ run = [m \in Message |-> "absent"]
  /\ error = [m \in Message |-> "none"]
  /\ conversation = [c \in Conversation |-> "open"]
  /\ outputs = {}
  /\ todo = [c \in Conversation |-> <<>>]
  /\ doing = {}
  /\ fetched = [m \in Message |-> 0]
  /\ submitted = {}
  /\ handoff = {}
  /\ controlMode \in Mode
  /\ tick = [q \in Recoverer |-> "idle"]
  /\ stalled = [q \in Recoverer |-> {}]
  /\ releasing = [q \in Recoverer |-> NoJob]
  /\ pendingRuns = [q \in Recoverer |-> {}]
  /\ pc = [e \in Executor |-> "idle"]
  /\ job = [e \in Executor |-> NoJob]
  /\ beat = [e \in Executor |-> TRUE]
  /\ mode \in [Executor -> Mode]
  /\ investigated = [m \in Message |-> 0]
  /\ escaped = {}
  /\ crashes = 0 /\ lapses = 0 /\ faults = 0

-----------------------------------------------------------------------------
(* The queue.  A waiting job is unique per run (queueing_lock); a          *)
(* conversation's jobs run one at a time, oldest first (lock).             *)

EnqueueRun(m) ==
  todo' = IF m \in ToSet(todo[ConvOf[m]]) THEN todo
          ELSE [todo EXCEPT ![ConvOf[m]] = Append(@, m)]

\* Mutant: jobs are fetched although their lock is held.
FetchIgnoringLocks(e) ==
  /\ pc[e] = "idle" /\ beat[e]
  /\ \E c \in Conversation :
       /\ todo[c] # <<>>
       /\ LET j == <<Head(todo[c]), fetched[Head(todo[c])] + 1>>
          IN /\ todo' = [todo EXCEPT ![c] = Tail(@)]
             /\ doing' = doing \cup {j}
             /\ fetched' = [fetched EXCEPT ![j[1]] = @ + 1]
             /\ job' = [job EXCEPT ![e] = j]
             /\ pc' = [pc EXCEPT ![e] = "start"]
  /\ UNCHANGED <<rows, submitted, control, beat, mode, investigated, bounds>>

Fetch(e) ==
  /\ pc[e] = "idle" /\ beat[e]
  /\ \E c \in Conversation :
       /\ todo[c] # <<>>
       /\ \A j \in doing : ConvOf[j[1]] # c
       /\ LET m == Head(todo[c])
              j == <<m, fetched[m] + 1>>
          IN /\ todo' = [todo EXCEPT ![c] = Tail(@)]
             /\ doing' = doing \cup {j}
             /\ fetched' = [fetched EXCEPT ![m] = @ + 1]
             /\ job' = [job EXCEPT ![e] = j]
             /\ pc' = [pc EXCEPT ![e] = "start"]
  /\ UNCHANGED <<rows, submitted, control, beat, mode, investigated, bounds>>

\* The worker reports its job as ended; nothing changes when recovery has
\* finished that job before it.
FinishJob(e) ==
  /\ pc[e] = "finish"
  /\ doing' = doing \ {job[e]}
  /\ pc' = [pc EXCEPT ![e] = "idle"]
  /\ job' = [job EXCEPT ![e] = NoJob]
  /\ UNCHANGED <<rows, todo, fetched, submitted, control, beat, mode, investigated, bounds>>

-----------------------------------------------------------------------------
(* The control worker: a message is stored with its run, then enqueued.    *)

StoreTrigger(m) ==
  /\ controlMode = "enabled"
  /\ run[m] = "absent"
  /\ run' = [run EXCEPT ![m] = "queued"]
  /\ conversation' = [conversation EXCEPT ![ConvOf[m]] = "running"]
  /\ handoff' = handoff \cup {m}
  /\ UNCHANGED <<error, outputs, queue, controlMode, recovery, workers, investigated, bounds>>

\* The enqueue after the commit may itself raise.
HandOff(m) ==
  /\ m \in handoff
  /\ handoff' = handoff \ {m}
  /\ EnqueueRun(m) \/ UNCHANGED todo
  /\ UNCHANGED <<rows, doing, fetched, submitted, controlMode, recovery, workers,
                 investigated, bounds>>

-----------------------------------------------------------------------------
(* An agent worker executes a run.                                         *)

RunOf(e) == job[e][1]

Goto(e, label) == pc' = [pc EXCEPT ![e] = label]

\* Mutant: the status is misspelt.
CancelMisspelt(m) == run' = [run EXCEPT ![m] = "canceled"]

Cancel(m) == run' = [run EXCEPT ![m] = "cancelled"]

SetConversation(m, state) ==
  conversation' = [conversation EXCEPT ![ConvOf[m]] = state]

executing == <<queue, control, job, beat, mode>>

\* The opening transaction: only a queued run, in enabled mode, with no newer
\* message, is started.  The off mode leaves the conversation's state alone.
Start(e) ==
  LET m == RunOf(e) IN
  /\ pc[e] = "start"
  /\ \/ /\ run[m] # "queued"
        /\ Goto(e, "finish")
        /\ UNCHANGED rows
     \/ /\ run[m] = "queued" /\ mode[e] = "off"
        /\ Cancel(m)
        /\ Goto(e, "finish")
        /\ UNCHANGED <<error, conversation, outputs>>
     \/ /\ run[m] = "queued" /\ mode[e] # "off" /\ Newer(run, m)
        /\ Cancel(m)
        /\ SetConversation(m, "running")
        /\ Goto(e, "finish")
        /\ UNCHANGED <<error, outputs>>
     \/ /\ run[m] = "queued" /\ mode[e] # "off" /\ ~Newer(run, m)
        /\ run' = [run EXCEPT ![m] = "running"]
        /\ Goto(e, "prepare")
        /\ UNCHANGED <<error, conversation, outputs>>
  /\ UNCHANGED <<executing, investigated, bounds>>

\* _cancel_if_stale, which returns FALSE only in the last disjunct.  (A commit
\* that is applied and raises leads to the handler, which finds the run closed.)
CancelIfStale(e, next) ==
  LET m == RunOf(e)
      open == run[m] \in {"queued", "running"}
      stale == Newer(run, m) \/ mode[e] = "off"
  IN /\ \/ /\ ~open
           /\ Goto(e, "finish")
           /\ UNCHANGED rows
        \/ /\ open /\ stale
           /\ Cancel(m)
           /\ SetConversation(m, "running")
           /\ Goto(e, "finish")
           /\ UNCHANGED <<error, outputs>>
        \/ /\ open /\ ~stale
           /\ Goto(e, next)
           /\ UNCHANGED rows
     /\ UNCHANGED <<executing, bounds>>

\* Status, images and input snapshot, the first check, and the runner's call.
Prepare(e) ==
  /\ pc[e] = "prepare"
  /\ CancelIfStale(e, "investigate")
  /\ investigated' =
       IF pc'[e] = "investigate" THEN [investigated EXCEPT ![RunOf(e)] = @ + 1]
       ELSE investigated

\* The runner has returned: the second check.
Recheck(e) ==
  /\ pc[e] = "investigate"
  /\ CancelIfStale(e, "commit")
  /\ UNCHANGED investigated

\* Mutant: the commit does not look at the run's status again.
CommitAnyway(e) ==
  LET m == RunOf(e) IN
  /\ pc[e] = "commit"
  /\ run' = [run EXCEPT ![m] = "succeeded"]
  /\ SetConversation(m, "answered")
  /\ outputs' = outputs \cup {<<m, "answer">>}
  /\ Goto(e, "submit_answer")
  /\ UNCHANGED <<error, executing, investigated, bounds>>

\* The success transaction.  A run that is no longer running was finalized by
\* recovery and is left alone.  The commit may be applied although the client
\* sees it raise, and then the failure handler follows.
Commit(e) ==
  LET m == RunOf(e) IN
  /\ pc[e] = "commit"
  /\ \/ /\ run[m] # "running"
        /\ Goto(e, "finish")
        /\ UNCHANGED rows
     \/ /\ run[m] = "running"
        /\ run' = [run EXCEPT ![m] = "succeeded"]
        /\ SetConversation(m, "answered")
        /\ outputs' = outputs \cup {<<m, "answer">>}
        /\ Goto(e, "submit_answer") \/ Goto(e, "fail")
        /\ UNCHANGED error
  /\ UNCHANGED <<executing, investigated, bounds>>

\* Anything between the opening transaction and the success commit may raise.
Raise(e) ==
  /\ pc[e] \in {"prepare", "investigate", "commit"}
  /\ Goto(e, "fail")
  /\ UNCHANGED <<rows, executing, investigated, bounds>>

\* The failure handler's transaction.
Fail(e) ==
  LET m == RunOf(e) IN
  /\ pc[e] = "fail"
  /\ \/ /\ run[m] # "running"
        /\ Goto(e, "finish")
        /\ UNCHANGED rows
     \/ /\ run[m] = "running"
        /\ run' = [run EXCEPT ![m] = "failed"]
        /\ error' = [error EXCEPT ![m] = "runner_error"]
        /\ SetConversation(m, "failed")
        /\ outputs' = outputs \cup {<<m, "error">>}
        /\ Goto(e, IF <<m, "error">> \in outputs THEN "finish" ELSE "submit_error")
  /\ UNCHANGED <<executing, investigated, bounds>>

\* The output's enqueue call.  After an answer its exception is swallowed,
\* after an error it escapes and fails the job; the run is untouched by both.
Submit(e, kind) ==
  /\ pc[e] = (IF kind = "answer" THEN "submit_answer" ELSE "submit_error")
  /\ submitted' = submitted \cup {<<RunOf(e), kind>>} \/ UNCHANGED submitted
  /\ Goto(e, "finish")
  /\ UNCHANGED <<rows, todo, doing, fetched, control, job, beat, mode, investigated, bounds>>

\* What execute_run does not catch ends the job wherever it is: an opening or
\* handling transaction that raises, applied or not, the construction of the
\* runner before the try, and the cancellation of a job that outlives the
\* graceful shutdown.  A run that was running by then stays so.
Escape(e) ==
  /\ pc[e] \notin {"idle", "finish"}
  /\ faults < MaxFaults
  /\ faults' = faults + 1
  /\ escaped' = IF run[RunOf(e)] = "running" THEN escaped \cup {RunOf(e)} ELSE escaped
  /\ Goto(e, "finish")
  /\ UNCHANGED <<rows, executing, investigated, crashes, lapses>>

-----------------------------------------------------------------------------
(* The periodic recovery, recover_pending_work.                            *)

Healthy(j) == \E e \in Executor : pc[e] # "idle" /\ job[e] = j /\ beat[e]

recovering == <<handoff, controlMode, workers, investigated, bounds>>

\* Mutant: every job in progress counts as stalled.
FindAllStalled(q) ==
  /\ tick[q] = "idle"
  /\ stalled' = [stalled EXCEPT ![q] = doing]
  /\ tick' = [tick EXCEPT ![q] = "finalize"]
  /\ UNCHANGED <<rows, queue, releasing, pendingRuns, recovering>>

\* get_stalled_jobs: the list is read once.
FindStalled(q) ==
  /\ tick[q] = "idle"
  /\ stalled' = [stalled EXCEPT ![q] = {j \in doing : ~Healthy(j)}]
  /\ tick' = [tick EXCEPT ![q] = "finalize"]
  /\ UNCHANGED <<rows, queue, releasing, pendingRuns, recovering>>

\* Mutant: the run is failed whatever its status is.
FinalizeAnyway(q, j) ==
  LET m == j[1] IN
  /\ tick[q] = "finalize" /\ j \in stalled[q]
  /\ run' = [run EXCEPT ![m] = "failed"]
  /\ error' = [error EXCEPT ![m] = "worker_interrupted"]
  /\ SetConversation(m, "failed")
  /\ outputs' = IF controlMode = "enabled" THEN outputs \cup {<<m, "error">>} ELSE outputs
  /\ releasing' = [releasing EXCEPT ![q] = j]
  /\ tick' = [tick EXCEPT ![q] = "release"]
  /\ UNCHANGED <<queue, stalled, pendingRuns, recovering>>

\* Mutant: an interrupted run is queued again, to be replayed.
FinalizeRequeues(q, j) ==
  /\ tick[q] = "finalize" /\ j \in stalled[q]
  /\ run' = IF run[j[1]] = "running" THEN [run EXCEPT ![j[1]] = "queued"] ELSE run
  /\ releasing' = [releasing EXCEPT ![q] = j]
  /\ tick' = [tick EXCEPT ![q] = "release"]
  /\ UNCHANGED <<error, conversation, outputs, queue, stalled, pendingRuns, recovering>>

\* Mutant: the job is released, the run forgotten.
FinalizeJobOnly(q, j) ==
  /\ tick[q] = "finalize" /\ j \in stalled[q]
  /\ releasing' = [releasing EXCEPT ![q] = j]
  /\ tick' = [tick EXCEPT ![q] = "release"]
  /\ UNCHANGED <<rows, queue, stalled, pendingRuns, recovering>>

\* The domain transaction for one stalled job.
Finalize(q, j) ==
  LET m == j[1] IN
  /\ tick[q] = "finalize" /\ j \in stalled[q]
  /\ \/ /\ run[m] # "running"
        /\ UNCHANGED rows
     \/ /\ run[m] = "running"
        /\ run' = [run EXCEPT ![m] = "failed"]
        /\ error' = [error EXCEPT ![m] = "worker_interrupted"]
        /\ SetConversation(m, "failed")
        /\ outputs' = IF controlMode = "enabled" THEN outputs \cup {<<m, "error">>} ELSE outputs
  /\ releasing' = [releasing EXCEPT ![q] = j]
  /\ tick' = [tick EXCEPT ![q] = "release"]
  /\ UNCHANGED <<queue, stalled, pendingRuns, recovering>>

\* Mutant: the stalled job keeps its lock.
ReleaseNothing(q) ==
  /\ tick[q] = "release"
  /\ releasing' = [releasing EXCEPT ![q] = NoJob]
  /\ stalled' = [stalled EXCEPT ![q] = @ \ {releasing[q]}]
  /\ tick' = [tick EXCEPT ![q] = "finalize"]
  /\ UNCHANGED <<rows, queue, pendingRuns, recovering>>

\* finish_job raises for a job that is no longer in progress: the tick ends.
Release(q) ==
  /\ tick[q] = "release"
  /\ releasing' = [releasing EXCEPT ![q] = NoJob]
  /\ \/ /\ releasing[q] \in doing
        /\ doing' = doing \ {releasing[q]}
        /\ stalled' = [stalled EXCEPT ![q] = @ \ {releasing[q]}]
        /\ tick' = [tick EXCEPT ![q] = "finalize"]
     \/ /\ releasing[q] \notin doing
        /\ stalled' = [stalled EXCEPT ![q] = {}]
        /\ tick' = [tick EXCEPT ![q] = "idle"]
        /\ UNCHANGED doing
  /\ UNCHANGED <<rows, todo, fetched, submitted, pendingRuns, recovering>>

\* The queued runs are read once, then enqueued in turn.
FindPending(q) ==
  /\ tick[q] = "finalize" /\ stalled[q] = {}
  /\ pendingRuns' = [pendingRuns EXCEPT ![q] = {m \in Message : run[m] = "queued"}]
  /\ tick' = [tick EXCEPT ![q] = "enqueue"]
  /\ UNCHANGED <<rows, queue, stalled, releasing, recovering>>

ResubmitRun(q, m) ==
  /\ tick[q] = "enqueue" /\ m \in pendingRuns[q]
  /\ EnqueueRun(m)
  /\ pendingRuns' = [pendingRuns EXCEPT ![q] = @ \ {m}]
  /\ UNCHANGED <<rows, doing, fetched, submitted, tick, stalled, releasing,
                 recovering>>

\* Mutant: pending outputs are not looked for.
ResubmitNoOutputs(q) ==
  /\ tick[q] = "enqueue" /\ pendingRuns[q] = {}
  /\ tick' = [tick EXCEPT ![q] = "idle"]
  /\ UNCHANGED <<rows, queue, stalled, releasing, pendingRuns, recovering>>

\* The pending outputs are enqueued last.  Nothing in this module delivers
\* them, so reading and enqueueing them is one step.
ResubmitOutputs(q) ==
  /\ tick[q] = "enqueue" /\ pendingRuns[q] = {}
  /\ submitted' = submitted \cup outputs
  /\ tick' = [tick EXCEPT ![q] = "idle"]
  /\ UNCHANGED <<rows, todo, doing, fetched, stalled, releasing, pendingRuns, recovering>>

-----------------------------------------------------------------------------
(* What may happen to the processes.                                       *)

\* A worker dies and is restarted, perhaps with another mode; its job stays
\* in progress with nobody to finish it.
Crash(e) ==
  /\ crashes < MaxCrashes
  /\ crashes' = crashes + 1
  /\ pc' = [pc EXCEPT ![e] = "idle"]
  /\ job' = [job EXCEPT ![e] = NoJob]
  /\ beat' = [beat EXCEPT ![e] = TRUE]
  /\ \E v \in Mode : mode' = [mode EXCEPT ![e] = v]
  /\ UNCHANGED <<rows, queue, control, investigated, escaped, lapses, faults>>

\* The control worker dies and is restarted.
ControlCrash ==
  /\ crashes < MaxCrashes
  /\ crashes' = crashes + 1
  /\ handoff' = {}
  /\ controlMode' \in Mode
  /\ tick' = [q \in Recoverer |-> "idle"]
  /\ stalled' = [q \in Recoverer |-> {}]
  /\ releasing' = [q \in Recoverer |-> NoJob]
  /\ pendingRuns' = [q \in Recoverer |-> {}]
  /\ UNCHANGED <<rows, queue, workers, investigated, escaped, lapses, faults>>

\* A busy worker stops reporting its heartbeat without dying, and resumes.
Lapse(e) ==
  /\ lapses < MaxLapses /\ pc[e] # "idle" /\ beat[e]
  /\ lapses' = lapses + 1
  /\ beat' = [beat EXCEPT ![e] = FALSE]
  /\ UNCHANGED <<rows, queue, control, pc, job, mode, investigated, escaped, crashes,
                 faults>>

Resume(e) ==
  /\ ~beat[e]
  /\ beat' = [beat EXCEPT ![e] = TRUE]
  /\ UNCHANGED <<rows, queue, control, pc, job, mode, investigated, bounds>>

-----------------------------------------------------------------------------
Execute(e) ==
  \/ Start(e) \/ Prepare(e) \/ Recheck(e) \/ Commit(e)
  \/ Fail(e) \/ Submit(e, "answer") \/ Submit(e, "error") \/ FinishJob(e)

Recover(q) ==
  \/ FindStalled(q) \/ Release(q) \/ FindPending(q) \/ ResubmitOutputs(q)
  \/ \E j \in stalled[q] : Finalize(q, j)
  \/ \E m \in pendingRuns[q] : ResubmitRun(q, m)

Next ==
  \/ \E m \in Message : StoreTrigger(m) \/ HandOff(m)
  \/ \E e \in Executor :
       \/ Fetch(e) \/ Execute(e) \/ Raise(e) \/ Escape(e)
       \/ Crash(e) \/ Lapse(e) \/ Resume(e)
  \/ \E q \in Recoverer : Recover(q)
  \/ ControlCrash

Spec == Init /\ [][Next]_vars

\* Workers that report a heartbeat run on, idle ones take jobs, the scheduler
\* keeps ticking, and a silent worker resumes unless it dies.  Nothing obliges
\* a message to arrive, a worker to die, a heartbeat to lapse or a call to raise.
Fairness ==
  /\ \A e \in Executor :
       WF_vars(Fetch(e)) /\ WF_vars(beat[e] /\ Execute(e)) /\ WF_vars(Resume(e))
  /\ \A q \in Recoverer : WF_vars(Recover(q))

FairSpec == Spec /\ Fairness

-----------------------------------------------------------------------------
(* Properties.                                                             *)

\* Every variable has the type the rows, the queue and the processes give it.
TypeOK ==
  /\ run \in [Message -> RunStatus]
  /\ error \in [Message -> ErrorCode]
  /\ conversation \in [Conversation -> ConversationState]
  /\ outputs \subseteq Output
  /\ todo \in [Conversation -> Seq(Message)]
  /\ doing \subseteq Job
  /\ fetched \in [Message -> Nat]
  /\ submitted \subseteq Output
  /\ handoff \subseteq Message
  /\ controlMode \in Mode
  /\ tick \in [Recoverer -> Tick]
  /\ stalled \in [Recoverer -> SUBSET Job]
  /\ releasing \in [Recoverer -> Job \cup {NoJob}]
  /\ pendingRuns \in [Recoverer -> SUBSET Message]
  /\ pc \in [Executor -> PC]
  /\ job \in [Executor -> Job \cup {NoJob}]
  /\ beat \in [Executor -> BOOLEAN]
  /\ mode \in [Executor -> Mode]
  /\ investigated \in [Message -> Nat]
  /\ escaped \subseteq Message
  /\ crashes \in Nat /\ lapses \in Nat /\ faults \in Nat

Contract ==
  INSTANCE RunContract
    WITH run <- run, error <- error, outputs <- outputs, investigated <- investigated

\* The workers, the queue and the recovery together keep the promise of
\* RunContract: one investigation per run even when its worker dies or goes
\* silent, no terminal status ever overwritten by a late worker, one outcome.
ImplementsContract == Contract!Spec

\* The outbox says what the run says: an answer exists exactly for succeeded
\* runs and an error reply only for failed ones, although the success
\* transaction, the failure handler and the recovery race for the same run.
OutputMatchesOutcome ==
  \A m \in Message :
    /\ <<m, "answer">> \in outputs <=> run[m] = "succeeded"
    /\ <<m, "error">> \in outputs => run[m] = "failed"

\* The recovery looks for interrupted runs through their jobs, so a running run
\* must have a job in progress, whoever dies when and however often the run is
\* enqueued again.  Two things break it, and only they: a living worker's
\* heartbeat that lapses, and an exception that escapes from execute_run.
RunningRunIsOwned ==
  lapses = 0 =>
    \A m \in Message :
      run[m] = "running" => m \in escaped \/ \E j \in doing : j[1] = m

\* The conversation lock serializes the runs of a thread: it is held until the
\* run is closed, by its worker or by the recovery.  Same exceptions.
OneRunningPerConversation ==
  lapses = 0 =>
    \A m, n \in Message \ escaped :
      run[m] = "running" /\ run[n] = "running" /\ ConvOf[m] = ConvOf[n] => m = n

WorkingOn(m) ==
  \E e \in Executor : pc[e] \notin {"idle", "finish"} /\ RunOf(e) = m /\ beat[e]

\* Recovery interrupts only runs that no reporting worker is executing: its
\* list of stalled jobs is read before, and applied after, other steps.
HealthyRunIsNotInterrupted ==
  [][\A m \in Message :
       error[m] # "worker_interrupted" /\ error'[m] = "worker_interrupted" => ~WorkingOn(m)]_vars

\* A running run that no job in progress and no living worker has: recovery does
\* not see it any more.  It takes an escape, or a lapse and a death.
Abandoned(m) ==
  /\ run[m] = "running" /\ \A j \in doing : j[1] # m
  /\ \A e \in Executor : pc[e] \notin {"idle", "finish"} => RunOf(e) # m
  /\ m \in escaped \/ (crashes > 0 /\ lapses > 0)

\* Every stored message's run ends: commit/enqueue gaps, dead or silent workers'
\* jobs and escaped exceptions are repaired by the periodic recovery, all but
\* those that abandon the run.
EveryRunEnds ==
  \A m \in Message : run[m] = "queued" ~> run[m] \in Terminal \/ Abandoned(m)

\* An investigation that has begun ends, with its worker or without it.
RunningRunEnds ==
  \A m \in Message : run[m] = "running" ~> run[m] \in Terminal

\* Whatever output a run leaves gets a delivery job, although the enqueue
\* call after the commit may be lost or raise.
EveryOutputIsSubmitted ==
  \A m \in Message :
    run[m] \in Terminal ~> \A o \in outputs : o[1] = m => o \in submitted
=============================================================================
