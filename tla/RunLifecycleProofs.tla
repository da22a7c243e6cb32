------------------------- MODULE RunLifecycleProofs -------------------------
(***************************************************************************)
(* RunLifecycle keeps its type, implements RunContract, and (until a        *)
(* heartbeat of a living worker lapses) loses no running run but those an  *)
(* escaped exception left, for every set of messages, threads, workers and *)
(* recovery ticks.                                                         *)
(***************************************************************************)
EXTENDS RunLifecycle, SequenceTheorems, TLAPS

\* A busy slot executes a job.
BusyHasJob == \A e \in Executor : pc[e] # "idle" => job[e] \in Job

\* A slot that may still change its run's row works on a run that was started,
\* and no other such slot works on that run.
Engaged(e) == pc[e] \in {"prepare", "investigate", "commit", "fail"}

EngagedRunIsStarted ==
  \A e \in Executor : Engaged(e) => run[RunOf(e)] \notin {"absent", "queued"}

EngagedAlone ==
  \A e, f \in Executor : Engaged(e) /\ Engaged(f) /\ RunOf(e) = RunOf(f) => e = f

\* The runner is invoked on the way from "prepare" to "investigate", once.
InvestigatedInOrder ==
  /\ \A m \in Message : run[m] \in {"absent", "queued"} => investigated[m] = 0
  /\ \A e \in Executor : pc[e] = "prepare" => investigated[RunOf(e)] = 0
  /\ \A e \in Executor : pc[e] \in {"investigate", "commit"} => investigated[RunOf(e)] = 1

IInv ==
  /\ TypeOK
  /\ BusyHasJob
  /\ EngagedRunIsStarted
  /\ EngagedAlone
  /\ InvestigatedInOrder
  /\ OutputMatchesOutcome

\* Ownership: what lets the recovery find every interrupted run.
Holds(e, j) == pc[e] # "idle" /\ job[e] = j

JobIds == \A j \in doing : j[2] <= fetched[j[1]]

OneJobPerConversation ==
  \A i, j \in doing : ConvOf[i[1]] = ConvOf[j[1]] => i = j

HeldJobsInProgress ==
  /\ lapses = 0
  /\ \A e \in Executor : beat[e]
  /\ \A e \in Executor : pc[e] # "idle" => job[e] \in doing
  /\ \A e, f \in Executor : pc[e] # "idle" /\ pc[f] # "idle" /\ job[e] = job[f] => e = f

\* A slot that is not engaged works on a run that is not running, or that an
\* exception left running.
DetachedRunIsNotRunning ==
  \A e \in Executor :
    pc[e] # "idle" /\ ~Engaged(e) => run[RunOf(e)] # "running" \/ RunOf(e) \in escaped

\* The jobs on a recovery's list are dead for good: old identities nobody holds.
StalledAreDead ==
  \A q \in Recoverer :
    /\ \A j \in stalled[q] : j[2] <= fetched[j[1]] /\ \A e \in Executor : ~Holds(e, j)
    /\ tick[q] = "release" =>
         /\ releasing[q] \in stalled[q]
         /\ releasing[q] \in doing => run[releasing[q][1]] # "running"

OwnInv ==
  /\ JobIds
  /\ OneJobPerConversation
  /\ HeldJobsInProgress
  /\ DetachedRunIsNotRunning
  /\ StalledAreDead
  /\ RunningRunIsOwned

\* Enqueueing, by the control worker or the recovery, keeps the queue's type.
LEMMA EnqueueRunType ==
  ASSUME TypeOK, NEW m \in Message, EnqueueRun(m)
  PROVE  todo' \in [Conversation -> Seq(Message)]
<1>1. ConvOf[m] \in Conversation
  BY ConvOfAssumption
<1>2. Append(todo[ConvOf[m]], m) \in Seq(Message)
  BY <1>1, AppendProperties DEF TypeOK
<1> QED
  BY <1>1, <1>2 DEF TypeOK, EnqueueRun

LEMMA FetchType ==
  ASSUME TypeOK, NEW e \in Executor, Fetch(e)
  PROVE  TypeOK'
<1>1. PICK c \in Conversation :
        /\ todo[c] # <<>>
        /\ todo' = [todo EXCEPT ![c] = Tail(@)]
        /\ doing' = doing \cup {<<Head(todo[c]), fetched[Head(todo[c])] + 1>>}
        /\ fetched' = [fetched EXCEPT ![Head(todo[c])] = @ + 1]
        /\ job' = [job EXCEPT ![e] = <<Head(todo[c]), fetched[Head(todo[c])] + 1>>]
        /\ pc' = [pc EXCEPT ![e] = "start"]
  BY DEF Fetch
<1>2. Head(todo[c]) \in Message /\ Tail(todo[c]) \in Seq(Message)
  BY <1>1, HeadTailProperties DEF TypeOK
<1>3. <<Head(todo[c]), fetched[Head(todo[c])] + 1>> \in Job
  BY <1>2 DEF TypeOK, Job
<1>4. todo' \in [Conversation -> Seq(Message)]
  BY <1>1, <1>2 DEF TypeOK
<1>5. doing' \subseteq Job /\ job' \in [Executor -> Job \cup {NoJob}]
  BY <1>1, <1>3 DEF TypeOK
<1>6. fetched' \in [Message -> Nat]
  BY <1>1, <1>2 DEF TypeOK
<1>7. pc' \in [Executor -> PC]
  BY <1>1 DEF TypeOK, PC
<1> QED
  BY <1>4, <1>5, <1>6, <1>7 DEF TypeOK, Fetch, rows, control, recovery, bounds

\* The run a busy slot works on is a message's.
LEMMA RunOfType ==
  ASSUME NEW e \in Executor, job[e] \in Job
  PROVE  RunOf(e) \in Message /\ ConvOf[RunOf(e)] \in Conversation
BY ConvOfAssumption DEF RunOf, Job

-----------------------------------------------------------------------------
(* Type correctness, one lemma per kind of process.                        *)

LEMMA ControlType ==
  ASSUME TypeOK, NEW m \in Message, StoreTrigger(m) \/ HandOff(m)
  PROVE  TypeOK'
<1>1. CASE StoreTrigger(m)
  BY <1>1 DEF TypeOK, StoreTrigger, RunStatus, ConversationState, queue, recovery, workers, bounds
<1>2. CASE HandOff(m)
  <2>1. todo' \in [Conversation -> Seq(Message)]
    BY <1>2, EnqueueRunType DEF HandOff, TypeOK
  <2> QED
    BY <1>2, <2>1 DEF TypeOK, HandOff, rows, recovery, workers, bounds
<1> QED
  BY <1>1, <1>2

\* A step of execute_run rewrites at most its run's row, its conversation's
\* state, the outbox, the slot's place and the run's history.
RowsAndPlaceType ==
  /\ run' \in [Message -> RunStatus]
  /\ error' \in [Message -> ErrorCode]
  /\ conversation' \in [Conversation -> ConversationState]
  /\ outputs' \subseteq Output
  /\ pc' \in [Executor -> PC]

LEMMA CancelIfStaleType ==
  ASSUME TypeOK, NEW e \in Executor, RunOf(e) \in Message,
         NEW next \in PC, CancelIfStale(e, next)
  PROVE  RowsAndPlaceType
<1> USE DEF TypeOK, CancelIfStale, Goto, rows
<1>1. run' \in [Message -> RunStatus]
  BY DEF Cancel, RunStatus
<1>2. conversation' \in [Conversation -> ConversationState]
  BY DEF SetConversation, ConversationState
<1>3. error' \in [Message -> ErrorCode] /\ outputs' \subseteq Output
  OBVIOUS
<1>4. pc' \in [Executor -> PC]
  BY DEF PC
<1> QED
  BY <1>1, <1>2, <1>3, <1>4 DEF RowsAndPlaceType

LEMMA StartType ==
  ASSUME TypeOK, NEW e \in Executor, RunOf(e) \in Message, Start(e)
  PROVE  RowsAndPlaceType
<1> USE DEF TypeOK, Start, Goto, rows
<1>1. run' \in [Message -> RunStatus]
  BY DEF Cancel, RunStatus
<1>2. conversation' \in [Conversation -> ConversationState]
  BY DEF SetConversation, ConversationState
<1>3. error' \in [Message -> ErrorCode] /\ outputs' \subseteq Output
  OBVIOUS
<1>4. pc' \in [Executor -> PC]
  BY DEF PC
<1> QED
  BY <1>1, <1>2, <1>3, <1>4 DEF RowsAndPlaceType

LEMMA OutcomeType ==
  ASSUME TypeOK, NEW e \in Executor, RunOf(e) \in Message, Commit(e) \/ Fail(e)
  PROVE  RowsAndPlaceType
<1>1. run' \in [Message -> RunStatus]
  <2>1. \/ run' = run
        \/ run' = [run EXCEPT ![RunOf(e)] = "succeeded"]
        \/ run' = [run EXCEPT ![RunOf(e)] = "failed"]
    BY DEF Commit, Fail, rows
  <2> QED
    BY <2>1 DEF TypeOK, RunStatus
<1> USE DEF TypeOK, Commit, Fail, Goto, rows
<1>2. conversation' \in [Conversation -> ConversationState]
  BY DEF SetConversation, ConversationState
<1>3. error' \in [Message -> ErrorCode]
  BY DEF ErrorCode
<1>4. outputs' \subseteq Output
  BY DEF Output
<1>5. pc' \in [Executor -> PC]
  BY DEF PC
<1> QED
  BY <1>1, <1>2, <1>3, <1>4, <1>5 DEF RowsAndPlaceType

LEMMA ExecuteType ==
  ASSUME TypeOK, BusyHasJob, NEW e \in Executor,
         Execute(e) \/ Raise(e) \/ Escape(e)
  PROVE  TypeOK'
<1> USE DEF executing, queue, control, recovery, bounds
<1>1. pc[e] # "idle" => RunOf(e) \in Message
  BY RunOfType DEF BusyHasJob
<1>2. CASE Start(e)
  <2>1. RowsAndPlaceType
    BY <1>1, <1>2, StartType DEF Start
  <2> QED
    BY <1>2, <2>1 DEF TypeOK, Start, RowsAndPlaceType
<1>3. CASE Prepare(e)
  <2>1. RowsAndPlaceType
    BY <1>1, <1>3, CancelIfStaleType DEF Prepare, PC
  <2>2. investigated' \in [Message -> Nat]
    BY <1>1, <1>3 DEF TypeOK, Prepare
  <2> QED
    BY <1>3, <2>1, <2>2 DEF TypeOK, Prepare, CancelIfStale, RowsAndPlaceType
<1>4. CASE Recheck(e)
  <2>1. RowsAndPlaceType
    BY <1>1, <1>4, CancelIfStaleType DEF Recheck, PC
  <2> QED
    BY <1>4, <2>1 DEF TypeOK, Recheck, CancelIfStale, RowsAndPlaceType
<1>5. CASE Commit(e) \/ Fail(e)
  <2>1. RowsAndPlaceType
    BY <1>1, <1>5, OutcomeType DEF Commit, Fail
  <2> QED
    BY <1>5, <2>1 DEF TypeOK, Commit, Fail, RowsAndPlaceType
<1>6. ASSUME NEW kind \in {"answer", "error"}, Submit(e, kind)
      PROVE  TypeOK'
  BY <1>1, <1>6 DEF TypeOK, Submit, PC, Output, rows, Goto
<1>7. CASE FinishJob(e)
  BY <1>7 DEF TypeOK, FinishJob, PC, rows
<1>8. CASE Raise(e)
  BY <1>8 DEF TypeOK, Raise, PC, rows, Goto
<1>9. CASE Escape(e)
  <2>1. pc' \in [Executor -> PC]
    BY <1>9 DEF TypeOK, Escape, Goto, PC
  <2>2. escaped' \subseteq Message
    BY <1>1, <1>9 DEF TypeOK, Escape
  <2> QED
    BY <1>9, <2>1, <2>2 DEF TypeOK, Escape, rows
<1> QED
  BY <1>2, <1>3, <1>4, <1>5, <1>6, <1>7, <1>8, <1>9 DEF Execute

LEMMA RecoverType ==
  ASSUME TypeOK, NEW q \in Recoverer, Recover(q)
  PROVE  TypeOK'
<1> USE DEF recovering, workers, bounds
<1>1. CASE FindStalled(q)
  BY <1>1 DEF TypeOK, FindStalled, Tick, rows, queue
<1>2. ASSUME NEW j \in stalled[q], Finalize(q, j)
      PROVE  TypeOK'
  <2>1. j \in Job /\ j[1] \in Message /\ ConvOf[j[1]] \in Conversation
    BY <1>2, ConvOfAssumption DEF TypeOK, Job
  <2>2. run' \in [Message -> RunStatus]
    <3>1. run' = run \/ run' = [run EXCEPT ![j[1]] = "failed"]
      BY <1>2 DEF Finalize, rows
    <3> QED
      BY <2>1, <3>1 DEF TypeOK, RunStatus
  <2>6. error' \in [Message -> ErrorCode]
    BY <1>2, <2>1 DEF TypeOK, Finalize, ErrorCode, rows
  <2>3. conversation' \in [Conversation -> ConversationState]
    BY <1>2, <2>1 DEF TypeOK, Finalize, SetConversation, ConversationState, rows
  <2>4. outputs' \subseteq Output
    BY <1>2, <2>1 DEF TypeOK, Finalize, Output, rows
  <2>5. tick' \in [Recoverer -> Tick] /\ releasing' \in [Recoverer -> Job \cup {NoJob}]
    BY <1>2, <2>1 DEF TypeOK, Finalize, Tick
  <2> QED
    BY <1>2, <2>2, <2>3, <2>4, <2>5, <2>6 DEF TypeOK, Finalize, queue
<1>3. CASE Release(q)
  <2>1. doing' \subseteq doing
    BY <1>3 DEF Release
  <2>2. tick' \in [Recoverer -> Tick]
    BY <1>3 DEF TypeOK, Release, Tick
  <2>3. /\ stalled' \in [Recoverer -> SUBSET Job]
        /\ releasing' \in [Recoverer -> Job \cup {NoJob}]
    <3>1. stalled \in [Recoverer -> SUBSET Job] /\ releasing \in [Recoverer -> Job \cup {NoJob}]
      BY DEF TypeOK
    <3>2. /\ releasing' = [releasing EXCEPT ![q] = NoJob]
          /\ \/ stalled' = [stalled EXCEPT ![q] = @ \ {releasing[q]}]
             \/ stalled' = [stalled EXCEPT ![q] = {}]
      BY <1>3 DEF Release
    <3> QED
      BY <3>1, <3>2
  <2> QED
    BY <1>3, <2>1, <2>2, <2>3 DEF TypeOK, Release, rows
<1>4. CASE FindPending(q)
  BY <1>4 DEF TypeOK, FindPending, Tick, rows, queue
<1>5. ASSUME NEW m \in pendingRuns[q], ResubmitRun(q, m)
      PROVE  TypeOK'
  <2>1. todo' \in [Conversation -> Seq(Message)]
    BY <1>5, EnqueueRunType DEF ResubmitRun, TypeOK
  <2> QED
    BY <1>5, <2>1 DEF TypeOK, ResubmitRun, Tick, rows
<1>6. CASE ResubmitOutputs(q)
  BY <1>6 DEF TypeOK, ResubmitOutputs, Tick, rows
<1> QED
  BY <1>1, <1>2, <1>3, <1>4, <1>5, <1>6 DEF Recover

LEMMA ProcessType ==
  ASSUME TypeOK, NEW e \in Executor,
         Crash(e) \/ Lapse(e) \/ Resume(e)
  PROVE  TypeOK'
<1> USE BoundsAssumption DEF rows, queue, recovery, control, workers, bounds
<1>1. CASE Crash(e)
  <2>1. pc' \in [Executor -> PC] /\ job' \in [Executor -> Job \cup {NoJob}]
    BY <1>1 DEF TypeOK, Crash, PC
  <2>2. mode' \in [Executor -> Mode]
    BY <1>1 DEF TypeOK, Crash
  <2>3. beat' \in [Executor -> BOOLEAN]
    BY <1>1 DEF TypeOK, Crash
  <2> QED
    BY <1>1, <2>1, <2>2, <2>3 DEF TypeOK, Crash
<1>2. CASE Lapse(e) \/ Resume(e)
  <2>1. beat' \in [Executor -> BOOLEAN]
    BY <1>2 DEF TypeOK, Lapse, Resume
  <2>2. lapses' \in Nat
    BY <1>2 DEF TypeOK, Lapse, Resume
  <2> QED
    BY <1>2, <2>1, <2>2 DEF TypeOK, Lapse, Resume
<1> QED
  BY <1>1, <1>2

LEMMA ControlCrashType ==
  ASSUME TypeOK, ControlCrash
  PROVE  TypeOK'
BY DEF TypeOK, ControlCrash, Tick, rows, queue, workers

-----------------------------------------------------------------------------
(* The inductive invariant, and the step of the contract each action is.   *)

ContractStep == Contract!Next \/ UNCHANGED Contract!vars

\* Most actions move jobs and lists about and touch nothing the contract sees.
Quiet == UNCHANGED <<run, error, outputs, investigated, pc, job>>

LEMMA QuietStep ==
  ASSUME IInv, TypeOK', Quiet
  PROVE  IInv' /\ ContractStep
<1> USE DEF IInv, Quiet
<1>1. BusyHasJob' /\ EngagedRunIsStarted' /\ EngagedAlone'
  BY DEF BusyHasJob, EngagedRunIsStarted, EngagedAlone, Engaged, RunOf
<1>2. InvestigatedInOrder' /\ OutputMatchesOutcome'
  BY DEF InvestigatedInOrder, OutputMatchesOutcome, RunOf
<1> QED
  BY <1>1, <1>2 DEF ContractStep, Contract!vars

LEMMA StoreTriggerStep ==
  ASSUME IInv, TypeOK', NEW m \in Message, StoreTrigger(m)
  PROVE  IInv' /\ ContractStep
<1> USE DEF IInv, StoreTrigger, TypeOK, workers
<1>1. BusyHasJob'
  BY DEF BusyHasJob
<1>2. EngagedRunIsStarted'
  BY RunOfType DEF BusyHasJob, EngagedRunIsStarted, Engaged, RunOf
<1>3. EngagedAlone'
  BY DEF EngagedAlone, Engaged, RunOf
<1>4. InvestigatedInOrder'
  BY DEF InvestigatedInOrder, RunOf
<1>5. OutputMatchesOutcome'
  BY DEF OutputMatchesOutcome
<1>6. Contract!Store(m)
  BY DEF Contract!Store
<1> QED
  BY <1>1, <1>2, <1>3, <1>4, <1>5, <1>6 DEF ContractStep, Contract!Next

LEMMA FetchStep ==
  ASSUME IInv, TypeOK', NEW e \in Executor, Fetch(e)
  PROVE  IInv' /\ ContractStep
<1>1. PICK j :
        /\ pc[e] = "idle"
        /\ job' = [job EXCEPT ![e] = j] /\ pc' = [pc EXCEPT ![e] = "start"]
        /\ j \in doing'
        /\ UNCHANGED <<run, error, outputs, investigated>>
  BY DEF Fetch, rows
<1> USE <1>1 DEF IInv, TypeOK
<1>2. BusyHasJob'
  BY DEF BusyHasJob
<1>3. EngagedRunIsStarted' /\ EngagedAlone'
  BY DEF EngagedRunIsStarted, EngagedAlone, Engaged, RunOf
<1>4. InvestigatedInOrder'
  BY DEF InvestigatedInOrder, RunOf
<1>5. OutputMatchesOutcome'
  BY DEF OutputMatchesOutcome
<1> QED
  BY <1>2, <1>3, <1>4, <1>5 DEF ContractStep, Contract!vars

\* A slot moves on without touching a row, and is engaged only if it was.
LEMMA SlotMovesStep ==
  ASSUME IInv, TypeOK', NEW e \in Executor,
         UNCHANGED <<run, error, outputs, investigated>>,
         \A f \in Executor \ {e} : pc'[f] = pc[f] /\ job'[f] = job[f],
         \/ pc'[e] = "idle"
         \/ pc[e] # "idle" /\ job'[e] = job[e]
            /\ pc'[e] \notin {"prepare", "investigate", "commit"}
            /\ (pc'[e] = "fail" => Engaged(e))
         \/ pc[e] = "investigate" /\ job'[e] = job[e] /\ pc'[e] = "commit"
  PROVE  IInv' /\ ContractStep
<1> USE DEF IInv, TypeOK
<1>1. BusyHasJob'
  BY DEF BusyHasJob
<1>2. ASSUME NEW f \in Executor, Engaged(f)'
      PROVE  Engaged(f) /\ RunOf(f)' = RunOf(f)
  BY <1>2 DEF Engaged, RunOf
<1>3. EngagedRunIsStarted' /\ EngagedAlone'
  BY <1>2 DEF EngagedRunIsStarted, EngagedAlone
<1>4. InvestigatedInOrder'
  <2>1. ASSUME NEW f \in Executor, pc'[f] \in {"prepare", "investigate", "commit"}
        PROVE  /\ RunOf(f)' = RunOf(f)
               /\ IF pc'[f] = "prepare" THEN pc[f] = "prepare" ELSE pc[f] \in {"investigate", "commit"}
    BY <2>1 DEF RunOf
  <2> HIDE DEF TypeOK
  <2> QED
    BY <2>1 DEF InvestigatedInOrder
<1>5. OutputMatchesOutcome'
  BY DEF OutputMatchesOutcome
<1> QED
  BY <1>1, <1>3, <1>4, <1>5 DEF ContractStep, Contract!vars

\* An open run is closed, by the slot that is engaged with it, by a slot that
\* never engaged with it, or by the recovery; engaged slots stay or disengage.
LEMMA RunClosesStep ==
  ASSUME IInv, TypeOK', NEW m \in Message, NEW status \in Terminal,
         run[m] \in {"queued", "running"},
         run' = [run EXCEPT ![m] = status],
         UNCHANGED <<job, investigated>>,
         \A f \in Executor : pc'[f] \in {pc[f], "finish", "submit_answer", "submit_error", "fail"},
         \A f \in Executor : pc[f] = "idle" => pc'[f] = "idle",
         \A f \in Executor : pc'[f] = "fail" => Engaged(f)
  PROVE  BusyHasJob' /\ EngagedRunIsStarted' /\ EngagedAlone' /\ InvestigatedInOrder'
<1> USE DEF IInv, TypeOK, Terminal
<1>1. BusyHasJob'
  BY DEF BusyHasJob
<1>2. ASSUME NEW f \in Executor, Engaged(f)'
      PROVE  Engaged(f) /\ RunOf(f)' = RunOf(f) /\ RunOf(f) \in Message
  BY <1>2, RunOfType DEF Engaged, RunOf, BusyHasJob
<1>3. EngagedRunIsStarted' /\ EngagedAlone'
  BY <1>2 DEF EngagedRunIsStarted, EngagedAlone
<1>4. InvestigatedInOrder'
  BY DEF InvestigatedInOrder, RunOf
<1> QED
  BY <1>1, <1>3, <1>4

\* What cancelling, answering and failing a run do to the outbox.
LEMMA RunClosesOutput ==
  ASSUME IInv, NEW m \in Message, run[m] \in {"queued", "running"},
         \/ run' = [run EXCEPT ![m] = "cancelled"] /\ outputs' = outputs
         \/ run' = [run EXCEPT ![m] = "succeeded"] /\ outputs' = outputs \cup {<<m, "answer">>}
         \/ run' = [run EXCEPT ![m] = "failed"]
            /\ outputs' \in {outputs, outputs \cup {<<m, "error">>}}
  PROVE  OutputMatchesOutcome'
<1> USE DEF IInv, TypeOK, OutputMatchesOutcome
<1> SUFFICES ASSUME NEW n \in Message
             PROVE  /\ <<n, "answer">> \in outputs' <=> run'[n] = "succeeded"
                    /\ <<n, "error">> \in outputs' => run'[n] = "failed"
  OBVIOUS
<1>1. CASE n # m
  BY <1>1
<1>2. CASE n = m
  <2>1. <<m, "answer">> \notin outputs /\ <<m, "error">> \notin outputs
    OBVIOUS
  <2> QED
    BY <1>2, <2>1
<1> QED
  BY <1>1, <1>2

LEMMA StartStep ==
  ASSUME IInv, TypeOK', NEW e \in Executor, Start(e)
  PROVE  IInv' /\ ContractStep
<1> DEFINE m == RunOf(e)
<1>1. pc[e] = "start" /\ m \in Message /\ UNCHANGED <<job, mode, investigated>>
  BY RunOfType DEF Start, IInv, BusyHasJob, executing
<1>2. CASE run[m] # "queued"
  BY <1>1, <1>2, SlotMovesStep DEF Start, Goto, rows, IInv, TypeOK
<1>3. CASE run[m] = "queued" /\ (mode[e] = "off" \/ Newer(run, m))
  <2>1. /\ run' = [run EXCEPT ![m] = "cancelled"]
        /\ pc' = [pc EXCEPT ![e] = "finish"]
        /\ UNCHANGED <<error, outputs>>
    BY <1>3 DEF Start, Goto, Cancel
  <2>2. BusyHasJob' /\ EngagedRunIsStarted' /\ EngagedAlone' /\ InvestigatedInOrder'
    BY <1>1, <1>3, <2>1, RunClosesStep DEF IInv, TypeOK, Terminal, Engaged
  <2>3. OutputMatchesOutcome'
    BY <1>1, <1>3, <2>1, RunClosesOutput
  <2>4. Contract!Cancel(m)
    BY <1>1, <1>3, <2>1 DEF Contract!Cancel, Contract!Newer, Newer, IInv, TypeOK
  <2> QED
    BY <1>1, <2>2, <2>3, <2>4 DEF IInv, ContractStep, Contract!Next
<1>4. CASE run[m] = "queued" /\ ~(mode[e] = "off" \/ Newer(run, m))
  <2>1. /\ run' = [run EXCEPT ![m] = "running"]
        /\ pc' = [pc EXCEPT ![e] = "prepare"]
        /\ UNCHANGED <<error, outputs>>
    BY <1>4 DEF Start, Goto, Cancel
  <2> USE <1>1, <1>4, <2>1 DEF IInv, TypeOK
  <2>2. BusyHasJob'
    BY DEF BusyHasJob
  <2>3. ASSUME NEW f \in Executor, Engaged(f)', f # e
        PROVE  Engaged(f) /\ RunOf(f)' = RunOf(f) /\ RunOf(f) \in Message \ {m}
    BY <2>3, RunOfType DEF Engaged, RunOf, EngagedRunIsStarted, BusyHasJob
  <2>8. RunOf(e)' = m /\ run'[m] = "running"
    BY DEF RunOf
  <2>9. EngagedRunIsStarted'
    <3>1. ASSUME NEW f \in Executor, Engaged(f)', f # e
          PROVE  run'[RunOf(f)'] \notin {"absent", "queued"}
      <4>1. run'[RunOf(f)] = run[RunOf(f)] /\ RunOf(f)' = RunOf(f) /\ Engaged(f)
        BY <2>3, <3>1
      <4> HIDE DEF TypeOK
      <4> QED
        BY <4>1 DEF EngagedRunIsStarted
    <3> HIDE DEF TypeOK
    <3> QED
      BY <2>8, <3>1 DEF EngagedRunIsStarted
  <2>4. EngagedAlone'
    BY <2>3, <2>8 DEF EngagedAlone
  <2>5. InvestigatedInOrder'
    BY DEF InvestigatedInOrder, RunOf
  <2>6. OutputMatchesOutcome'
    BY DEF OutputMatchesOutcome
  <2>7. Contract!Begin(m)
    BY DEF Contract!Begin
  <2> QED
    BY <2>2, <2>4, <2>5, <2>6, <2>7, <2>9 DEF ContractStep, Contract!Next
<1> QED
  BY <1>2, <1>3, <1>4

\* _cancel_if_stale: the run is found closed, closed as cancelled, or kept.
FoundClosed(e) ==
  pc' = [pc EXCEPT ![e] = "finish"] /\ run' = run

CancelledStale(e) ==
  /\ pc' = [pc EXCEPT ![e] = "finish"]
  /\ run[RunOf(e)] \in {"queued", "running"}
  /\ run' = [run EXCEPT ![RunOf(e)] = "cancelled"]
  /\ Newer(run, RunOf(e)) \/ mode[e] = "off"

KeptOpen(e, next) ==
  /\ pc' = [pc EXCEPT ![e] = next]
  /\ run[RunOf(e)] \in {"queued", "running"}
  /\ run' = run

LEMMA CancelIfStaleCases ==
  ASSUME IInv, NEW e \in Executor, pc[e] # "idle", NEW next, CancelIfStale(e, next)
  PROVE  /\ RunOf(e) \in Message
         /\ UNCHANGED <<error, outputs, job>>
         /\ FoundClosed(e) \/ CancelledStale(e) \/ KeptOpen(e, next)
<1>1. RunOf(e) \in Message
  BY RunOfType DEF IInv, BusyHasJob
<1> QED
  BY <1>1 DEF CancelIfStale, Cancel, Goto, executing, rows, FoundClosed, CancelledStale, KeptOpen

LEMMA CancelledStaleStep ==
  ASSUME IInv, TypeOK', NEW e \in Executor, pc[e] # "idle",
         RunOf(e) \in Message,
         UNCHANGED <<error, outputs, job, investigated>>, CancelledStale(e)
  PROVE  IInv' /\ ContractStep
<1> USE DEF CancelledStale
<1>1. BusyHasJob' /\ EngagedRunIsStarted' /\ EngagedAlone' /\ InvestigatedInOrder'
  BY RunClosesStep DEF IInv, TypeOK, Terminal, Engaged
<1>2. OutputMatchesOutcome'
  BY RunClosesOutput
<1>3. Contract!Cancel(RunOf(e))
  BY DEF Contract!Cancel, Contract!Newer, Newer, IInv, TypeOK
<1> QED
  BY <1>1, <1>2, <1>3 DEF IInv, ContractStep, Contract!Next

LEMMA RecheckStep ==
  ASSUME IInv, TypeOK', NEW e \in Executor, Recheck(e)
  PROVE  IInv' /\ ContractStep
<1>1. pc[e] = "investigate" /\ CancelIfStale(e, "commit") /\ investigated' = investigated
  BY DEF Recheck
<1>2. /\ RunOf(e) \in Message
      /\ UNCHANGED <<error, outputs, job>>
      /\ FoundClosed(e) \/ CancelledStale(e) \/ KeptOpen(e, "commit")
  BY <1>1, CancelIfStaleCases
<1>3. CASE FoundClosed(e) \/ KeptOpen(e, "commit")
  BY <1>1, <1>2, <1>3, SlotMovesStep DEF FoundClosed, KeptOpen, IInv, TypeOK
<1>4. CASE CancelledStale(e)
  BY <1>1, <1>2, <1>4, CancelledStaleStep
<1> QED
  BY <1>2, <1>3, <1>4

\* The step that invokes the runner: nobody else is engaged with the run.
LEMMA PrepareStep ==
  ASSUME IInv, TypeOK', NEW e \in Executor, Prepare(e)
  PROVE  IInv' /\ ContractStep
<1> DEFINE m == RunOf(e)
<1>1. pc[e] = "prepare" /\ CancelIfStale(e, "investigate")
  BY DEF Prepare
<1>2. /\ m \in Message
      /\ UNCHANGED <<error, outputs, job>>
      /\ FoundClosed(e) \/ CancelledStale(e) \/ KeptOpen(e, "investigate")
  BY <1>1, CancelIfStaleCases
<1>3. CASE FoundClosed(e) \/ CancelledStale(e)
  <2>1. investigated' = investigated
    BY <1>3 DEF Prepare, FoundClosed, CancelledStale, IInv, TypeOK
  <2> QED
    BY <1>1, <1>2, <1>3, <2>1, SlotMovesStep, CancelledStaleStep DEF FoundClosed, IInv, TypeOK
<1>4. CASE KeptOpen(e, "investigate")
  <2>1. /\ pc' = [pc EXCEPT ![e] = "investigate"] /\ run' = run
        /\ investigated' = [investigated EXCEPT ![m] = @ + 1]
    BY <1>1, <1>4 DEF Prepare, KeptOpen, IInv, TypeOK
  <2>2. run[m] = "running" /\ investigated[m] = 0
    BY <1>1, <1>4 DEF KeptOpen, IInv, EngagedRunIsStarted, InvestigatedInOrder, Engaged
  <2> USE <1>1, <1>2, <2>1, <2>2 DEF IInv, TypeOK
  <2>3. BusyHasJob' /\ OutputMatchesOutcome'
    BY DEF BusyHasJob, OutputMatchesOutcome
  <2>4. ASSUME NEW f \in Executor
        PROVE  RunOf(f)' = RunOf(f) /\ (Engaged(f)' <=> Engaged(f))
    BY DEF Engaged, RunOf
  <2>5. EngagedRunIsStarted' /\ EngagedAlone'
    BY <2>4 DEF EngagedRunIsStarted, EngagedAlone
  <2>6. ASSUME NEW f \in Executor, f # e, Engaged(f)
        PROVE  RunOf(f) \in Message \ {m} /\ pc'[f] = pc[f]
    BY <2>6, RunOfType DEF EngagedAlone, Engaged, BusyHasJob
  <2>7. InvestigatedInOrder'
    BY <2>4, <2>6 DEF InvestigatedInOrder, Engaged
  <2>8. Contract!Investigate(m)
    BY DEF Contract!Investigate
  <2> QED
    BY <2>3, <2>5, <2>7, <2>8 DEF ContractStep, Contract!Next
<1> QED
  BY <1>2, <1>3, <1>4

LEMMA CommitStep ==
  ASSUME IInv, TypeOK', NEW e \in Executor, Commit(e)
  PROVE  IInv' /\ ContractStep
<1> DEFINE m == RunOf(e)
<1>1. pc[e] = "commit" /\ m \in Message /\ UNCHANGED <<job, investigated>>
  BY RunOfType DEF Commit, IInv, BusyHasJob, executing
<1>2. CASE run[m] # "running"
  BY <1>1, <1>2, SlotMovesStep DEF Commit, Goto, rows, IInv, TypeOK
<1>3. CASE run[m] = "running"
  <2>1. /\ run' = [run EXCEPT ![m] = "succeeded"]
        /\ pc' = [pc EXCEPT ![e] = "submit_answer"] \/ pc' = [pc EXCEPT ![e] = "fail"]
        /\ outputs' = outputs \cup {<<m, "answer">>}
        /\ UNCHANGED error
    BY <1>3 DEF Commit, Goto
  <2>2. BusyHasJob' /\ EngagedRunIsStarted' /\ EngagedAlone' /\ InvestigatedInOrder'
    BY <1>1, <1>3, <2>1, RunClosesStep DEF IInv, TypeOK, Terminal, Engaged
  <2>3. OutputMatchesOutcome'
    BY <1>1, <1>3, <2>1, RunClosesOutput
  <2>4. Contract!Succeed(m)
    BY <1>1, <1>3, <2>1 DEF Contract!Succeed, IInv, InvestigatedInOrder
  <2> QED
    BY <1>1, <2>2, <2>3, <2>4 DEF IInv, ContractStep, Contract!Next
<1> QED
  BY <1>2, <1>3

LEMMA FailStep ==
  ASSUME IInv, TypeOK', NEW e \in Executor, Fail(e)
  PROVE  IInv' /\ ContractStep
<1> DEFINE m == RunOf(e)
<1>1. pc[e] = "fail" /\ m \in Message /\ UNCHANGED <<job, investigated>>
  BY RunOfType DEF Fail, IInv, BusyHasJob, executing
<1>2. CASE run[m] # "running"
  BY <1>1, <1>2, SlotMovesStep DEF Fail, Goto, rows, IInv, TypeOK
<1>3. CASE run[m] = "running"
  <2>1. /\ run' = [run EXCEPT ![m] = "failed"]
        /\ pc' = [pc EXCEPT ![e] = "submit_error"] \/ pc' = [pc EXCEPT ![e] = "finish"]
        /\ outputs' = outputs \cup {<<m, "error">>}
        /\ error' = [error EXCEPT ![m] = "runner_error"]
    BY <1>3 DEF Fail, Goto
  <2>2. BusyHasJob' /\ EngagedRunIsStarted' /\ EngagedAlone' /\ InvestigatedInOrder'
    BY <1>1, <1>3, <2>1, RunClosesStep DEF IInv, TypeOK, Terminal, Engaged
  <2>3. OutputMatchesOutcome'
    BY <1>1, <1>3, <2>1, RunClosesOutput
  <2>4. Contract!Fail(m, "runner_error")
    BY <1>1, <1>3, <2>1 DEF Contract!Fail
  <2> QED
    BY <1>1, <2>2, <2>3, <2>4
    DEF IInv, ContractStep, Contract!Next, Contract!ErrorCode
<1> QED
  BY <1>2, <1>3

LEMMA FinalizeStep ==
  ASSUME IInv, TypeOK', NEW q \in Recoverer, NEW j \in stalled[q], Finalize(q, j)
  PROVE  IInv' /\ ContractStep
<1> DEFINE m == j[1]
<1>1. m \in Message /\ UNCHANGED <<pc, job, investigated>>
  BY DEF Finalize, IInv, TypeOK, Job, recovering, workers
<1>2. CASE run[m] # "running"
  BY <1>1, <1>2, QuietStep DEF Finalize, Quiet, rows
<1>3. CASE run[m] = "running"
  <2>1. /\ run' = [run EXCEPT ![m] = "failed"]
        /\ error' = [error EXCEPT ![m] = "worker_interrupted"]
        /\ \/ outputs' = outputs \cup {<<m, "error">>}
           \/ controlMode # "enabled" /\ outputs' = outputs
    BY <1>3 DEF Finalize
  <2>2. BusyHasJob' /\ EngagedRunIsStarted' /\ EngagedAlone' /\ InvestigatedInOrder'
    BY <1>1, <1>3, <2>1, RunClosesStep DEF IInv, TypeOK, Terminal, Engaged
  <2>3. OutputMatchesOutcome'
    BY <1>1, <1>3, <2>1, RunClosesOutput
  <2>4. Contract!Fail(m, "worker_interrupted")
    BY <1>1, <1>3, <2>1, ModeAssumption DEF Contract!Fail, IInv, TypeOK
  <2> QED
    BY <1>1, <2>2, <2>3, <2>4
    DEF IInv, ContractStep, Contract!Next, Contract!ErrorCode
<1> QED
  BY <1>2, <1>3

-----------------------------------------------------------------------------
(* The theorems.                                                           *)

LEMMA TypeStep ==
  ASSUME TypeOK, BusyHasJob, [Next]_vars
  PROVE  TypeOK'
<1>1. CASE UNCHANGED vars
  BY <1>1 DEF vars, rows, queue, control, recovery, workers, bounds, TypeOK
<1>2. CASE \E m \in Message : StoreTrigger(m) \/ HandOff(m)
  BY <1>2, ControlType
<1>3. ASSUME NEW e \in Executor,
             \/ Fetch(e) \/ Execute(e) \/ Raise(e) \/ Escape(e)
             \/ Crash(e) \/ Lapse(e) \/ Resume(e)
      PROVE  TypeOK'
  BY <1>3, FetchType, ExecuteType, ProcessType
<1>4. CASE \E q \in Recoverer : Recover(q)
  BY <1>4, RecoverType
<1>5. CASE ControlCrash
  BY <1>5, ControlCrashType
<1> QED
  BY <1>1, <1>2, <1>3, <1>4, <1>5 DEF Next

LEMMA InvariantStep ==
  ASSUME IInv, [Next]_vars
  PROVE  IInv' /\ ContractStep
<1>1. TypeOK'
  BY TypeStep DEF IInv
<1> USE <1>1
<1>2. CASE UNCHANGED vars
  BY <1>2, QuietStep DEF vars, rows, workers, Quiet
<1>3. ASSUME NEW m \in Message, StoreTrigger(m) \/ HandOff(m)
      PROVE  IInv' /\ ContractStep
  BY <1>3, StoreTriggerStep, QuietStep DEF HandOff, Quiet, rows, workers
<1>4. ASSUME NEW e \in Executor, Execute(e)
      PROVE  IInv' /\ ContractStep
  <2>1. CASE Start(e) \/ Prepare(e) \/ Recheck(e) \/ Commit(e) \/ Fail(e)
    BY <2>1, StartStep, PrepareStep, RecheckStep, CommitStep, FailStep
  <2>2. ASSUME NEW kind \in {"answer", "error"}, Submit(e, kind)
        PROVE  IInv' /\ ContractStep
    BY <2>2, SlotMovesStep DEF Submit, Goto, rows, IInv, TypeOK
  <2>3. CASE FinishJob(e)
    BY <2>3, SlotMovesStep DEF FinishJob, rows, IInv, TypeOK
  <2> QED
    BY <1>4, <2>1, <2>2, <2>3 DEF Execute
<1>5. ASSUME NEW e \in Executor, Raise(e) \/ Escape(e)
      PROVE  IInv' /\ ContractStep
  BY <1>5, SlotMovesStep
  DEF Raise, Escape, Goto, rows, executing, IInv, TypeOK, Engaged
<1>6. ASSUME NEW e \in Executor, Fetch(e)
      PROVE  IInv' /\ ContractStep
  BY <1>6, FetchStep
<1>7. ASSUME NEW e \in Executor, Crash(e)
      PROVE  IInv' /\ ContractStep
  BY <1>7, SlotMovesStep DEF Crash, rows, IInv, TypeOK
<1>8. ASSUME NEW e \in Executor, Lapse(e) \/ Resume(e)
      PROVE  IInv' /\ ContractStep
  BY <1>8, QuietStep DEF Lapse, Resume, Quiet, rows
<1>9. ASSUME NEW q \in Recoverer, Recover(q)
      PROVE  IInv' /\ ContractStep
  <2>1. ASSUME NEW j \in stalled[q], Finalize(q, j)
        PROVE  IInv' /\ ContractStep
    BY <2>1, FinalizeStep
  <2>2. ASSUME \/ FindStalled(q) \/ Release(q) \/ FindPending(q) \/ ResubmitOutputs(q)
               \/ \E m \in pendingRuns[q] : ResubmitRun(q, m)
        PROVE  IInv' /\ ContractStep
    BY <2>2, QuietStep
    DEF FindStalled, Release, FindPending, ResubmitOutputs, ResubmitRun, recovering, rows,
        workers, Quiet
  <2> QED
    BY <1>9, <2>1, <2>2 DEF Recover
<1>10. CASE ControlCrash
  BY <1>10, QuietStep DEF ControlCrash, rows, workers, Quiet
<1> QED
  BY <1>2, <1>3, <1>4, <1>5, <1>6, <1>7, <1>8, <1>9, <1>10 DEF Next

LEMMA InitInvariant == Init => IInv /\ Contract!Init
<1> SUFFICES ASSUME Init PROVE IInv /\ Contract!Init
  OBVIOUS
<1> USE DEF Init
<1>1. TypeOK
  BY BoundsAssumption
  DEF TypeOK, RunStatus, ErrorCode, ConversationState, PC, Tick
<1>2. BusyHasJob /\ EngagedRunIsStarted /\ EngagedAlone /\ InvestigatedInOrder
  BY DEF BusyHasJob, EngagedRunIsStarted, EngagedAlone, InvestigatedInOrder, Engaged
<1>3. OutputMatchesOutcome
  BY DEF OutputMatchesOutcome
<1> QED
  BY <1>1, <1>2, <1>3 DEF IInv, Contract!Init

\* Every reachable state of the workers, the queue and the recovery is well
\* typed, slots that may write a run's row hold it alone, and the outbox says
\* what the run says.
THEOREM Invariance == Spec => []IInv
<1>1. IInv /\ [Next]_vars => IInv'
  BY InvariantStep
<1> QED
  BY <1>1, InitInvariant, PTL DEF Spec

\* The variables keep their types.
THEOREM TypeCorrect == Spec => []TypeOK
<1>1. IInv => TypeOK
  BY DEF IInv
<1> QED
  BY <1>1, Invariance, PTL

\* An answer exists exactly for succeeded runs and an error reply only for
\* failed ones: success, failure handler and recovery never both win.
THEOREM OutboxCorrect == Spec => []OutputMatchesOutcome
<1>1. IInv => OutputMatchesOutcome
  BY DEF IInv
<1> QED
  BY <1>1, Invariance, PTL

\* execute_run on any number of workers, with crashes, lapsed heartbeats and
\* any number of recovery ticks, implements the contract of a run.
THEOREM Refinement == Spec => ImplementsContract
<1>1. Init => Contract!Init
  BY InitInvariant
<1>2. IInv /\ [Next]_vars => [Contract!Next]_(Contract!vars)
  BY InvariantStep DEF ContractStep
<1> QED
  BY <1>1, <1>2, Invariance, PTL DEF Spec, ImplementsContract, Contract!Spec

-----------------------------------------------------------------------------
(* Ownership.                                                              *)

\* No row becomes or stops being running, no job starts or ends, and the
\* recoveries' lists only shrink.
OwnQuiet ==
  /\ \A m \in Message : run'[m] = "running" <=> run[m] = "running"
  /\ UNCHANGED <<doing, fetched, pc, job, beat, escaped, lapses>>
  /\ \A q \in Recoverer :
       /\ stalled'[q] \subseteq stalled[q]
       /\ tick'[q] = "release" =>
            tick[q] = "release" /\ releasing'[q] = releasing[q] /\ stalled'[q] = stalled[q]

LEMMA OwnQuietStep ==
  ASSUME IInv, OwnInv, OwnQuiet
  PROVE  OwnInv'
<1> USE DEF IInv, TypeOK, OwnInv, OwnQuiet
<1>1. JobIds' /\ OneJobPerConversation' /\ HeldJobsInProgress'
  BY DEF JobIds, OneJobPerConversation, HeldJobsInProgress
<1>2. ASSUME NEW e \in Executor, pc[e] # "idle"
      PROVE  RunOf(e) \in Message /\ RunOf(e)' = RunOf(e)
  BY <1>2, RunOfType DEF BusyHasJob, RunOf
<1>3. DetachedRunIsNotRunning'
  BY <1>2 DEF DetachedRunIsNotRunning, Engaged
<1>4. StalledAreDead'
  <2>1. ASSUME NEW q \in Recoverer, tick[q] = "release"
        PROVE  releasing[q][1] \in Message
    BY <2>1 DEF StalledAreDead, Job
  <2> QED
    BY <2>1 DEF StalledAreDead, Holds
<1>5. RunningRunIsOwned'
  BY DEF RunningRunIsOwned
<1> QED
  BY <1>1, <1>3, <1>4, <1>5

\* A busy slot moves on with its job and may rewrite its own run's row.
LEMMA OwnSlotStep ==
  ASSUME IInv, OwnInv, NEW e \in Executor, pc[e] # "idle", pc'[e] # "idle",
         UNCHANGED <<doing, fetched, job, beat, lapses, tick, stalled, releasing>>,
         \A f \in Executor \ {e} : pc'[f] = pc[f],
         \A n \in Message \ {RunOf(e)} : run'[n] = run[n],
         escaped \subseteq escaped',
         Engaged(e)' \/ run'[RunOf(e)] # "running" \/ RunOf(e) \in escaped'
  PROVE  OwnInv'
<1> USE DEF IInv, TypeOK, OwnInv
<1>1. JobIds' /\ OneJobPerConversation'
  BY DEF JobIds, OneJobPerConversation
<1>7. ASSUME NEW f \in Executor
      PROVE  pc'[f] = "idle" <=> pc[f] = "idle"
  OBVIOUS
<1>8. HeldJobsInProgress'
  BY <1>7 DEF HeldJobsInProgress
<1>2. job[e] \in doing /\ job[e][1] = RunOf(e)
  BY DEF HeldJobsInProgress, RunOf
\* The only job in progress for this run is the slot's own.
<1>3. ASSUME NEW j \in doing, j[1] = RunOf(e)
      PROVE  j = job[e]
  <2>1. ConvOf[j[1]] = ConvOf[job[e][1]]
    BY <1>2, <1>3
  <2> HIDE DEF TypeOK, IInv
  <2> QED
    BY <1>2, <1>3, <2>1 DEF OneJobPerConversation
<1>4. DetachedRunIsNotRunning'
  <2>1. ASSUME NEW f \in Executor \ {e}, pc[f] # "idle"
        PROVE  RunOf(f) \in Message \ {RunOf(e)} /\ RunOf(f)' = RunOf(f)
    <3>1. job[f] \in doing /\ job[f] # job[e]
      BY <2>1 DEF HeldJobsInProgress
    <3>2. RunOf(f) # RunOf(e)
      BY <1>3, <3>1 DEF RunOf
    <3> QED
      BY <2>1, <3>1, <3>2, RunOfType DEF RunOf
  <2>2. RunOf(e)' = RunOf(e)
    BY DEF RunOf
  <2>3. ASSUME NEW f \in Executor, pc'[f] # "idle", ~Engaged(f)', f # e
        PROVE  run'[RunOf(f)'] # "running" \/ RunOf(f)' \in escaped'
    <3>1. run[RunOf(f)] # "running" \/ RunOf(f) \in escaped
      BY <2>3 DEF DetachedRunIsNotRunning, Engaged
    <3> QED
      BY <2>1, <2>3, <3>1
  <2> QED
    BY <2>2, <2>3 DEF DetachedRunIsNotRunning
<1>5. StalledAreDead'
  <2>1. ASSUME NEW f \in Executor, NEW j PROVE Holds(f, j)' <=> Holds(f, j)
    BY DEF Holds
  <2>2. ASSUME NEW q \in Recoverer, tick[q] = "release", releasing[q] \in doing
        PROVE  releasing[q][1] \in Message \ {RunOf(e)}
    BY <1>3, <2>2 DEF StalledAreDead, Holds, Job
  <2> QED
    BY <2>1, <2>2 DEF StalledAreDead
<1>6. RunningRunIsOwned'
  BY <1>2 DEF RunningRunIsOwned
<1> QED
  BY <1>1, <1>4, <1>5, <1>6, <1>8

\* A lock's queue holds jobs of its own conversation only.
QueuedInPlace ==
  \A c \in Conversation : \A i \in 1..Len(todo[c]) : ConvOf[todo[c][i]] = c

LEMMA EnqueueInPlace ==
  ASSUME TypeOK, QueuedInPlace, NEW m \in Message, EnqueueRun(m)
  PROVE  QueuedInPlace'
<1> USE DEF TypeOK, QueuedInPlace
<1>1. CASE todo' = todo
  BY <1>1
<1>2. CASE todo' = [todo EXCEPT ![ConvOf[m]] = Append(@, m)]
  <2>1. ASSUME NEW c \in Conversation, c # ConvOf[m]
        PROVE  todo'[c] = todo[c]
    BY <1>2, <2>1
  <2>2. /\ ConvOf[m] \in Conversation
        /\ todo'[ConvOf[m]] = Append(todo[ConvOf[m]], m)
        /\ todo[ConvOf[m]] \in Seq(Message)
    BY <1>2, ConvOfAssumption
  <2>3. ASSUME NEW i \in 1..Len(todo'[ConvOf[m]])
        PROVE  ConvOf[todo'[ConvOf[m]][i]] = ConvOf[m]
    BY <2>2, AppendProperties
  <2> QED
    BY <2>1, <2>3
<1> QED
  BY <1>1, <1>2 DEF EnqueueRun

LEMMA FetchInPlace ==
  ASSUME TypeOK, QueuedInPlace, NEW e \in Executor, Fetch(e)
  PROVE  QueuedInPlace'
<1> USE DEF TypeOK, QueuedInPlace
<1>1. PICK c \in Conversation : todo[c] # <<>> /\ todo' = [todo EXCEPT ![c] = Tail(@)]
  BY DEF Fetch
<1>2. todo[c] \in Seq(Message) /\ todo'[c] = Tail(todo[c])
  BY <1>1
<1>3. ASSUME NEW i \in 1..Len(todo'[c])
      PROVE  i + 1 \in 1..Len(todo[c]) /\ todo'[c][i] = todo[c][i + 1]
  BY <1>1, <1>2, <1>3, HeadTailProperties
<1> QED
  BY <1>1, <1>3

LEMMA QueuedInPlaceStep ==
  ASSUME TypeOK, QueuedInPlace, [Next]_vars
  PROVE  QueuedInPlace'
<1>1. CASE todo' = todo
  BY <1>1 DEF QueuedInPlace
<1>2. ASSUME NEW m \in Message, HandOff(m)
      PROVE  QueuedInPlace'
  BY <1>1, <1>2, EnqueueInPlace DEF HandOff
<1>3. ASSUME NEW q \in Recoverer, NEW m \in pendingRuns[q], ResubmitRun(q, m)
      PROVE  QueuedInPlace'
  BY <1>3, EnqueueInPlace DEF ResubmitRun, TypeOK
<1>4. ASSUME NEW e \in Executor, Fetch(e)
      PROVE  QueuedInPlace'
  BY <1>4, FetchInPlace
<1>5. CASE UNCHANGED vars
  BY <1>1, <1>5 DEF vars, queue
<1>6. ASSUME NEW e \in Executor,
             Execute(e) \/ Raise(e) \/ Escape(e) \/ Crash(e) \/ Lapse(e) \/ Resume(e)
      PROVE  todo' = todo
  BY <1>6
  DEF Execute, Start, Prepare, Recheck, CancelIfStale, Commit, Fail, Submit, FinishJob, Raise,
      Escape, Crash, Lapse, Resume, executing, queue
<1>7. ASSUME NEW q \in Recoverer,
             \/ FindStalled(q) \/ Release(q) \/ FindPending(q) \/ ResubmitOutputs(q)
             \/ \E j \in stalled[q] : Finalize(q, j)
      PROVE  todo' = todo
  BY <1>7 DEF FindStalled, Release, FindPending, ResubmitOutputs, Finalize, queue
<1>8. ASSUME (\E m \in Message : StoreTrigger(m)) \/ ControlCrash
      PROVE  todo' = todo
  BY <1>8 DEF StoreTrigger, ControlCrash, queue
<1> QED
  BY <1>1, <1>2, <1>3, <1>4, <1>5, <1>6, <1>7, <1>8 DEF Next, Recover

\* Its lock is free, so the fetched job's run is not running, and its identity
\* is new to every list.
LEMMA OwnFetchStep ==
  ASSUME IInv, OwnInv, QueuedInPlace, NEW e \in Executor, Fetch(e)
  PROVE  OwnInv'
<1> USE DEF IInv, TypeOK, OwnInv
<1>1. PICK c \in Conversation :
        /\ todo[c] # <<>>
        /\ \A j \in doing : ConvOf[j[1]] # c
        /\ doing' = doing \cup {<<Head(todo[c]), fetched[Head(todo[c])] + 1>>}
        /\ fetched' = [fetched EXCEPT ![Head(todo[c])] = @ + 1]
        /\ job' = [job EXCEPT ![e] = <<Head(todo[c]), fetched[Head(todo[c])] + 1>>]
        /\ pc' = [pc EXCEPT ![e] = "start"]
  BY DEF Fetch
<1> DEFINE m == Head(todo[c])
           j == <<m, fetched[m] + 1>>
<1>2. m \in Message /\ ConvOf[m] = c
  <2>1. todo[c] \in Seq(Message) /\ todo[c] # <<>>
    BY <1>1
  <2>2. m = todo[c][1] /\ 1 \in 1..Len(todo[c])
    BY <2>1, HeadTailProperties
  <2> QED
    BY <2>1, <2>2, HeadTailProperties DEF QueuedInPlace
<1>3. /\ pc[e] = "idle"
      /\ UNCHANGED <<run, beat, escaped, lapses, tick, stalled, releasing>>
  BY DEF Fetch, rows, control, recovery, bounds
<1>4. /\ j \in Job /\ j \notin doing
      /\ doing' = doing \cup {j} /\ job'[e] = j /\ pc'[e] = "start"
      /\ \A f \in Executor \ {e} : pc'[f] = pc[f] /\ job'[f] = job[f]
  BY <1>1, <1>2 DEF JobIds, Job
<1> HIDE DEF m, j
<1>5. JobIds'
  <2>1. ASSUME NEW i \in Job, i[2] <= fetched[i[1]]
        PROVE  i[2] <= fetched'[i[1]]
    BY <1>1, <1>2, <2>1 DEF Job, m
  <2>2. j[2] <= fetched'[j[1]]
    BY <1>1, <1>2 DEF m, j
  <2> QED
    BY <1>4, <2>1, <2>2 DEF JobIds
<1>6. OneJobPerConversation'
  <2>1. ConvOf[j[1]] = c
    BY <1>2 DEF j
  <2> QED
    BY <1>1, <1>4, <2>1 DEF OneJobPerConversation
<1>7. HeldJobsInProgress'
  <2>1. \A f \in Executor : pc'[f] # "idle" => job'[f] \in doing'
    BY <1>4 DEF HeldJobsInProgress
  <2>2. \A f \in Executor \ {e} : pc'[f] # "idle" => job'[f] # j
    BY <1>4 DEF HeldJobsInProgress
  <2>3. \A f, g \in Executor : pc'[f] # "idle" /\ pc'[g] # "idle" /\ job'[f] = job'[g] => f = g
    <3> SUFFICES ASSUME NEW f \in Executor, NEW g \in Executor,
                        pc'[f] # "idle", pc'[g] # "idle", job'[f] = job'[g]
                 PROVE  f = g
      OBVIOUS
    <3> HIDE DEF TypeOK, IInv
    <3>1. CASE f = e \/ g = e
      BY <1>4, <2>2, <3>1
    <3>2. CASE f # e /\ g # e
      <4>1. pc[f] # "idle" /\ pc[g] # "idle" /\ job[f] = job[g]
        BY <1>4, <3>2
      <4> QED
        BY <4>1 DEF HeldJobsInProgress
    <3> QED
      BY <3>1, <3>2
  <2> QED
    BY <1>3, <2>1, <2>3 DEF HeldJobsInProgress
<1>8. DetachedRunIsNotRunning'
  <2>1. run[m] # "running" \/ m \in escaped
    BY <1>1, <1>2 DEF RunningRunIsOwned, HeldJobsInProgress
  <2>2. RunOf(e)' = m
    BY <1>4 DEF RunOf, j
  <2> QED
    BY <1>3, <1>4, <2>1, <2>2 DEF DetachedRunIsNotRunning, Engaged, RunOf
<1>9. StalledAreDead'
  <2>1. ASSUME NEW q \in Recoverer, NEW i \in stalled[q]
        PROVE  /\ i # j /\ i[2] <= fetched'[i[1]]
               /\ \A f \in Executor : ~Holds(f, i)'
    <3>1. i \in Job /\ i[2] <= fetched[i[1]] /\ \A f \in Executor : ~Holds(f, i)
      BY <2>1 DEF StalledAreDead
    <3>2. i # j
      BY <1>2, <3>1 DEF j
    <3>3. i[2] <= fetched'[i[1]]
      BY <1>1, <1>2, <3>1 DEF Job, m
    <3> QED
      BY <1>4, <3>1, <3>2, <3>3 DEF Holds
  <2>2. ASSUME NEW q \in Recoverer, tick[q] = "release"
        PROVE  releasing[q] \in stalled[q] /\ (releasing[q] \in doing' => run[releasing[q][1]] # "running")
    BY <1>4, <2>1, <2>2 DEF StalledAreDead
  <2> QED
    BY <1>3, <2>1, <2>2 DEF StalledAreDead
<1>10. RunningRunIsOwned'
  BY <1>3, <1>4 DEF RunningRunIsOwned
<1> QED
  BY <1>5, <1>6, <1>7, <1>8, <1>9, <1>10

\* A slot without a job any more, by finishing it or by dying.
LEMMA OwnLeaveStep ==
  ASSUME IInv, OwnInv, NEW e \in Executor, FinishJob(e) \/ Crash(e)
  PROVE  OwnInv'
<1> USE DEF IInv, TypeOK, OwnInv
<1>1. /\ pc' = [pc EXCEPT ![e] = "idle"] /\ job' = [job EXCEPT ![e] = NoJob]
      /\ beat' = beat \/ beat' = [beat EXCEPT ![e] = TRUE]
      /\ UNCHANGED <<run, fetched, escaped, lapses, tick, stalled, releasing>>
      /\ doing' \subseteq doing
      /\ \/ doing' = doing
         \/ pc[e] = "finish" /\ doing' = doing \ {job[e]}
  BY DEF FinishJob, Crash, rows, queue, control, recovery, bounds
<1>2. JobIds' /\ OneJobPerConversation'
  BY <1>1 DEF JobIds, OneJobPerConversation
<1>3. ASSUME NEW f \in Executor, pc'[f] # "idle"
      PROVE  f # e /\ pc'[f] = pc[f] /\ job'[f] = job[f] /\ RunOf(f)' = RunOf(f) /\ job[f] \in doing'
  BY <1>1, <1>3 DEF RunOf, HeldJobsInProgress
<1>4. \A f \in Executor : beat'[f]
  BY <1>1 DEF HeldJobsInProgress
<1>5. HeldJobsInProgress'
  BY <1>1, <1>3, <1>4 DEF HeldJobsInProgress
<1>6. DetachedRunIsNotRunning'
  BY <1>1, <1>3 DEF DetachedRunIsNotRunning, Engaged
<1>7. StalledAreDead'
  <2>1. ASSUME NEW f \in Executor, NEW j, Holds(f, j)' PROVE Holds(f, j)
    BY <1>3, <2>1 DEF Holds
  <2> QED
    BY <1>1, <2>1 DEF StalledAreDead
<1>8. RunningRunIsOwned'
  <2>1. pc[e] = "finish" => run[RunOf(e)] # "running" \/ RunOf(e) \in escaped
    BY DEF DetachedRunIsNotRunning, Engaged
  <2> QED
    BY <1>1, <2>1 DEF RunningRunIsOwned, RunOf
<1> QED
  BY <1>2, <1>5, <1>6, <1>7, <1>8

\* What a recovery step leaves alone.
LEMMA RecoveryKeeps ==
  ASSUME NEW q \in Recoverer,
         \/ FindStalled(q) \/ Release(q) \/ FindPending(q) \/ ResubmitOutputs(q)
         \/ \E j \in stalled[q] : Finalize(q, j)
         \/ \E m \in pendingRuns[q] : ResubmitRun(q, m)
  PROVE  UNCHANGED <<fetched, pc, job, beat, escaped, lapses>>
BY DEF FindStalled, Release, FindPending, ResubmitOutputs, Finalize, ResubmitRun, recovering,
       workers, queue, bounds

\* No heartbeat lapses, so whatever job is found stalled is held by nobody.
LEMMA OwnFindStalledStep ==
  ASSUME IInv, OwnInv, NEW q \in Recoverer, FindStalled(q)
  PROVE  OwnInv'
<1> USE DEF IInv, TypeOK, OwnInv
<1>1. UNCHANGED <<run, doing, fetched, pc, job, beat, escaped, lapses, releasing>>
  BY RecoveryKeeps DEF FindStalled, rows, queue
<1>2. JobIds' /\ OneJobPerConversation'
  BY <1>1 DEF JobIds, OneJobPerConversation
<1>3. HeldJobsInProgress'
  BY <1>1 DEF HeldJobsInProgress
<1>4. DetachedRunIsNotRunning'
  BY <1>1 DEF DetachedRunIsNotRunning, Engaged, RunOf
<1>5. StalledAreDead'
  <2>1. ASSUME NEW j \in doing, ~Healthy(j)
        PROVE  j[2] <= fetched[j[1]] /\ \A e \in Executor : ~Holds(e, j)
    BY <2>1 DEF Healthy, Holds, HeldJobsInProgress, JobIds
  <2>2. ASSUME NEW p \in Recoverer
        PROVE  \/ stalled'[p] = stalled[p] /\ tick'[p] = tick[p]
               \/ stalled'[p] = {j \in doing : ~Healthy(j)} /\ tick'[p] = "finalize"
    BY DEF FindStalled
  <2>3. ASSUME NEW p \in Recoverer, NEW j \in stalled'[p]
        PROVE  j[2] <= fetched[j[1]] /\ \A e \in Executor : ~Holds(e, j)
    <3>1. CASE stalled'[p] = stalled[p]
      <4> HIDE DEF TypeOK, IInv
      <4> QED
        BY <2>3, <3>1 DEF StalledAreDead
    <3>2. CASE stalled'[p] = {i \in doing : ~Healthy(i)}
      BY <2>1, <2>3, <3>2
    <3> QED
      BY <2>2, <3>1, <3>2
  <2>4. ASSUME NEW p \in Recoverer, tick'[p] = "release"
        PROVE  /\ releasing[p] \in stalled'[p]
               /\ releasing[p] \in doing => run[releasing[p][1]] # "running"
    BY <2>2, <2>4 DEF StalledAreDead
  <2> QED
    BY <1>1, <2>3, <2>4 DEF StalledAreDead, Holds
<1>6. RunningRunIsOwned'
  BY <1>1 DEF RunningRunIsOwned
<1> QED
  BY <1>2, <1>3, <1>4, <1>5, <1>6

\* Finalizing ends the run of a job before the job itself is released.
LEMMA OwnFinalizeStep ==
  ASSUME IInv, OwnInv, NEW q \in Recoverer, NEW j \in stalled[q], Finalize(q, j)
  PROVE  OwnInv'
<1> USE DEF IInv, TypeOK, OwnInv
<1>1. UNCHANGED <<doing, fetched, pc, job, beat, escaped, lapses, stalled>>
  BY RecoveryKeeps DEF Finalize, queue
<1>2. /\ j[1] \in Message /\ run'[j[1]] # "running"
      /\ \A m \in Message : run'[m] = "running" => run[m] = "running"
  BY DEF Finalize, rows, Job
<1>3. JobIds' /\ OneJobPerConversation'
  BY <1>1 DEF JobIds, OneJobPerConversation
<1>4. HeldJobsInProgress'
  BY <1>1 DEF HeldJobsInProgress
<1>5. DetachedRunIsNotRunning'
  <2>1. ASSUME NEW e \in Executor, pc[e] # "idle"
        PROVE  RunOf(e) \in Message /\ RunOf(e)' = RunOf(e)
    BY <1>1, <2>1, RunOfType DEF BusyHasJob, RunOf
  <2> QED
    BY <1>1, <1>2, <2>1 DEF DetachedRunIsNotRunning, Engaged
<1>6. StalledAreDead'
  <2>1. ASSUME NEW p \in Recoverer
        PROVE  \/ releasing'[p] = j /\ j \in stalled[p] /\ tick'[p] = "release"
               \/ releasing'[p] = releasing[p] /\ tick'[p] = tick[p]
    BY DEF Finalize
  <2>2. ASSUME NEW p \in Recoverer, tick'[p] = "release"
        PROVE  /\ releasing'[p] \in stalled[p]
               /\ releasing'[p] \in doing => run'[releasing'[p][1]] # "running"
    <3>1. CASE releasing'[p] = j /\ j \in stalled[p]
      BY <1>2, <3>1
    <3>2. CASE releasing'[p] = releasing[p] /\ tick[p] = "release"
      <4>1. releasing[p] \in stalled[p] /\ releasing[p][1] \in Message
        BY <3>2 DEF StalledAreDead, Job
      <4> QED
        BY <1>2, <3>2, <4>1 DEF StalledAreDead
    <3> QED
      BY <2>1, <2>2, <3>1, <3>2
  <2> QED
    BY <1>1, <2>2 DEF StalledAreDead, Holds
<1>7. RunningRunIsOwned'
  BY <1>1, <1>2 DEF RunningRunIsOwned
<1> QED
  BY <1>3, <1>4, <1>5, <1>6, <1>7

LEMMA OwnReleaseStep ==
  ASSUME IInv, OwnInv, NEW q \in Recoverer, Release(q)
  PROVE  OwnInv'
<1> USE DEF IInv, TypeOK, OwnInv
<1>1. UNCHANGED <<run, fetched, pc, job, beat, escaped, lapses>>
  BY RecoveryKeeps DEF Release, rows
<1>2. /\ doing' \subseteq doing /\ doing \ doing' \subseteq {releasing[q]}
      /\ \A p \in Recoverer : stalled'[p] \subseteq stalled[p]
      /\ tick'[q] # "release"
      /\ \A p \in Recoverer \ {q} :
           tick'[p] = tick[p] /\ stalled'[p] = stalled[p] /\ releasing'[p] = releasing[p]
  <2>3. stalled \in [Recoverer -> SUBSET Job]
    OBVIOUS
  <2> HIDE DEF IInv, TypeOK, OwnInv
  <2>4. doing' \subseteq doing /\ doing \ doing' \subseteq {releasing[q]}
    BY DEF Release
  <2>5. \A p \in Recoverer : stalled'[p] \subseteq stalled[p]
    BY <2>3 DEF Release
  <2>1. /\ doing' \subseteq doing /\ doing \ doing' \subseteq {releasing[q]}
        /\ \A p \in Recoverer : stalled'[p] \subseteq stalled[p]
    BY <2>4, <2>5
  <2> USE DEF IInv, TypeOK, OwnInv
  <2>2. /\ tick'[q] # "release"
        /\ \A p \in Recoverer \ {q} :
             tick'[p] = tick[p] /\ stalled'[p] = stalled[p] /\ releasing'[p] = releasing[p]
    BY DEF Release
  <2> QED
    BY <2>1, <2>2
<1>3. /\ \A e \in Executor : ~Holds(e, releasing[q])
      /\ releasing[q] \in doing => run[releasing[q][1]] # "running"
  <2>1. tick[q] = "release"
    BY DEF Release
  <2>2. StalledAreDead
    OBVIOUS
  <2> HIDE DEF IInv, TypeOK, OwnInv
  <2> QED
    BY <2>1, <2>2 DEF StalledAreDead
<1>4. JobIds' /\ OneJobPerConversation'
  BY <1>1, <1>2 DEF JobIds, OneJobPerConversation
<1>5. HeldJobsInProgress'
  BY <1>1, <1>2, <1>3 DEF HeldJobsInProgress, Holds
<1>6. DetachedRunIsNotRunning'
  BY <1>1 DEF DetachedRunIsNotRunning, Engaged, RunOf
<1>7. StalledAreDead'
  <2>1. ASSUME NEW p \in Recoverer, NEW j \in stalled'[p]
        PROVE  j[2] <= fetched[j[1]] /\ \A e \in Executor : ~Holds(e, j)
    <3>1. j \in stalled[p]
      BY <1>2, <2>1
    <3> HIDE DEF TypeOK, IInv
    <3> QED
      BY <3>1 DEF StalledAreDead
  <2>2. ASSUME NEW p \in Recoverer, tick'[p] = "release"
        PROVE  /\ releasing'[p] \in stalled'[p]
               /\ releasing'[p] \in doing' => run[releasing'[p][1]] # "running"
    <3>1. p # q
      BY <1>2, <2>2
    <3>2. /\ tick[p] = "release" /\ releasing'[p] = releasing[p]
          /\ stalled'[p] = stalled[p] /\ doing' \subseteq doing
      BY <1>2, <2>2, <3>1
    <3> HIDE DEF TypeOK, IInv
    <3> QED
      BY <3>2 DEF StalledAreDead
  <2>3. ASSUME NEW e \in Executor, NEW j PROVE Holds(e, j)' <=> Holds(e, j)
    BY <1>1 DEF Holds
  <2> HIDE DEF TypeOK, IInv, OwnInv
  <2> QED
    BY <1>1, <2>1, <2>2, <2>3 DEF StalledAreDead
<1>8. RunningRunIsOwned'
  BY <1>1, <1>2, <1>3 DEF RunningRunIsOwned
<1> QED
  BY <1>4, <1>5, <1>6, <1>7, <1>8

LEMMA OwnExecuteStep ==
  ASSUME IInv, OwnInv, NEW e \in Executor,
         \/ Start(e) \/ Prepare(e) \/ Recheck(e) \/ Commit(e) \/ Fail(e)
         \/ Submit(e, "answer") \/ Submit(e, "error") \/ Raise(e) \/ Escape(e)
  PROVE  OwnInv'
<1> USE DEF IInv, TypeOK, OwnInv
<1> DEFINE m == RunOf(e)
<1>1. /\ pc[e] # "idle" /\ m \in Message
      /\ UNCHANGED <<doing, fetched, job, beat, lapses, tick, stalled, releasing>>
  <2>1. pc[e] # "idle"
    BY DEF Start, Prepare, Recheck, Commit, Fail, Submit, Raise, Escape
  <2>2. UNCHANGED <<doing, fetched, job, beat, lapses, tick, stalled, releasing>>
    BY DEF Start, Prepare, Recheck, CancelIfStale, Commit, Fail, Submit, Raise,
           Escape, executing, queue, control, recovery, bounds
  <2> QED
    BY <2>1, <2>2, RunOfType DEF BusyHasJob
<1>2. Engaged(e) \/ run[m] # "running" \/ m \in escaped
  BY <1>1 DEF DetachedRunIsNotRunning
<1>3. CASE Start(e)
  <2>1. /\ \A f \in Executor \ {e} : pc'[f] = pc[f]
        /\ \A n \in Message \ {m} : run'[n] = run[n]
        /\ escaped' = escaped
        /\ \/ pc'[e] = "prepare"
           \/ pc'[e] = "finish" /\ (run'[m] # "running" \/ m \in escaped)
    BY <1>1, <1>2, <1>3 DEF Start, Goto, Cancel, rows, Engaged, bounds
  <2> QED
    BY <1>1, <2>1, OwnSlotStep DEF Engaged
<1>4. ASSUME NEW next \in {"investigate", "commit"}, CancelIfStale(e, next)
      PROVE  OwnInv'
  <2>1. /\ \A f \in Executor \ {e} : pc'[f] = pc[f]
        /\ \A n \in Message \ {m} : run'[n] = run[n]
        /\ escaped' = escaped
        /\ pc'[e] = next \/ (pc'[e] = "finish" /\ run'[m] # "running")
    BY <1>1, <1>4 DEF CancelIfStale, Goto, Cancel, rows, bounds
  <2> QED
    BY <1>1, <2>1, OwnSlotStep DEF Engaged
<1>5. CASE Commit(e)
  <2>1. /\ \A f \in Executor \ {e} : pc'[f] = pc[f]
        /\ \A n \in Message \ {m} : run'[n] = run[n]
        /\ pc'[e] # "idle" /\ run'[m] # "running" /\ escaped' = escaped
    BY <1>1, <1>5 DEF Commit, Goto, rows, bounds
  <2> QED
    BY <1>1, <2>1, OwnSlotStep
<1>6. CASE Fail(e)
  <2>1. /\ \A f \in Executor \ {e} : pc'[f] = pc[f]
        /\ \A n \in Message \ {m} : run'[n] = run[n]
        /\ pc'[e] # "idle" /\ run'[m] # "running" /\ escaped' = escaped
    BY <1>1, <1>6 DEF Fail, Goto, rows, bounds
  <2> QED
    BY <1>1, <2>1, OwnSlotStep
<1>7. CASE Submit(e, "answer") \/ Submit(e, "error")
  <2>1. /\ ~Engaged(e) /\ run' = run /\ escaped' = escaped
        /\ pc' = [pc EXCEPT ![e] = "finish"]
    BY <1>7 DEF Submit, Goto, rows, Engaged, bounds
  <2> QED
    BY <1>1, <1>2, <2>1, OwnSlotStep
<1>10. CASE Escape(e)
  <2>1. /\ run' = run /\ escaped \subseteq escaped'
        /\ run[m] # "running" \/ m \in escaped'
        /\ pc' = [pc EXCEPT ![e] = "finish"]
    BY <1>10 DEF Escape, Goto, rows
  <2> QED
    BY <1>1, <2>1, OwnSlotStep
<1>8. CASE Raise(e)
  <2>1. run' = run /\ escaped' = escaped /\ pc' = [pc EXCEPT ![e] = "fail"]
    BY <1>8 DEF Raise, Goto, rows, bounds
  <2> QED
    BY <1>1, <2>1, OwnSlotStep DEF Engaged
<1> QED
  BY <1>3, <1>4, <1>5, <1>6, <1>7, <1>8, <1>10 DEF Prepare, Recheck

LEMMA OwnStep ==
  ASSUME IInv, OwnInv, QueuedInPlace, [Next]_vars, lapses' = 0
  PROVE  OwnInv'
<1>1. CASE UNCHANGED vars
  BY <1>1, OwnQuietStep
  DEF vars, rows, queue, control, recovery, workers, bounds, OwnQuiet
<1>2. ASSUME NEW m \in Message, StoreTrigger(m) \/ HandOff(m)
      PROVE  OwnInv'
  BY <1>2, OwnQuietStep
  DEF StoreTrigger, HandOff, rows, queue, recovery, workers, bounds, OwnQuiet, IInv, TypeOK
<1>3. ASSUME NEW e \in Executor, Fetch(e)
      PROVE  OwnInv'
  BY <1>3, OwnFetchStep
<1>4. ASSUME NEW e \in Executor, Execute(e) \/ Raise(e) \/ Escape(e) \/ Crash(e)
      PROVE  OwnInv'
  BY <1>4, OwnExecuteStep, OwnLeaveStep DEF Execute
<1>5. ASSUME NEW e \in Executor
      PROVE  ~Lapse(e) /\ ~Resume(e)
  BY DEF Lapse, Resume, OwnInv, HeldJobsInProgress
<1>6. ASSUME NEW q \in Recoverer, Recover(q)
      PROVE  OwnInv'
  <2>1. CASE FindStalled(q) \/ Release(q) \/ \E j \in stalled[q] : Finalize(q, j)
    BY <2>1, OwnFindStalledStep, OwnReleaseStep, OwnFinalizeStep
  <2>2. CASE \/ FindPending(q) \/ ResubmitOutputs(q)
             \/ \E m \in pendingRuns[q] : ResubmitRun(q, m)
    <3>1. OwnQuiet
      BY <2>2
      DEF FindPending, ResubmitOutputs, ResubmitRun, recovering, rows, queue, workers, bounds,
          OwnQuiet, IInv, TypeOK
    <3> QED
      BY <3>1, OwnQuietStep
  <2> QED
    BY <1>6, <2>1, <2>2 DEF Recover
<1>7. CASE ControlCrash
  BY <1>7, OwnQuietStep DEF ControlCrash, rows, queue, workers, OwnQuiet
<1> QED
  BY <1>1, <1>2, <1>3, <1>4, <1>5, <1>6, <1>7 DEF Next

LEMMA OwnInit == Init => OwnInv /\ QueuedInPlace
BY DEF Init, OwnInv, JobIds, OneJobPerConversation, HeldJobsInProgress, DetachedRunIsNotRunning,
       StalledAreDead, RunningRunIsOwned, QueuedInPlace

\* Only a lapse moves the count of lapses.
LEMMA LapsesMove ==
  ASSUME [Next]_vars, \A e \in Executor : ~Lapse(e)
  PROVE  lapses' = lapses
<1>1. ASSUME NEW e \in Executor, Fetch(e) \/ Raise(e) \/ Escape(e) \/ Crash(e) \/ Resume(e)
      PROVE  lapses' = lapses
  BY <1>1 DEF Fetch, Raise, Escape, Crash, Resume, bounds
<1>2. ASSUME NEW e \in Executor, Execute(e)
      PROVE  lapses' = lapses
  BY <1>2
  DEF Execute, Start, Prepare, Recheck, CancelIfStale, Commit, Fail, Submit, FinishJob,
      executing, bounds
<1>3. ASSUME NEW m \in Message, StoreTrigger(m) \/ HandOff(m)
      PROVE  lapses' = lapses
  BY <1>3 DEF StoreTrigger, HandOff, bounds
<1>4. ASSUME NEW q \in Recoverer, Recover(q)
      PROVE  lapses' = lapses
  BY <1>4, RecoveryKeeps DEF Recover
<1>5. CASE ControlCrash \/ UNCHANGED vars
  BY <1>5 DEF ControlCrash, vars, bounds
<1> QED
  BY <1>1, <1>2, <1>3, <1>4, <1>5 DEF Next

\* The count is never reset.
LEMMA LapsesCounted ==
  ASSUME TypeOK, [Next]_vars, lapses' = 0
  PROVE  lapses = 0
<1>1. ASSUME NEW e \in Executor, Lapse(e)
      PROVE  FALSE
  BY <1>1 DEF Lapse, TypeOK
<1> QED
  BY <1>1, LapsesMove

LEMMA NoLapseStep ==
  ASSUME MaxLapses = 0, lapses = 0, [Next]_vars
  PROVE  lapses' = 0
<1>1. \A e \in Executor : ~Lapse(e)
  BY DEF Lapse
<1> QED
  BY <1>1, LapsesMove

\* The ownership invariant holds until a heartbeat lapses.
NoLapse == lapses = 0

Owned == NoLapse => OwnInv

LEMMA Ownership == Spec => [](IInv /\ Owned)
<1>1. IInv /\ QueuedInPlace /\ Owned /\ [Next]_vars => IInv' /\ QueuedInPlace' /\ Owned'
  <2> SUFFICES ASSUME IInv, QueuedInPlace, Owned, [Next]_vars
               PROVE  IInv' /\ QueuedInPlace' /\ Owned'
    OBVIOUS
  <2>1. IInv' /\ QueuedInPlace'
    BY InvariantStep, QueuedInPlaceStep DEF IInv
  <2>2. ASSUME NoLapse'
        PROVE  OwnInv'
    BY <2>2, LapsesCounted, OwnStep DEF Owned, NoLapse, IInv
  <2> QED
    BY <2>1, <2>2 DEF Owned
<1>2. Init => Owned /\ QueuedInPlace
  BY OwnInit DEF Owned
<1> QED
  BY <1>1, <1>2, InitInvariant, PTL DEF Spec

\* Until a heartbeat of a living worker lapses, a running run has a job in
\* progress, through which the recovery finds it, unless an exception that
\* execute_run does not catch left it running.
THEOREM RunningRunsOwned == Spec => []RunningRunIsOwned
<1>1. Owned => RunningRunIsOwned
  BY DEF Owned, NoLapse, OwnInv, RunningRunIsOwned
<1> QED
  BY <1>1, Ownership, PTL

\* Under the same exceptions, at most one run of a conversation is running.
THEOREM RunsSerialized == Spec => []OneRunningPerConversation
<1>1. Owned => OneRunningPerConversation
  BY DEF Owned, NoLapse, OwnInv, RunningRunIsOwned, OneJobPerConversation, OneRunningPerConversation
<1> QED
  BY <1>1, Ownership, PTL

-----------------------------------------------------------------------------
(* With one recovery tick at a time, the list it works through is current. *)

OneRecovery == \A p, q \in Recoverer : p = q

StalledInProgress == \A q \in Recoverer : stalled[q] \subseteq doing

LEMMA StalledInProgressStep ==
  ASSUME OneRecovery, TypeOK, OwnInv, StalledInProgress, [Next]_vars
  PROVE  StalledInProgress'
<1> USE DEF StalledInProgress, TypeOK
<1>1. CASE UNCHANGED <<doing, stalled>>
  BY <1>1
<1>2. ASSUME NEW e \in Executor, Fetch(e)
      PROVE  StalledInProgress'
  BY <1>2 DEF Fetch, control, recovery
<1>3. ASSUME NEW e \in Executor, FinishJob(e)
      PROVE  StalledInProgress'
  <2>1. \A q \in Recoverer : job[e] \notin stalled[q]
    BY <1>3 DEF FinishJob, OwnInv, StalledAreDead, Holds
  <2> QED
    BY <1>3, <2>1 DEF FinishJob, control, recovery
<1>4. ASSUME NEW q \in Recoverer, FindStalled(q)
      PROVE  StalledInProgress'
  BY <1>4 DEF FindStalled, queue
<1>5. ASSUME NEW q \in Recoverer, Release(q)
      PROVE  StalledInProgress'
  BY <1>5 DEF Release, OneRecovery
<1>6. CASE ControlCrash
  BY <1>6 DEF ControlCrash, queue
<1>7. CASE UNCHANGED vars
  BY <1>1, <1>7 DEF vars, queue, control, recovery
<1>8. ASSUME NEW m \in Message, StoreTrigger(m) \/ HandOff(m)
      PROVE  UNCHANGED <<doing, stalled>>
  BY <1>8 DEF StoreTrigger, HandOff, queue, recovery
<1>9. ASSUME NEW e \in Executor,
             \/ Execute(e) /\ ~FinishJob(e)
             \/ Raise(e) \/ Escape(e) \/ Crash(e) \/ Lapse(e) \/ Resume(e)
      PROVE  UNCHANGED <<doing, stalled>>
  BY <1>9
  DEF Execute, Start, Prepare, Recheck, CancelIfStale, Commit, Fail, Submit, Raise,
      Escape, Crash, Lapse, Resume, executing, queue, control, recovery
<1>10. ASSUME NEW q \in Recoverer,
              \/ FindPending(q) \/ ResubmitOutputs(q)
              \/ \E j \in stalled[q] : Finalize(q, j)
              \/ \E m \in pendingRuns[q] : ResubmitRun(q, m)
       PROVE  UNCHANGED <<doing, stalled>>
  BY <1>10 DEF FindPending, ResubmitOutputs, Finalize, ResubmitRun, queue
<1> QED
  BY <1>1, <1>2, <1>3, <1>4, <1>5, <1>6, <1>7, <1>8, <1>9, <1>10 DEF Next, Recover

\* Only the recovery writes worker_interrupted.
LEMMA InterruptedByRecovery ==
  ASSUME TypeOK, [Next]_vars, NEW m \in Message,
         error[m] # "worker_interrupted", error'[m] = "worker_interrupted"
  PROVE  \E q \in Recoverer : \E j \in stalled[q] :
           Finalize(q, j) /\ j[1] = m /\ run[m] = "running"
<1> USE DEF TypeOK
<1>1. error' # error
  OBVIOUS
<1>2. ASSUME NEW e \in Executor, Fail(e)
      PROVE  FALSE
  BY <1>2 DEF Fail, rows
<1>3. ASSUME NEW e \in Executor,
             \/ Fetch(e) \/ Raise(e) \/ Escape(e) \/ Crash(e) \/ Lapse(e) \/ Resume(e)
             \/ Start(e) \/ Prepare(e) \/ Recheck(e) \/ Commit(e) \/ FinishJob(e)
             \/ Submit(e, "answer") \/ Submit(e, "error")
      PROVE  error' = error
  BY <1>3
  DEF Fetch, Start, Prepare, Recheck, CancelIfStale, Commit, Submit, FinishJob, Raise,
      Escape, Crash, Lapse, Resume, rows
<1>4. ASSUME NEW n \in Message, StoreTrigger(n) \/ HandOff(n)
      PROVE  error' = error
  BY <1>4 DEF StoreTrigger, HandOff, rows
<1>5. ASSUME NEW q \in Recoverer,
             \/ FindStalled(q) \/ Release(q) \/ FindPending(q) \/ ResubmitOutputs(q)
             \/ \E n \in pendingRuns[q] : ResubmitRun(q, n)
      PROVE  error' = error
  BY <1>5 DEF FindStalled, Release, FindPending, ResubmitOutputs, ResubmitRun, rows
<1>6. CASE ControlCrash \/ UNCHANGED vars
  BY <1>1, <1>6 DEF ControlCrash, vars, rows
<1>9. PICK q \in Recoverer : \E j \in stalled[q] : Finalize(q, j)
  BY <1>1, <1>2, <1>3, <1>4, <1>5, <1>6 DEF Next, Execute, Recover
<1>7. PICK j \in stalled[q] : Finalize(q, j)
  BY <1>9
<1>8. j[1] = m /\ run[m] = "running"
  BY <1>1, <1>7 DEF Finalize, rows
<1> QED
  BY <1>7, <1>8

LEMMA NoHealthyRunInterrupted ==
  ASSUME TypeOK, OwnInv, StalledInProgress, [Next]_vars,
         NEW m \in Message,
         error[m] # "worker_interrupted", error'[m] = "worker_interrupted"
  PROVE  ~WorkingOn(m)
<1>5. PICK q \in Recoverer : \E j \in stalled[q] : j[1] = m
  BY InterruptedByRecovery
<1>1. PICK j \in stalled[q] : j[1] = m
  BY <1>5
<1>2. j \in doing /\ \A e \in Executor : ~Holds(e, j)
  BY DEF StalledInProgress, OwnInv, StalledAreDead
<1> SUFFICES ASSUME NEW e \in Executor, pc[e] # "idle", RunOf(e) = m
             PROVE  FALSE
  BY DEF WorkingOn
<1>3. job[e] \in doing /\ job[e][1] = m
  BY DEF OwnInv, HeldJobsInProgress, RunOf
<1>4. job[e] = j
  BY <1>1, <1>2, <1>3 DEF OwnInv, OneJobPerConversation
<1> QED
  BY <1>2, <1>4 DEF Holds

\* If no heartbeat lapses and recovery ticks do not overlap, no recovery ever ends
\* a run that a reporting worker is executing, though its list is older than its
\* writes.
THEOREM RecoveryIsPrecise ==
  ASSUME MaxLapses = 0, OneRecovery
  PROVE  Spec => HealthyRunIsNotInterrupted
<1>1. Init => StalledInProgress
  BY DEF Init, StalledInProgress
<1>5. Spec => []NoLapse
  <2>1. Init => NoLapse
    BY DEF Init, NoLapse
  <2>2. NoLapse /\ [Next]_vars => NoLapse'
    BY NoLapseStep DEF NoLapse
  <2> QED
    BY <2>1, <2>2, PTL DEF Spec
<1>2. IInv /\ OwnInv /\ StalledInProgress /\ [Next]_vars => StalledInProgress'
  BY StalledInProgressStep DEF IInv
<1>3. IInv /\ OwnInv /\ StalledInProgress /\ [Next]_vars =>
        [\A m \in Message :
           error[m] # "worker_interrupted" /\ error'[m] = "worker_interrupted"
             => ~WorkingOn(m)]_vars
  BY NoHealthyRunInterrupted DEF IInv
<1>4. Owned /\ NoLapse => OwnInv
  BY DEF Owned
<1> QED
  BY <1>1, <1>2, <1>3, <1>4, <1>5, Ownership, PTL DEF Spec, HealthyRunIsNotInterrupted
=============================================================================
