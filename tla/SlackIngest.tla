----------------------------- MODULE SlackIngest -----------------------------
(***************************************************************************)
(* Slack events from the Socket Mode listener to their effects: the ACK,   *)
(* the insert and the enqueue of slack/socket.py and receive_event, the    *)
(* control job process_stored_event with what it does for messages and     *)
(* reactions, and the recovery of received and queued events.              *)
(***************************************************************************)
EXTENDS Integers, Sequences, FiniteSets, SequencesExt

CONSTANTS
  Event,          \* Slack events; the number is the order Slack sends them in
  Kind,           \* their types
  About,          \* the message or the reaction each is about
  Message, Reaction,
  Thread, ThreadOf,  \* Slack threads, and the thread of each message
  Answer, AnswerOf,  \* Cerebro's answers, and the one each reaction is on
  Plug,           \* the reactions that are electric_plug
  Mode,           \* the values CEREBRO_GLOBAL_MODE takes in the deployment
  Slot,           \* job slots of the control worker
  NoEvent,
  MaxCrashes,     \* bound: deaths of the listener or of a slot's worker
  MaxFaults       \* bound: transactions and enqueue calls that raise

KindName == {"app_mention", "message", "reaction_added", "reaction_removed"}
IsMessage(e) == Kind[e] \in {"app_mention", "message"}

ASSUME IngestAssumption ==
  /\ Event \subseteq Nat /\ Kind \in [Event -> KindName]
  /\ \A e \in Event : IF IsMessage(e) THEN About[e] \in Message ELSE About[e] \in Reaction
  /\ ThreadOf \in [Message -> Thread] /\ AnswerOf \in [Reaction -> Answer]
  /\ Plug \subseteq Reaction
  /\ Mode \subseteq {"enabled", "off"} /\ Mode # {}
  /\ NoEvent \notin Event /\ IsFiniteSet(Slot)
  /\ MaxCrashes \in Nat /\ MaxFaults \in Nat

VARIABLES
  \* rows of the database
  disposition,    \* slack_event.disposition, "absent" before the row exists
  threads,        \* conversation rows
  messages,       \* inbound message rows, each with its queued run
  feedback,       \* feedback.is_active, by reaction: none, active, inactive
  flavors,        \* feedback_flavor outputs, by the reaction in their key
  answers,        \* answers whose delivery is recorded as sent
  \* jobs
  todo,           \* waiting process_slack_event jobs, oldest first
  runsSubmitted,  \* messages whose run was enqueued by the control job
  flavorsSubmitted,  \* flavor outputs it enqueued
  \* the listener: where it is with each event
  at, listenerMode,
  \* the control worker
  pc, job, mode,
  tick, pending,  \* the recovery tick, and the events it found
  \* history and bounds
  handled,        \* how many transactions processed the event
  crashes, faults

rows == <<disposition, threads, messages, feedback, flavors, answers>>
effects == <<threads, messages, feedback, flavors, answers>>
submissions == <<runsSubmitted, flavorsSubmitted>>
listener == <<at, listenerMode>>
slots == <<pc, job, mode>>
recovery == <<tick, pending>>
bounds == <<crashes, faults>>
vars == <<rows, todo, submissions, listener, slots, recovery, handled, bounds>>

Disposition == {"absent", "received", "queued", "processed", "ignored", "failed"}
At == {"unsent", "store", "enqueue", "read", "mark", "done"}
PC == {"idle", "process", "fail", "submit_run", "submit_flavor"}

Init ==
  /\ disposition = [e \in Event |-> "absent"]
  /\ threads = {} /\ messages = {} /\ flavors = {} /\ answers = {}
  /\ feedback = [r \in Reaction |-> "none"]
  /\ todo = <<>> /\ runsSubmitted = {} /\ flavorsSubmitted = {}
  \* What never comes is done from the start.
  /\ at \in [Event -> {"unsent", "done"}]
  /\ listenerMode \in Mode
  /\ pc = [w \in Slot |-> "idle"]
  /\ job = [w \in Slot |-> NoEvent]
  /\ mode \in [Slot -> Mode]
  /\ tick = "idle" /\ pending = {}
  /\ handled = [e \in Event |-> 0]
  \* Part of the bounds may be spent.
  /\ crashes \in 0..MaxCrashes /\ faults \in 0..MaxFaults

-----------------------------------------------------------------------------
(* The listener.  Each event has a task of its own.  An envelope that is    *)
(* sent again after its row exists inserts nothing and changes nothing.    *)

MoveTo(e, place) == at' = [at EXCEPT ![e] = place]

listening == <<effects, submissions, listenerMode, slots, recovery, handled, bounds>>

\* ack() comes first: from here on Slack will not send the event again.
Ack(e) ==
  /\ at[e] = "unsent"
  /\ \A f \in Event : f < e => at[f] # "unsent"
  /\ MoveTo(e, "store")
  /\ UNCHANGED <<disposition, todo, listening>>

Store(e) ==
  /\ at[e] = "store"
  /\ \/ /\ listenerMode = "off"
        /\ disposition' = [disposition EXCEPT ![e] = "ignored"]
        /\ MoveTo(e, "done")
     \/ /\ listenerMode = "enabled"
        /\ disposition' = [disposition EXCEPT ![e] = "received"]
        /\ MoveTo(e, "enqueue")
  /\ UNCHANGED <<todo, listening>>

\* The queueing lock refuses a job the recovery deferred before; then the
\* event is not marked.
Enqueue(e) ==
  /\ at[e] = "enqueue"
  /\ IF e \in ToSet(todo) THEN MoveTo(e, "done") /\ UNCHANGED todo
     ELSE MoveTo(e, "read") /\ todo' = Append(todo, e)
  /\ UNCHANGED <<disposition, listening>>

\* The second session reads the row without locking it ...
ReadDisposition(e) ==
  /\ at[e] = "read"
  /\ MoveTo(e, IF disposition[e] = "received" THEN "mark" ELSE "done")
  /\ UNCHANGED <<disposition, todo, listening>>

\* ... and writes what it decided, whatever happened to the row since.
MarkQueued(e) ==
  /\ at[e] = "mark"
  /\ disposition' = [disposition EXCEPT ![e] = "queued"]
  /\ MoveTo(e, "done")
  /\ UNCHANGED <<todo, listening>>

\* An exception ends the task; an event that is not stored by then is lost.
ListenerRaises(e) ==
  /\ at[e] \in {"store", "enqueue", "read", "mark"} /\ faults < MaxFaults
  /\ faults' = faults + 1
  /\ MoveTo(e, "done")
  /\ UNCHANGED <<rows, todo, submissions, listenerMode, slots, recovery, handled, crashes>>

-----------------------------------------------------------------------------
(* The control job.  It has no execution lock: the transaction locks the   *)
(* event's row instead.                                                    *)

Goto(w, label) == pc' = [pc EXCEPT ![w] = label] /\ UNCHANGED job

\* A job that has returned or raised leaves nothing behind: no lock, and no
\* waiting entry.
EndJob(w) ==
  /\ pc' = [pc EXCEPT ![w] = "idle"]
  /\ job' = [job EXCEPT ![w] = NoEvent]

\* Mutant: a write that takes the enum's name for its value.
SetDispositionMisspelt(e, value) ==
  disposition' = [disposition EXCEPT ![e] = IF value = "failed" THEN "FAILED" ELSE value]
SetDisposition(e, value) == disposition' = [disposition EXCEPT ![e] = value]

Fetch(w) ==
  /\ pc[w] = "idle" /\ todo # <<>>
  /\ job' = [job EXCEPT ![w] = Head(todo)]
  /\ todo' = Tail(todo)
  /\ pc' = [pc EXCEPT ![w] = "process"]
  /\ UNCHANGED <<rows, submissions, listener, mode, recovery, handled, bounds>>

processing == <<answers, todo, submissions, listener, mode, recovery, bounds>>

Ignore(w) ==
  /\ SetDisposition(job[w], "ignored")
  /\ EndJob(w)
  /\ UNCHANGED <<threads, messages, feedback, flavors, handled>>

Processed(e) ==
  /\ SetDisposition(e, "processed")
  /\ handled' = [handled EXCEPT ![e] = @ + 1]

\* Mutant: the run of a message that was stored before is enqueued again.
ProcessMessageAnew(w) ==
  LET e == job[w]
      m == About[e]
      known == ThreadOf[m] \in threads
  IN \/ /\ ~known /\ Kind[e] = "message"
        /\ Ignore(w)
     \/ /\ known \/ Kind[e] = "app_mention"
        /\ threads' = threads \cup {ThreadOf[m]}
        /\ messages' = messages \cup {m}
        /\ Goto(w, "submit_run")
        /\ Processed(e)
        /\ UNCHANGED <<feedback, flavors>>

\* A mention opens its thread; a thread message needs a known one.  The row of
\* a message is unique, and only its first insertion creates a run.
ProcessMessage(w) ==
  LET e == job[w]
      m == About[e]
      known == ThreadOf[m] \in threads
  IN \/ /\ ~known /\ Kind[e] = "message"
        /\ Ignore(w)
     \/ /\ known \/ Kind[e] = "app_mention"
        /\ threads' = threads \cup {ThreadOf[m]}
        /\ messages' = messages \cup {m}
        /\ IF m \in messages THEN EndJob(w) ELSE Goto(w, "submit_run")
        /\ Processed(e)
        /\ UNCHANGED <<feedback, flavors>>

\* Only reactions on an answer whose timestamp is recorded count.
ProcessReaction(w) ==
  LET e == job[w]
      r == About[e]
      added == Kind[e] = "reaction_added"
      replies == added /\ r \in Plug \ flavors
  IN \/ /\ AnswerOf[r] \notin answers
        /\ Ignore(w)
     \/ /\ AnswerOf[r] \in answers
        /\ feedback' =
             IF added THEN [feedback EXCEPT ![r] = "active"]
             ELSE [feedback EXCEPT ![r] = IF @ = "none" THEN "none" ELSE "inactive"]
        /\ flavors' = IF replies THEN flavors \cup {r} ELSE flavors
        /\ IF replies THEN Goto(w, "submit_flavor") ELSE EndJob(w)
        /\ Processed(e)
        /\ UNCHANGED <<threads, messages>>

\* Mutant: an event in progress elsewhere counts as done.
ProcessOnlyReceived(w) ==
  LET e == job[w] IN
  /\ pc[w] = "process"
  /\ \/ /\ disposition[e] # "received"
        /\ EndJob(w)
        /\ UNCHANGED <<disposition, threads, messages, feedback, flavors, handled>>
     \/ /\ disposition[e] = "received" /\ mode[w] = "off"
        /\ Ignore(w)
     \/ /\ disposition[e] = "received" /\ mode[w] = "enabled"
        /\ IF IsMessage(e) THEN ProcessMessage(w) ELSE ProcessReaction(w)
  /\ UNCHANGED processing

\* Mutant: a job does not look at what another did with its event.
ProcessAgain(w) ==
  /\ pc[w] = "process"
  /\ \/ mode[w] = "off" /\ Ignore(w)
     \/ /\ mode[w] = "enabled"
        /\ IF IsMessage(job[w]) THEN ProcessMessage(w) ELSE ProcessReaction(w)
  /\ UNCHANGED processing

Process(w) ==
  LET e == job[w]
      closed == disposition[e] \in {"processed", "ignored"}
  IN /\ pc[w] = "process"
     /\ \/ /\ closed
           /\ EndJob(w)
           /\ UNCHANGED <<disposition, threads, messages, feedback, flavors, handled>>
        \/ /\ ~closed /\ mode[w] = "off"
           /\ Ignore(w)
        \/ /\ ~closed /\ mode[w] = "enabled"
           /\ IF IsMessage(e) THEN ProcessMessage(w) ELSE ProcessReaction(w)
     /\ UNCHANGED processing

\* The transaction raises and is rolled back.
ProcessRaises(w) ==
  /\ pc[w] = "process" /\ faults < MaxFaults
  /\ faults' = faults + 1
  /\ Goto(w, "fail")
  /\ UNCHANGED <<rows, todo, submissions, listener, mode, recovery, handled, crashes>>

\* The handler writes without a lock and without looking at the disposition.
Fail(w) ==
  /\ pc[w] = "fail"
  /\ SetDisposition(job[w], "failed")
  /\ EndJob(w)
  /\ UNCHANGED <<threads, messages, feedback, flavors, handled, processing>>

\* The enqueue call after the commit; it may raise.
SubmitRun(w) ==
  /\ pc[w] = "submit_run"
  /\ runsSubmitted' = runsSubmitted \cup {About[job[w]]} \/ UNCHANGED runsSubmitted
  /\ EndJob(w)
  /\ UNCHANGED <<rows, todo, flavorsSubmitted, listener, mode, recovery, handled, bounds>>

SubmitFlavor(w) ==
  /\ pc[w] = "submit_flavor"
  /\ flavorsSubmitted' = flavorsSubmitted \cup {About[job[w]]} \/ UNCHANGED flavorsSubmitted
  /\ EndJob(w)
  /\ UNCHANGED <<rows, todo, runsSubmitted, listener, mode, recovery, handled, bounds>>

-----------------------------------------------------------------------------
(* The recovery of events, and the world outside.                          *)

\* Mutant: only events that were marked queued are recovered.
FindQueuedOnly ==
  /\ tick = "idle"
  /\ pending' = {e \in Event : disposition[e] = "queued"}
  /\ tick' = "enqueue"
  /\ UNCHANGED <<rows, todo, submissions, listener, slots, handled, bounds>>

FindPending ==
  /\ tick = "idle"
  /\ pending' = {e \in Event : disposition[e] \in {"received", "queued"}}
  /\ tick' = "enqueue"
  /\ UNCHANGED <<rows, todo, submissions, listener, slots, handled, bounds>>

Resubmit(e) ==
  /\ tick = "enqueue" /\ e \in pending
  /\ todo' = IF e \in ToSet(todo) THEN todo ELSE Append(todo, e)
  /\ pending' = pending \ {e}
  /\ UNCHANGED <<rows, submissions, listener, slots, tick, handled, bounds>>

EndTick ==
  /\ tick = "enqueue" /\ pending = {}
  /\ tick' = "idle"
  /\ UNCHANGED <<rows, todo, submissions, listener, slots, pending, handled, bounds>>

\* The delivery of an answer commits its timestamp; people may react sooner.
RecordAnswer(o) ==
  /\ o \notin answers
  /\ answers' = answers \cup {o}
  /\ UNCHANGED <<disposition, threads, messages, feedback, flavors, todo, submissions,
                 listener, slots, recovery, handled, bounds>>

\* The listener dies with all its tasks and is restarted.
ListenerCrash ==
  /\ crashes < MaxCrashes
  /\ crashes' = crashes + 1
  /\ at' = [e \in Event |-> IF at[e] = "unsent" THEN "unsent" ELSE "done"]
  /\ listenerMode' \in Mode
  /\ UNCHANGED <<rows, todo, submissions, slots, recovery, handled, faults>>

\* A control worker dies with the job of a slot, perhaps with the recovery.
Crash(w) ==
  /\ crashes < MaxCrashes
  /\ crashes' = crashes + 1
  /\ pc' = [pc EXCEPT ![w] = "idle"]
  /\ job' = [job EXCEPT ![w] = NoEvent]
  /\ \E v \in Mode : mode' = [mode EXCEPT ![w] = v]
  /\ \/ tick' = "idle" /\ pending' = {}
     \/ UNCHANGED recovery
  /\ UNCHANGED <<rows, todo, submissions, listener, handled, faults>>

-----------------------------------------------------------------------------
Listen(e) == Store(e) \/ Enqueue(e) \/ ReadDisposition(e) \/ MarkQueued(e)

Work(w) ==
  Fetch(w) \/ Process(w) \/ Fail(w) \/ SubmitRun(w) \/ SubmitFlavor(w)

Recover == FindPending \/ EndTick \/ \E e \in pending : Resubmit(e)

Next ==
  \/ \E e \in Event : Ack(e) \/ Listen(e) \/ ListenerRaises(e)
  \/ \E w \in Slot : Work(w) \/ ProcessRaises(w) \/ Crash(w)
  \/ \E o \in Answer : RecordAnswer(o)
  \/ Recover \/ ListenerCrash

Spec == Init /\ [][Next]_vars

\* Some task of the listener and some slot run on while any can, and the
\* scheduler ticks.
Fairness ==
  /\ WF_vars(\E e \in Event : Listen(e))
  /\ WF_vars(\E w \in Slot : Work(w))
  /\ WF_vars(Recover)

FairSpec == Spec /\ Fairness

-----------------------------------------------------------------------------
(* Properties.                                                             *)

\* Every variable has the type the rows, the queue and the tasks give it.
TypeOK ==
  /\ disposition \in [Event -> Disposition]
  /\ threads \subseteq Thread /\ messages \subseteq Message
  /\ feedback \in [Reaction -> {"none", "active", "inactive"}]
  /\ flavors \subseteq Reaction /\ answers \subseteq Answer
  /\ todo \in Seq(Event)
  /\ runsSubmitted \subseteq Message /\ flavorsSubmitted \subseteq Reaction
  /\ at \in [Event -> At] /\ listenerMode \in Mode
  /\ pc \in [Slot -> PC] /\ job \in [Slot -> Event \cup {NoEvent}]
  /\ mode \in [Slot -> Mode]
  /\ tick \in {"idle", "enqueue"} /\ pending \subseteq Event
  /\ handled \in [Event -> Nat]
  /\ crashes \in Nat /\ faults \in Nat

Settled == {"processed", "ignored", "failed"}

\* In the end every stored event is settled and stays so: whatever job or mark
\* is lost or late, the recovery comes back until nothing is received or queued.
EveryEventSettles ==
  <>[](\A e \in Event : disposition[e] \in Settled \cup {"absent"})

\* In the end every stored mention has its message and its run, unless a process
\* in mode off ignored it or its transaction raised; that the listener or a
\* worker dies anywhere on the way excuses nothing.
EveryMentionRuns ==
  <>[](\A e \in Event :
         Kind[e] = "app_mention" /\ disposition[e] \notin {"absent", "ignored", "failed"} =>
           About[e] \in messages)

\* The effects of an event are applied at most twice, and once more for every
\* transaction that raises: the listener's late mark, or a handler's FAILED, can
\* reopen an event that was processed, but neither more than once.
RepetitionsAreBounded == \A e \in Event : handled[e] <= 2 + faults

\* However often a mention or a plug is processed again, its run and its flavor
\* reply are submitted by one transaction only: the unique keys of message,
\* agent_run and slack_output absorb the repetitions.
RepetitionsSubmitNothing ==
  \A w \in Slot :
    /\ pc[w] = "submit_run" =>
         /\ About[job[w]] \notin runsSubmitted
         /\ \A v \in Slot \ {w} : pc[v] = "submit_run" => About[job[v]] # About[job[w]]
    /\ pc[w] = "submit_flavor" =>
         /\ About[job[w]] \notin flavorsSubmitted
         /\ \A v \in Slot \ {w} : pc[v] = "submit_flavor" => About[job[v]] # About[job[w]]

\* A reaction that was removed is inactive once its events are processed.
RemovedReactionsAreInactive ==
  \A e \in Event :
    LET events == {f \in Event : ~IsMessage(f) /\ About[f] = About[e]} IN
    /\ Kind[e] = "reaction_removed"
    /\ \A f \in events : f <= e /\ disposition[f] = "processed"
    => feedback[About[e]] # "active"
=============================================================================
