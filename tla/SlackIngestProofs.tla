-------------------------- MODULE SlackIngestProofs --------------------------
(***************************************************************************)
(* SlackIngest keeps its type, an event's run and flavor reply are         *)
(* submitted by one transaction only, and its effects are applied at most  *)
(* twice and once more for every transaction that raises.                  *)
(***************************************************************************)
EXTENDS SlackIngest, FiniteSetTheorems, TLAPS

Busy(w) == pc[w] # "idle"

\* No job, and no recovery, knows an event before its row exists.
StoredFirst ==
  /\ \A w \in Slot : Busy(w) => job[w] \in Event
  /\ \A e \in Event : at[e] \in {"unsent", "store"} =>
       /\ disposition[e] = "absent"
       /\ e \notin ToSet(todo) /\ e \notin pending
       /\ \A w \in Slot : Busy(w) => job[w] # e

\* A slot that submits is the one that inserted the row.
InsertedOnce ==
  /\ runsSubmitted \subseteq messages /\ flavorsSubmitted \subseteq flavors
  /\ \A w \in Slot : pc[w] = "submit_run" => About[job[w]] \in messages
  /\ \A w \in Slot : pc[w] = "submit_flavor" => About[job[w]] \in flavors
  /\ RepetitionsSubmitNothing

\* What may still let an event be processed: its row is open, its listener may
\* write a late mark, a handler may write a late FAILED.
One(fact) == IF fact THEN 1 ELSE 0
Open(e) == disposition[e] \notin {"processed", "ignored"}
Listening(e) == at[e] \in {"unsent", "store", "enqueue", "read", "mark"}
Failing(e) == {w \in Slot : pc[w] = "fail" /\ job[w] = e}
nFailing(e) == Cardinality(Failing(e))

\* Every transaction that processes an event uses one of them up.
HandlingIsPaid ==
  \A e \in Event :
    handled[e] + One(Open(e)) + One(Listening(e)) + nFailing(e) <= 2 + faults

IInv == TypeOK /\ StoredFirst /\ InsertedOnce /\ HandlingIsPaid

-----------------------------------------------------------------------------
(* The queue, and the slots at the handler.                                *)

\* An append adds one event to those waiting.
LEMMA Waiting ==
  ASSUME NEW s \in Seq(Event), NEW e \in Event
  PROVE  Append(s, e) \in Seq(Event) /\ ToSet(Append(s, e)) = ToSet(s) \cup {e}
<1> DEFINE t == Append(s, e)
<1>1. /\ t \in Seq(Event) /\ Len(s) \in Nat
      /\ DOMAIN s = 1..Len(s) /\ DOMAIN t = 1..(Len(s) + 1)
      /\ t[Len(s) + 1] = e /\ \A i \in 1..Len(s) : t[i] = s[i]
  OBVIOUS
<1> HIDE DEF t
<1>2. \A x \in ToSet(t) : x \in ToSet(s) \cup {e}
  <2> SUFFICES ASSUME NEW i \in 1..(Len(s) + 1) PROVE t[i] \in ToSet(s) \cup {e}
    BY <1>1 DEF ToSet
  <2>1. i \in 1..Len(s) \/ i = Len(s) + 1
    BY <1>1
  <2> QED
    BY <1>1, <2>1 DEF ToSet
<1>3. \A x \in ToSet(s) : x \in ToSet(t)
  <2> SUFFICES ASSUME NEW i \in 1..Len(s) PROVE s[i] \in ToSet(t)
    BY <1>1 DEF ToSet
  <2>1. i \in DOMAIN t
    BY <1>1
  <2> QED
    BY <1>1, <2>1 DEF ToSet
<1>4. Len(s) + 1 \in DOMAIN t
  BY <1>1
<1>5. e \in ToSet(t)
  BY <1>1, <1>4 DEF ToSet
<1> QED
  BY <1>1, <1>2, <1>3, <1>5 DEF t

\* A fetch takes one of them.
LEMMA Taking ==
  ASSUME NEW s \in Seq(Event), s # <<>>
  PROVE  /\ Head(s) \in Event /\ Head(s) \in ToSet(s)
         /\ Tail(s) \in Seq(Event) /\ ToSet(Tail(s)) \subseteq ToSet(s)
BY DEF ToSet

LEMMA FailingType ==
  ASSUME NEW e
  PROVE  IsFiniteSet(Failing(e)) /\ nFailing(e) \in Nat
<1>1. IsFiniteSet(Failing(e))
  BY FS_Subset, IngestAssumption DEF Failing
<1> QED
  BY <1>1, FS_CardinalityType DEF nFailing

LEMMA GainOne ==
  ASSUME NEW w, NEW S, NEW T, IsFiniteSet(S), T \ {w} \subseteq S
  PROVE  Cardinality(T) \in Nat /\ Cardinality(T) + One(w \in S) <= Cardinality(S) + One(w \in T)
<1>1. IsFiniteSet(S \ {w}) /\ T \ {w} \subseteq S \ {w}
  BY FS_RemoveElement
<1>2. IsFiniteSet(T \ {w}) /\ Cardinality(T \ {w}) <= Cardinality(S \ {w})
  BY <1>1, FS_Subset
<1>3. IsFiniteSet((T \ {w}) \cup {w})
  BY <1>2, FS_AddElement
<1>4. IsFiniteSet(T)
  BY <1>3, FS_Subset
<1>5. /\ Cardinality(S) \in Nat /\ Cardinality(T) \in Nat
      /\ Cardinality(S \ {w}) = IF w \in S THEN Cardinality(S) - 1 ELSE Cardinality(S)
      /\ Cardinality(T \ {w}) = IF w \in T THEN Cardinality(T) - 1 ELSE Cardinality(T)
  BY <1>4, FS_CardinalityType, FS_RemoveElement
<1> QED
  BY <1>2, <1>5 DEF One

LEMMA FailingStep ==
  ASSUME NEW w, \A v \in Slot \ {w} : pc'[v] = pc[v] /\ job'[v] = job[v], NEW e
  PROVE  /\ nFailing(e)' \in Nat
         /\ nFailing(e)' + One(w \in Failing(e)) <= nFailing(e) + One(w \in Failing(e)')
<1>1. Failing(e)' \ {w} \subseteq Failing(e)
  BY DEF Failing
<1> QED
  BY <1>1, GainOne, FailingType DEF nFailing

LEMMA FailingSame ==
  ASSUME UNCHANGED <<pc, job>>, NEW e
  PROVE  nFailing(e)' = nFailing(e)
BY DEF nFailing, Failing

-----------------------------------------------------------------------------
(* Types.                                                                  *)

LEMMA TypeInit == Init => TypeOK
BY IngestAssumption DEF Init, TypeOK, Disposition, At, PC

LEMMA TypeOfListener ==
  ASSUME TypeOK, NEW e \in Event, Ack(e) \/ Listen(e) \/ ListenerRaises(e)
  PROVE  TypeOK'
<1>1. Append(todo, e) \in Seq(Event)
  BY Waiting DEF TypeOK
<1>2. CASE Ack(e) \/ ReadDisposition(e)
  BY <1>2 DEF TypeOK, Ack, ReadDisposition, MoveTo, At, listening, effects, submissions, slots,
              recovery, bounds
<1>3. CASE Store(e) \/ MarkQueued(e)
  BY <1>3 DEF TypeOK, Store, MarkQueued, MoveTo, Disposition, At, listening, effects, submissions,
              slots, recovery, bounds
<1>4. CASE Enqueue(e)
  BY <1>1, <1>4 DEF TypeOK, Enqueue, MoveTo, At, listening, effects, submissions, slots, recovery, bounds
<1>5. CASE ListenerRaises(e)
  BY <1>5 DEF TypeOK, ListenerRaises, MoveTo, At, rows, submissions, slots, recovery
<1> QED
  BY <1>2, <1>3, <1>4, <1>5 DEF Listen

LEMMA TypeOfWorld ==
  ASSUME TypeOK, ListenerCrash \/ \E o \in Answer : RecordAnswer(o)
  PROVE  TypeOK'
BY DEF TypeOK, ListenerCrash, RecordAnswer, At, rows, submissions, listener, slots, recovery, bounds

LEMMA TypeOfRecovery ==
  ASSUME TypeOK, Recover
  PROVE  TypeOK'
<1>1. \A e \in Event : Append(todo, e) \in Seq(Event)
  BY Waiting DEF TypeOK
<1> QED
  BY <1>1 DEF TypeOK, Recover, FindPending, Resubmit, EndTick, rows, submissions, listener, slots, bounds

LEMMA TypeOfFetch ==
  ASSUME TypeOK, NEW w \in Slot, Fetch(w)
  PROVE  TypeOK'
<1>1. Head(todo) \in Event /\ Tail(todo) \in Seq(Event)
  BY Taking DEF TypeOK, Fetch
<1> QED
  BY <1>1 DEF TypeOK, Fetch, Goto, EndJob, PC, rows, submissions, listener, recovery, bounds

\* What an event is about, by its kind.
LEMMA AboutType ==
  ASSUME NEW e \in Event
  PROVE  /\ IsMessage(e) => About[e] \in Message /\ ThreadOf[About[e]] \in Thread
         /\ ~IsMessage(e) => About[e] \in Reaction
BY IngestAssumption

LEMMA TypeOfProcess ==
  ASSUME TypeOK, NEW w \in Slot, job[w] \in Event, Process(w)
  PROVE  TypeOK'
<1> DEFINE e == job[w]
<1>1. UNCHANGED processing
  BY DEF Process
<1>2. CASE Ignore(w)
  BY <1>1, <1>2 DEF TypeOK, Ignore, SetDisposition, Goto, EndJob, PC, Disposition, processing, submissions,
                    listener, recovery, bounds
<1>3. CASE EndJob(w) /\ UNCHANGED <<disposition, threads, messages, feedback, flavors, handled>>
  BY <1>1, <1>3 DEF TypeOK, Goto, EndJob, PC, processing, submissions, listener, recovery, bounds
<1>4. ASSUME Processed(e), NEW place \in PC, EndJob(w) \/ Goto(w, place)
      PROVE  /\ disposition' \in [Event -> Disposition] /\ handled' \in [Event -> Nat]
             /\ pc' \in [Slot -> PC] /\ job' \in [Slot -> Event \cup {NoEvent}]
  <2>1. disposition' \in [Event -> Disposition] /\ handled' \in [Event -> Nat]
    BY <1>4 DEF TypeOK, Processed, SetDisposition, Disposition
  <2>2. CASE EndJob(w)
    BY <2>1, <2>2 DEF TypeOK, EndJob, PC
  <2>3. CASE Goto(w, place)
    BY <2>1, <2>3 DEF TypeOK, Goto
  <2> QED
    BY <1>4, <2>2, <2>3
<1>5. CASE IsMessage(e) /\ ProcessMessage(w) /\ ~Ignore(w)
  <2>1. threads' \subseteq Thread /\ messages' \subseteq Message /\ UNCHANGED <<feedback, flavors>>
    BY <1>5, AboutType DEF TypeOK, ProcessMessage
  <2>2. Processed(e) /\ (EndJob(w) \/ Goto(w, "submit_run"))
    BY <1>5 DEF ProcessMessage
  <2>3. /\ disposition' \in [Event -> Disposition] /\ handled' \in [Event -> Nat]
        /\ pc' \in [Slot -> PC] /\ job' \in [Slot -> Event \cup {NoEvent}]
    BY <1>4, <2>2 DEF PC
  <2> QED
    BY <1>1, <2>1, <2>3 DEF TypeOK, processing, submissions, listener, recovery, bounds
<1>6. CASE ~IsMessage(e) /\ ProcessReaction(w) /\ ~Ignore(w)
  <2>1. /\ feedback' \in [Reaction -> {"none", "active", "inactive"}] /\ flavors' \subseteq Reaction
        /\ UNCHANGED <<threads, messages>>
    BY <1>6, AboutType DEF TypeOK, ProcessReaction
  <2>2. Processed(e) /\ (EndJob(w) \/ Goto(w, "submit_flavor"))
    BY <1>6 DEF ProcessReaction
  <2>3. /\ disposition' \in [Event -> Disposition] /\ handled' \in [Event -> Nat]
        /\ pc' \in [Slot -> PC] /\ job' \in [Slot -> Event \cup {NoEvent}]
    BY <1>4, <2>2 DEF PC
  <2> QED
    BY <1>1, <2>1, <2>3 DEF TypeOK, processing, submissions, listener, recovery, bounds
<1>7. \/ Ignore(w)
      \/ EndJob(w) /\ UNCHANGED <<disposition, threads, messages, feedback, flavors, handled>>
      \/ IsMessage(e) /\ ProcessMessage(w)
      \/ ~IsMessage(e) /\ ProcessReaction(w)
  BY DEF Process
<1> QED
  BY <1>2, <1>3, <1>5, <1>6, <1>7

LEMMA TypeOfWork ==
  ASSUME TypeOK, InsertedOnce, NEW w \in Slot, job[w] \in Event,
         Fail(w) \/ SubmitRun(w) \/ SubmitFlavor(w) \/ ProcessRaises(w)
  PROVE  TypeOK'
<1>1. CASE Fail(w)
  BY <1>1 DEF TypeOK, Fail, SetDisposition, Goto, EndJob, PC, Disposition, processing, submissions,
              listener, recovery, bounds
<1>2. CASE SubmitRun(w)
  <2>1. /\ runsSubmitted' \subseteq Message /\ pc' \in [Slot -> PC]
        /\ job' \in [Slot -> Event \cup {NoEvent}]
    BY <1>2 DEF TypeOK, InsertedOnce, SubmitRun, Goto, EndJob, PC
  <2> QED
    BY <1>2, <2>1 DEF TypeOK, SubmitRun, rows, listener, recovery, bounds
<1>3. CASE SubmitFlavor(w)
  <2>1. /\ flavorsSubmitted' \subseteq Reaction /\ pc' \in [Slot -> PC]
        /\ job' \in [Slot -> Event \cup {NoEvent}]
    BY <1>3 DEF TypeOK, InsertedOnce, SubmitFlavor, Goto, EndJob, PC
  <2> QED
    BY <1>3, <2>1 DEF TypeOK, SubmitFlavor, rows, listener, recovery, bounds
<1>5. CASE ProcessRaises(w)
  BY <1>5 DEF TypeOK, ProcessRaises, Goto, EndJob, PC, rows, submissions, listener, recovery
<1> QED
  BY <1>1, <1>2, <1>3, <1>5

LEMMA TypeOfCrash ==
  ASSUME TypeOK, NEW w \in Slot, Crash(w)
  PROVE  TypeOK'
BY DEF TypeOK, Crash, PC, rows, submissions, listener, recovery

LEMMA TypeStep == TypeOK /\ StoredFirst /\ InsertedOnce /\ [Next]_vars => TypeOK'
<1> SUFFICES ASSUME TypeOK, StoredFirst, InsertedOnce, [Next]_vars PROVE TypeOK'
  OBVIOUS
<1>1. CASE UNCHANGED vars
  BY <1>1 DEF TypeOK, vars, rows, submissions, listener, slots, recovery, bounds
<1>2. ASSUME NEW w \in Slot, Work(w) \/ ProcessRaises(w) \/ Crash(w)
      PROVE  TypeOK'
  <2>1. Fetch(w) \/ Crash(w) \/ job[w] \in Event
    BY <1>2 DEF StoredFirst, Busy, Work, Process, Fail, SubmitRun, SubmitFlavor, ProcessRaises
  <2> QED
    BY <1>2, <2>1, TypeOfFetch, TypeOfProcess, TypeOfWork, TypeOfCrash DEF Work
<1> QED
  BY <1>1, <1>2, TypeOfListener, TypeOfWorld, TypeOfRecovery DEF Next

-----------------------------------------------------------------------------
(* Events are stored first.                                                *)

\* Only the listener moves an event to where jobs may know it.
LEMMA StoredStep == TypeOK /\ StoredFirst /\ [Next]_vars => StoredFirst'
<1> SUFFICES ASSUME TypeOK, StoredFirst, [Next]_vars PROVE StoredFirst'
  OBVIOUS
<1>1. ASSUME UNCHANGED <<todo, pending, pc, job>>,
             \A e \in Event : at'[e] \in {"unsent", "store"} =>
               at[e] \in {"unsent", "store"} /\ disposition'[e] = disposition[e]
      PROVE  StoredFirst'
  BY <1>1 DEF StoredFirst, Busy
<1>2. ASSUME NEW e \in Event, Ack(e) \/ Store(e) \/ ReadDisposition(e) \/ MarkQueued(e) \/ ListenerRaises(e)
      PROVE  StoredFirst'
  <2>1. UNCHANGED <<todo, pending, pc, job>>
    BY <1>2 DEF Ack, Store, ReadDisposition, MarkQueued, ListenerRaises, listening, slots, recovery
  <2>2. ASSUME NEW f \in Event, at'[f] \in {"unsent", "store"}
        PROVE  at[f] \in {"unsent", "store"} /\ disposition'[f] = disposition[f]
    BY <1>2, <2>2 DEF TypeOK, Ack, Store, ReadDisposition, MarkQueued, ListenerRaises, MoveTo, rows
  <2> QED
    BY <1>1, <2>1, <2>2
<1>3. ASSUME NEW e \in Event, Enqueue(e)
      PROVE  StoredFirst'
  <2>1. /\ UNCHANGED <<disposition, pending, pc, job>> /\ at[e] = "enqueue"
        /\ at'[e] \notin {"unsent", "store"} /\ \A f \in Event \ {e} : at'[f] = at[f]
    BY <1>3 DEF TypeOK, Enqueue, MoveTo, listening, slots, recovery
  <2>2. ToSet(todo') \subseteq ToSet(todo) \cup {e}
    BY <1>3, Waiting DEF Enqueue, TypeOK
  <2> QED
    BY <2>1, <2>2 DEF StoredFirst, Busy
<1>4. CASE ListenerCrash
  <2>1. /\ UNCHANGED <<todo, pending, pc, job, disposition>>
        /\ \A e \in Event : at'[e] \in {"unsent", "store"} => at[e] = "unsent"
    BY <1>4 DEF ListenerCrash, rows, slots, recovery
  <2> QED
    BY <1>1, <2>1
<1>5. CASE \E o \in Answer : RecordAnswer(o)
  BY <1>1, <1>5 DEF RecordAnswer, listener, slots, recovery
<1>6. CASE FindPending \/ EndTick
  <2>1. /\ UNCHANGED <<disposition, at, todo, pc, job>>
        /\ pending' \subseteq {e \in Event : disposition[e] # "absent"}
    BY <1>6 DEF FindPending, EndTick, rows, listener, slots
  <2> QED
    BY <2>1 DEF StoredFirst, Busy
<1>7. ASSUME NEW e \in pending, Resubmit(e)
      PROVE  StoredFirst'
  <2>1. UNCHANGED <<disposition, at, pc, job>> /\ pending' \subseteq pending
    BY <1>7 DEF Resubmit, rows, listener, slots
  <2>2. ToSet(todo') \subseteq ToSet(todo) \cup {e}
    BY <1>7, Waiting DEF Resubmit, TypeOK
  <2> QED
    BY <2>1, <2>2 DEF StoredFirst, Busy, TypeOK
<1>8. ASSUME NEW w \in Slot, Fetch(w)
      PROVE  StoredFirst'
  <2>1. /\ UNCHANGED <<disposition, at, pending>> /\ job'[w] = Head(todo)
        /\ \A v \in Slot \ {w} : pc'[v] = pc[v] /\ job'[v] = job[v]
    BY <1>8 DEF Fetch, Goto, EndJob, TypeOK, rows, listener, recovery
  <2>2. Head(todo) \in Event /\ Head(todo) \in ToSet(todo) /\ ToSet(todo') \subseteq ToSet(todo)
    BY <1>8, Taking DEF Fetch, TypeOK
  <2> QED
    BY <2>1, <2>2 DEF StoredFirst, Busy
<1>9. ASSUME NEW w \in Slot,
             \/ Process(w) \/ Fail(w) \/ SubmitRun(w) \/ SubmitFlavor(w)
             \/ ProcessRaises(w)
      PROVE  StoredFirst'
  <2>1. Busy(w) /\ job[w] \in Event
    BY <1>9 DEF StoredFirst, Busy, Process, Fail, SubmitRun, SubmitFlavor, ProcessRaises
  <2>2. UNCHANGED <<at, todo, pending>>
    BY <1>9 DEF Process, Fail, SubmitRun, SubmitFlavor, ProcessRaises, processing, listener,
                recovery
  <2>3. \A v \in Slot \ {w} : pc'[v] = pc[v] /\ job'[v] = job[v]
    BY <1>9 DEF Process, ProcessMessage, ProcessReaction, Ignore, Fail, SubmitRun, SubmitFlavor,
                ProcessRaises, Goto, EndJob, TypeOK, processing
  <2>4. job'[w] = job[w] \/ pc'[w] = "idle"
    BY <1>9 DEF Process, ProcessMessage, ProcessReaction, Ignore, Fail, SubmitRun, SubmitFlavor,
                ProcessRaises, Goto, EndJob, TypeOK
  <2>5. \A e \in Event \ {job[w]} : disposition'[e] = disposition[e]
    BY <1>9 DEF Process, ProcessMessage, ProcessReaction, Ignore, Processed, Fail, SubmitRun,
                SubmitFlavor, ProcessRaises, SetDisposition, TypeOK, rows
  <2>6. at[job[w]] \notin {"unsent", "store"}
    BY <2>1 DEF StoredFirst
  <2> QED
    BY <2>1, <2>2, <2>3, <2>4, <2>5, <2>6 DEF StoredFirst, Busy
<1>10. ASSUME NEW w \in Slot, Crash(w)
       PROVE  StoredFirst'
  <2>1. /\ UNCHANGED <<disposition, at, todo>> /\ pending' \subseteq pending
        /\ pc'[w] = "idle" /\ \A v \in Slot \ {w} : pc'[v] = pc[v] /\ job'[v] = job[v]
    BY <1>10 DEF Crash, TypeOK, rows, listener, recovery
  <2> QED
    BY <2>1 DEF StoredFirst, Busy
<1>11. CASE UNCHANGED vars
  BY <1>1, <1>11 DEF vars, rows, listener, slots, recovery
<1> QED
  BY <1>2, <1>3, <1>4, <1>5, <1>6, <1>7, <1>8, <1>9, <1>10, <1>11 DEF Next, Listen, Work, Recover

-----------------------------------------------------------------------------
(* Rows are inserted, and jobs of them submitted, once.                    *)

LEMMA OnceStep == TypeOK /\ StoredFirst /\ InsertedOnce /\ [Next]_vars => InsertedOnce'
<1> SUFFICES ASSUME TypeOK, StoredFirst, InsertedOnce, [Next]_vars PROVE InsertedOnce'
  OBVIOUS
<1>1. ASSUME UNCHANGED <<messages, flavors, submissions>>,
             \A w \in Slot : pc'[w] \in {"submit_run", "submit_flavor"} =>
               pc'[w] = pc[w] /\ job'[w] = job[w]
      PROVE  InsertedOnce'
  BY <1>1 DEF InsertedOnce, RepetitionsSubmitNothing, submissions
<1>2. ASSUME NEW e \in Event, Ack(e) \/ Listen(e) \/ ListenerRaises(e)
      PROVE  InsertedOnce'
  BY <1>1, <1>2 DEF Ack, Listen, Store, Enqueue, ReadDisposition, MarkQueued, ListenerRaises,
                    listening, effects, rows, slots
<1>3. CASE ListenerCrash \/ \E o \in Answer : RecordAnswer(o)
  BY <1>1, <1>3 DEF ListenerCrash, RecordAnswer, rows, slots
<1>4. CASE Recover
  BY <1>1, <1>4 DEF Recover, FindPending, EndTick, Resubmit, rows, slots
<1>5. ASSUME NEW w \in Slot, Fetch(w) \/ Fail(w) \/ ProcessRaises(w) \/ Crash(w)
      PROVE  InsertedOnce'
  <2>1. UNCHANGED <<messages, flavors, submissions>>
    BY <1>5 DEF Fetch, Fail, ProcessRaises, Crash, rows, processing
  <2>2. /\ pc'[w] \notin {"submit_run", "submit_flavor"}
        /\ \A v \in Slot \ {w} : pc'[v] = pc[v] /\ job'[v] = job[v]
    BY <1>5 DEF Fetch, Fail, ProcessRaises, Crash, Goto, EndJob, TypeOK, processing
  <2> QED
    BY <1>1, <2>1, <2>2
<1>6. ASSUME NEW w \in Slot, Process(w)
      PROVE  InsertedOnce'
  <2> DEFINE a == About[job[w]]
  <2>1. /\ UNCHANGED submissions
        /\ job'[w] = job[w] \/ pc'[w] = "idle"
        /\ \A v \in Slot \ {w} : pc'[v] = pc[v] /\ job'[v] = job[v]
    BY <1>6 DEF Process, ProcessMessage, ProcessReaction, Ignore, Goto, EndJob, TypeOK, processing
  <2>2. \/ pc'[w] \notin {"submit_run", "submit_flavor"}
        \/ pc'[w] = "submit_run" /\ a \notin messages /\ a \in messages'
        \/ pc'[w] = "submit_flavor" /\ a \notin flavors /\ a \in flavors'
    BY <1>6 DEF Process, ProcessMessage, ProcessReaction, Ignore, Goto, EndJob, TypeOK
  <2>3. messages \subseteq messages' /\ flavors \subseteq flavors'
    BY <1>6 DEF Process, ProcessMessage, ProcessReaction, Ignore
  <2>4. /\ runsSubmitted' \subseteq messages' /\ flavorsSubmitted' \subseteq flavors'
        /\ \A v \in Slot : pc'[v] = "submit_run" => About[job'[v]] \in messages'
        /\ \A v \in Slot : pc'[v] = "submit_flavor" => About[job'[v]] \in flavors'
    BY <2>1, <2>2, <2>3 DEF InsertedOnce, submissions
  <2>5. ASSUME NEW u \in Slot, pc'[u] = "submit_run"
        PROVE  /\ About[job'[u]] \notin runsSubmitted'
               /\ \A v \in Slot \ {u} : pc'[v] = "submit_run" => About[job'[v]] # About[job'[u]]
    BY <2>1, <2>2, <2>5 DEF InsertedOnce, RepetitionsSubmitNothing, submissions
  <2>6. ASSUME NEW u \in Slot, pc'[u] = "submit_flavor"
        PROVE  /\ About[job'[u]] \notin flavorsSubmitted'
               /\ \A v \in Slot \ {u} : pc'[v] = "submit_flavor" => About[job'[v]] # About[job'[u]]
    BY <2>1, <2>2, <2>6 DEF InsertedOnce, RepetitionsSubmitNothing, submissions
  <2> QED
    BY <2>4, <2>5, <2>6 DEF InsertedOnce, RepetitionsSubmitNothing
<1>7. ASSUME NEW w \in Slot, SubmitRun(w) \/ SubmitFlavor(w)
      PROVE  InsertedOnce'
  <2>1. /\ UNCHANGED <<messages, flavors>> /\ pc'[w] = "idle"
        /\ \A v \in Slot \ {w} : pc'[v] = pc[v] /\ job'[v] = job[v]
    BY <1>7 DEF SubmitRun, SubmitFlavor, Goto, EndJob, TypeOK, rows
  <2>2. CASE SubmitRun(w)
    <3>1. pc[w] = "submit_run" /\ runsSubmitted' \subseteq runsSubmitted \cup {About[job[w]]}
          /\ UNCHANGED flavorsSubmitted
      BY <2>2 DEF SubmitRun
    <3> QED
      BY <2>1, <3>1 DEF InsertedOnce, RepetitionsSubmitNothing
  <2>3. CASE SubmitFlavor(w)
    <3>1. pc[w] = "submit_flavor" /\ flavorsSubmitted' \subseteq flavorsSubmitted \cup {About[job[w]]}
          /\ UNCHANGED runsSubmitted
      BY <2>3 DEF SubmitFlavor
    <3> QED
      BY <2>1, <3>1 DEF InsertedOnce, RepetitionsSubmitNothing
  <2> QED
    BY <1>7, <2>2, <2>3
<1>8. CASE UNCHANGED vars
  BY <1>1, <1>8 DEF vars, rows, slots
<1> QED
  BY <1>2, <1>3, <1>4, <1>5, <1>6, <1>7, <1>8 DEF Next, Work

-----------------------------------------------------------------------------
(* Handling is paid for.                                                   *)

LEMMA PaidStep == TypeOK /\ StoredFirst /\ HandlingIsPaid /\ [Next]_vars => HandlingIsPaid'
<1> SUFFICES ASSUME TypeOK, StoredFirst, HandlingIsPaid, [Next]_vars PROVE HandlingIsPaid'
  OBVIOUS
<1>1. ASSUME NEW e \in Event
      PROVE  /\ handled[e] \in Nat /\ nFailing(e) \in Nat
             /\ One(Open(e)) \in 0..1 /\ One(Listening(e)) \in 0..1
             /\ One(Open(e)') \in 0..1 /\ One(Listening(e)') \in 0..1
             /\ handled[e] + One(Open(e)) + One(Listening(e)) + nFailing(e) <= 2 + faults
  BY FailingType DEF TypeOK, One, HandlingIsPaid
\* Steps of the listener, the recovery and the world.
<1>2. ASSUME UNCHANGED <<pc, job, handled>>, faults' = faults \/ faults' = faults + 1,
             \A e \in Event :
               \/ (Listening(e)' => Listening(e)) /\ (Open(e)' => Open(e))
               \/ Listening(e) /\ ~Listening(e)'
      PROVE  HandlingIsPaid'
  <2> SUFFICES ASSUME NEW e \in Event
               PROVE  handled[e] + One(Open(e)') + One(Listening(e)') + nFailing(e)' <= 2 + faults'
    BY <1>2 DEF HandlingIsPaid
  <2>1. nFailing(e)' = nFailing(e)
    BY <1>2, FailingSame
  <2>2. One(Open(e)') + One(Listening(e)') <= One(Open(e)) + One(Listening(e))
    BY <1>2 DEF One
  <2>3. faults \in Nat
    BY DEF TypeOK
  <2>4. handled[e] + One(Open(e)') + One(Listening(e)') + nFailing(e) <= 2 + faults
    BY <1>1, <2>2, <2>3
  <2> QED
    BY <1>1, <1>2, <2>1, <2>3, <2>4
<1>3. ASSUME NEW e \in Event, Ack(e) \/ Listen(e) \/ ListenerRaises(e)
      PROVE  HandlingIsPaid'
  <2>1. UNCHANGED <<pc, job, handled>> /\ (faults' = faults \/ faults' = faults + 1)
    BY <1>3 DEF Ack, Listen, Store, Enqueue, ReadDisposition, MarkQueued, ListenerRaises, listening,
                slots, bounds
  <2>2. ASSUME NEW f \in Event \ {e}
        PROVE  Listening(f)' = Listening(f) /\ Open(f)' = Open(f)
    BY <1>3 DEF TypeOK, Ack, Listen, Store, Enqueue, ReadDisposition, MarkQueued, ListenerRaises, MoveTo,
                Listening, Open, rows
  <2>3. \/ (Listening(e)' => Listening(e)) /\ (Open(e)' => Open(e))
        \/ Listening(e) /\ ~Listening(e)'
    BY <1>3 DEF TypeOK, StoredFirst, Ack, Listen, Store, Enqueue, ReadDisposition, MarkQueued,
                ListenerRaises, MoveTo, Listening, Open, rows
  <2> QED
    BY <1>2, <2>1, <2>2, <2>3
<1>4. CASE ListenerCrash \/ (\E o \in Answer : RecordAnswer(o)) \/ Recover \/ UNCHANGED vars
  <2>1. UNCHANGED <<pc, job, handled, faults, disposition>>
    BY <1>4 DEF ListenerCrash, RecordAnswer, Recover, FindPending, Resubmit, EndTick, vars, rows, slots,
                bounds
  <2>2. \A e \in Event : (Listening(e)' => Listening(e)) /\ Open(e)' = Open(e)
    BY <1>4 DEF ListenerCrash, RecordAnswer, Recover, FindPending, Resubmit, EndTick, vars, rows,
                listener, Listening, Open
  <2> QED
    BY <1>2, <2>1, <2>2
\* Steps of a slot.
<1>5. ASSUME NEW w \in Slot, NEW paid \in 0..1, faults' = faults + paid, UNCHANGED at,
             \A v \in Slot \ {w} : pc'[v] = pc[v] /\ job'[v] = job[v],
             \A e \in Event :
               /\ handled'[e] \in Nat
               /\ handled'[e] + One(Open(e)') + One(w \in Failing(e)')
                    <= handled[e] + One(Open(e)) + One(w \in Failing(e)) + paid
      PROVE  HandlingIsPaid'
  <2> SUFFICES ASSUME NEW e \in Event
               PROVE  handled'[e] + One(Open(e)') + One(Listening(e)) + nFailing(e)' <= 2 + (faults + paid)
    BY <1>5 DEF HandlingIsPaid, Listening
  <2>1. /\ nFailing(e)' \in Nat
        /\ nFailing(e)' + One(w \in Failing(e)) <= nFailing(e) + One(w \in Failing(e)')
    BY <1>5, FailingStep
  <2>2. One(w \in Failing(e)) \in 0..1 /\ One(w \in Failing(e)') \in 0..1 /\ faults \in Nat
    BY DEF One, TypeOK
  <2>3. /\ handled'[e] \in Nat
        /\ handled'[e] + One(Open(e)') + One(w \in Failing(e)')
             <= handled[e] + One(Open(e)) + One(w \in Failing(e)) + paid
    BY <1>5
  <2> QED
    BY <1>1, <2>1, <2>2, <2>3
<1>6. ASSUME NEW w \in Slot, Fetch(w) \/ SubmitRun(w) \/ SubmitFlavor(w) \/ Crash(w)
      PROVE  HandlingIsPaid'
  <2>1. /\ UNCHANGED <<disposition, handled, at>> /\ faults' = faults + 0
        /\ \A v \in Slot \ {w} : pc'[v] = pc[v] /\ job'[v] = job[v]
        /\ pc'[w] # "fail"
    BY <1>6 DEF Fetch, SubmitRun, SubmitFlavor, Crash, Goto, EndJob, TypeOK, rows, listener, bounds
  <2>2. ASSUME NEW e \in Event
        PROVE  /\ handled'[e] \in Nat
               /\ handled'[e] + One(Open(e)') + One(w \in Failing(e)')
                    <= handled[e] + One(Open(e)) + One(w \in Failing(e)) + 0
    BY <1>1, <2>1 DEF Failing, Open, One
  <2> QED
    BY <1>5, <2>1, <2>2
<1>7. ASSUME NEW w \in Slot, Process(w)
      PROVE  HandlingIsPaid'
  <2>1. /\ UNCHANGED at /\ faults' = faults + 0
        /\ \A v \in Slot \ {w} : pc'[v] = pc[v] /\ job'[v] = job[v]
        /\ pc'[w] # "fail" /\ job[w] \in Event
    BY <1>7 DEF Process, ProcessMessage, ProcessReaction, Ignore, Goto, EndJob, TypeOK, StoredFirst, Busy,
                processing, listener, bounds
  <2>2. ASSUME NEW e \in Event
        PROVE  \/ handled'[e] = handled[e] /\ (Open(e)' => Open(e))
               \/ handled'[e] = handled[e] + 1 /\ Open(e) /\ ~Open(e)'
    BY <1>7, <2>1 DEF Process, ProcessMessage, ProcessReaction, Ignore, Processed, SetDisposition,
                      Open, TypeOK
  <2>3. ASSUME NEW e \in Event
        PROVE  /\ handled'[e] \in Nat
               /\ handled'[e] + One(Open(e)') + One(w \in Failing(e)')
                    <= handled[e] + One(Open(e)) + One(w \in Failing(e)) + 0
    BY <1>1, <2>1, <2>2 DEF Failing, One
  <2> QED
    BY <1>5, <2>1, <2>3
<1>8. ASSUME NEW w \in Slot, Fail(w)
      PROVE  HandlingIsPaid'
  <2>1. /\ UNCHANGED <<at, handled>> /\ faults' = faults + 0
        /\ \A v \in Slot \ {w} : pc'[v] = pc[v] /\ job'[v] = job[v]
        /\ pc[w] = "fail" /\ pc'[w] # "fail" /\ job[w] \in Event
        /\ \A e \in Event \ {job[w]} : disposition'[e] = disposition[e]
    BY <1>8 DEF Fail, SetDisposition, Goto, EndJob, TypeOK, StoredFirst, Busy, processing, listener, bounds
  <2>2. ASSUME NEW e \in Event
        PROVE  /\ handled'[e] \in Nat
               /\ handled'[e] + One(Open(e)') + One(w \in Failing(e)')
                    <= handled[e] + One(Open(e)) + One(w \in Failing(e)) + 0
    BY <1>1, <2>1 DEF Failing, Open, One
  <2> QED
    BY <1>5, <2>1, <2>2
<1>9. ASSUME NEW w \in Slot, ProcessRaises(w)
      PROVE  HandlingIsPaid'
  <2>1. /\ UNCHANGED <<at, handled, disposition>> /\ faults' = faults + 1
        /\ \A v \in Slot \ {w} : pc'[v] = pc[v] /\ job'[v] = job[v]
        /\ pc[w] = "process"
    BY <1>9 DEF ProcessRaises, Goto, EndJob, TypeOK, rows, listener
  <2>2. ASSUME NEW e \in Event
        PROVE  /\ handled'[e] \in Nat
               /\ handled'[e] + One(Open(e)') + One(w \in Failing(e)')
                    <= handled[e] + One(Open(e)) + One(w \in Failing(e)) + 1
    BY <1>1, <2>1 DEF Open, One
  <2> QED
    BY <1>5, <2>1, <2>2
<1> QED
  BY <1>3, <1>4, <1>6, <1>7, <1>8, <1>9 DEF Next, Work

-----------------------------------------------------------------------------
(* The theorems.                                                           *)

LEMMA InitInv == Init => IInv
<1> SUFFICES ASSUME Init PROVE IInv
  OBVIOUS
<1>1. StoredFirst
  BY DEF Init, StoredFirst, Busy, ToSet
<1>2. InsertedOnce
  BY DEF Init, InsertedOnce, RepetitionsSubmitNothing
<1>3. \A e : Failing(e) = {}
  BY DEF Init, Failing
<1>4. \A e : nFailing(e) = 0
  BY <1>3, FS_EmptySet DEF nFailing
<1>5. HandlingIsPaid
  BY <1>4 DEF Init, HandlingIsPaid, One
<1> QED
  BY <1>1, <1>2, <1>5, TypeInit DEF IInv

\* The strengthening that the safety properties of this module follow from.
THEOREM Invariance == Spec => []IInv
<1>1. IInv /\ [Next]_vars => IInv'
  BY TypeStep, StoredStep, OnceStep, PaidStep DEF IInv
<1> QED
  BY <1>1, InitInv, PTL DEF Spec

\* Every variable keeps its type, late marks and late failures included.
THEOREM TypeCorrect == Spec => []TypeOK
BY Invariance, PTL DEF IInv

\* A run and a flavor reply are submitted by the transaction that inserted their
\* row, however often their event is processed.
THEOREM SubmittedOnce == Spec => []RepetitionsSubmitNothing
BY Invariance, PTL DEF IInv, InsertedOnce

\* The effects of an event are applied at most twice, and once more for every
\* transaction that raises.
THEOREM HandledBounded == Spec => []RepetitionsAreBounded
<1>1. IInv => RepetitionsAreBounded
  <2> SUFFICES ASSUME IInv, NEW e \in Event PROVE handled[e] <= 2 + faults
    BY DEF RepetitionsAreBounded
  <2>1. handled[e] \in Nat /\ faults \in Nat /\ nFailing(e) \in Nat
    BY FailingType DEF IInv, TypeOK
  <2>2. One(Open(e)) \in 0..1 /\ One(Listening(e)) \in 0..1
    BY DEF One
  <2>3. handled[e] + One(Open(e)) + One(Listening(e)) + nFailing(e) <= 2 + faults
    BY DEF IInv, HandlingIsPaid
  <2> QED
    BY <2>1, <2>2, <2>3
<1> QED
  BY <1>1, Invariance, PTL
=============================================================================
