--------------------------- MODULE DeploymentProofs ---------------------------
(***************************************************************************)
(* The update script cancels no job it had to see at its last count, and   *)
(* starts again what it stopped, for any number of images, jobs and        *)
(* failures.                                                               *)
(***************************************************************************)
EXTENDS Deployment, TLAPS

\* A counted job is one that a reporting worker is running; the script stops
\* the workers after it has counted none.
CountedAreBusy ==
  /\ \A w \in counted : job[w] /\ beat[w] /\ proc[w] = "up"
  /\ pc = "stop_workers" => counted = {}

\* How far the script has got with stopping.
StoppedSoFar ==
  /\ pc = "compare" => stopped = {}
  /\ pc \in {"stop_ingress", "drain", "count", "restart"} => stopped \subseteq Ingress
  /\ pc \in {"drain", "count", "restart", "stop_workers", "recount", "up"} =>
       \A s \in Ingress : proc[s] = "down"
  /\ pc = "resume" => \A s \in Ingress : proc[s] # "stopping"
  /\ pc \in {"recount", "up"} => \A s \in Worker : proc[s] = "down"
  /\ pc = "ready" => \A s \in Service : proc[s] \in {"starting", "up"}

IInv == TypeOK /\ CountedAreBusy /\ StoppedSoFar

LEMMA Disjoint == Ingress \cap Worker = {}
BY DeploymentAssumption

LEMMA Parts == Component \subseteq Service /\ Worker \subseteq Component /\ Ingress \subseteq Service
BY DeploymentAssumption DEF Service, Component

-----------------------------------------------------------------------------
(* Types.                                                                  *)

LEMMA Bounds ==
  /\ 0 \in 0..MaxVersion /\ 0 \in 0..MaxJobs /\ 0 \in 0..MaxFailures
  /\ \A n \in 0..MaxVersion : n < MaxVersion => n + 1 \in 0..MaxVersion
  /\ \A n \in 0..MaxJobs : n < MaxJobs => n + 1 \in 0..MaxJobs
  /\ \A n \in 0..MaxFailures : n < MaxFailures => n + 1 \in 0..MaxFailures
BY DeploymentAssumption

LEMMA FailureType ==
  ASSUME TypeOK, Failure
  PROVE  failures' \in 0..MaxFailures
BY Bounds DEF TypeOK, Failure

LEMMA TypeInit == Init => TypeOK
<1>1. Running \in Row
  BY DEF Running, Row
<1> QED
  BY <1>1, Bounds DEF Init, TypeOK, PC

\* Every way a process ends leaves it down or starting again.
LEMMA GoneType ==
  ASSUME TypeOK, NEW s \in Service, NEW to \in {"down", "starting"}, Gone(s, to)
  PROVE  /\ proc' \in [Service -> {"down", "starting", "up", "stopping"}]
         /\ beat' \in [Component -> BOOLEAN]
BY DEF Gone, TypeOK

LEMMA RowType ==
  /\ Running \in Row /\ Stopped \in Row
  /\ \A r \in Row : [r EXCEPT !.fresh = FALSE] \in Row
BY DEF Running, Stopped, Row

LEMMA TypeOfProcess ==
  ASSUME TypeOK, NEW s \in Service, Boot(s) \/ Exit(s) \/ Kill(s) \/ Crash(s)
  PROVE  TypeOK'
<1>1. CASE Boot(s)
  BY <1>1, RowType DEF TypeOK, Boot, TouchRow, jobs, script
<1>2. CASE Exit(s)
  <2>1. /\ proc' \in [Service -> {"down", "starting", "up", "stopping"}]
        /\ beat' \in [Component -> BOOLEAN]
    BY <1>2, GoneType DEF Exit
  <2>2. row' \in [Component -> Row]
    BY <1>2, RowType DEF Exit, TypeOK
  <2> QED
    BY <1>2, <2>1, <2>2 DEF TypeOK, Exit, script
<1>3. CASE Kill(s) \/ Crash(s)
  <2>1. Gone(s, "down") \/ Gone(s, "starting")
    BY <1>3 DEF Kill, Crash
  <2>2. /\ proc' \in [Service -> {"down", "starting", "up", "stopping"}]
        /\ beat' \in [Component -> BOOLEAN]
    BY <2>1, GoneType
  <2>3. Abandon(s) /\ UNCHANGED <<registry, image, fetches, row, script, left>>
    BY <1>3 DEF Kill, Crash, health
  <2>4. job' \in [Worker -> BOOLEAN] /\ orphan' \in [Worker -> BOOLEAN] /\ counted' \subseteq Worker
    BY <2>3 DEF Abandon, TypeOK
  <2>5. late' \in [Component -> BOOLEAN] /\ failures' \in 0..MaxFailures
    BY <1>3, FailureType DEF Kill, Crash, TypeOK, health
  <2> QED
    BY <2>2, <2>3, <2>4, <2>5 DEF TypeOK, script
<1> QED
  BY <1>1, <1>2, <1>3

LEMMA TypeOfHeartbeat ==
  ASSUME TypeOK, NEW c \in Component, Beat(c) \/ Land(c) \/ Lapse(c) \/ Recover(c) \/ Age(c)
  PROVE  TypeOK'
<1>1. [row[c] EXCEPT !.fresh = FALSE] \in Row
  BY RowType DEF TypeOK
<1>2. CASE Beat(c) \/ Land(c) \/ Age(c)
  BY <1>1, <1>2, RowType DEF TypeOK, Beat, Land, Age, TouchRow, procs, jobs, script
<1>3. CASE Lapse(c)
  BY <1>1, <1>3, FailureType DEF TypeOK, Lapse, script
<1>4. CASE Recover(c)
  BY <1>4 DEF TypeOK, Recover, health, script
<1> QED
  BY <1>2, <1>3, <1>4

LEMMA TypeOfJob ==
  ASSUME TypeOK, NEW w \in Worker, Fetch(w) \/ Finish(w) \/ Expire(w)
  PROVE  TypeOK'
<1>1. CASE Fetch(w)
  <2>1. fetches' \in 0..MaxJobs
    BY <1>1, Bounds DEF Fetch, TypeOK
  <2> QED
    BY <1>1, <2>1 DEF TypeOK, Fetch, procs, health, script
<1>2. CASE Finish(w) \/ Expire(w)
  BY <1>2 DEF TypeOK, Finish, Expire, procs, health, script
<1> QED
  BY <1>1, <1>2

\* The script moves processes between their states.
LEMMA MovesType ==
  ASSUME TypeOK, NEW S \in SUBSET Service
  PROVE  /\ Launch(S) => proc' \in [Service -> {"down", "starting", "up", "stopping"}]
         /\ Replace(S) => image' \in [Component -> 0..MaxVersion]
BY DEF TypeOK, Launch, Replace

LEMMA TypeOfScript ==
  ASSUME TypeOK, Update \/ Trapped \/ ScriptEnds \/ Publish
  PROVE  TypeOK'
<1>1. CASE Pull
  <2>1. failures' \in 0..MaxFailures /\ local' \in 0..MaxVersion /\ changed' \in BOOLEAN
    BY <1>1, FailureType DEF TypeOK, Pull
  <2> QED
    BY <1>1, <2>1 DEF TypeOK, Pull, Goto, PC, running, procs, jobs, health
<1>2. CASE Compare
  <2>1. failures' \in 0..MaxFailures /\ pc' \in PC
    BY <1>2, FailureType DEF TypeOK, Compare, Goto, PC
  <2> QED
    BY <1>2, <2>1 DEF TypeOK, Compare, running, procs, jobs, health
<1>10. CASE Trapped
  <2>1. failures' \in 0..MaxFailures /\ pc' \in PC
    BY <1>10, FailureType DEF TypeOK, Trapped, Goto, PC
  <2>2. proc' \in [Service -> {"down", "starting", "up", "stopping"}]
    BY <1>10, MovesType, Parts DEF Trapped, TypeOK
  <2> QED
    BY <1>10, <2>1, <2>2 DEF TypeOK, Trapped, jobs, health
<1>3. ASSUME NEW S \in {Ingress, Worker}, NEW next \in PC, Stop(S, next)
      PROVE  TypeOK'
  BY <1>3, Parts DEF TypeOK, Stop, Goto, jobs, health
<1>4. CASE StopIngress \/ StopWorkers
  BY <1>3, <1>4 DEF StopIngress, StopWorkers, PC
<1>5. CASE Drain \/ Count \/ Recount \/ AwaitReady
  BY <1>5 DEF TypeOK, Drain, Count, Recount, AwaitReady, Goto, PC, running, procs, jobs, health
<1>6. CASE Restart \/ Resume
  BY <1>6, MovesType, Parts DEF TypeOK, Restart, Resume, Goto, PC, jobs, health
<1>7. CASE Up
  BY <1>7, MovesType DEF TypeOK, Up, Replace, Goto, PC, jobs, health
<1>8. CASE ScriptEnds
  <2>1. /\ proc' \in [Service -> {"down", "starting", "up", "stopping"}]
        /\ image' \in [Component -> 0..MaxVersion]
    BY <1>8, MovesType, Parts DEF ScriptEnds, Replace, TypeOK
  <2>2. left' \subseteq Service \ Component
    BY <1>8 DEF ScriptEnds, TypeOK
  <2> QED
    BY <1>8, <2>1, <2>2, FailureType DEF TypeOK, ScriptEnds, Goto, PC, jobs, health
<1>9. CASE Publish
  BY <1>9, Bounds DEF TypeOK, Publish, procs, jobs, health, script
<1> QED
  BY <1>1, <1>2, <1>4, <1>5, <1>6, <1>7, <1>8, <1>9, <1>10 DEF Update

LEMMA TypeStep == TypeOK /\ [Next]_vars => TypeOK'
<1> SUFFICES ASSUME TypeOK, [Next]_vars PROVE TypeOK'
  OBVIOUS
<1>1. CASE UNCHANGED vars
  BY <1>1 DEF TypeOK, vars, procs, jobs, health, script
<1> QED
  BY <1>1, TypeOfProcess, TypeOfHeartbeat, TypeOfJob, TypeOfScript DEF Next

-----------------------------------------------------------------------------
(* What the script counts.                                                 *)

LEMMA CountedStep == TypeOK /\ CountedAreBusy /\ [Next]_vars => CountedAreBusy'
<1> SUFFICES ASSUME TypeOK, CountedAreBusy, [Next]_vars PROVE CountedAreBusy'
  OBVIOUS
<1>1. ASSUME NEW s \in Service,
             Boot(s) \/ (s \in Component /\ (Beat(s) \/ Land(s) \/ Age(s)))
      PROVE  CountedAreBusy'
  <2>1. UNCHANGED <<jobs, beat, pc>>
    BY <1>1 DEF Beat, Boot, Land, Age, procs, script
  <2>2. CASE Boot(s)
    BY <2>1, <2>2 DEF TypeOK, CountedAreBusy, Boot, jobs
  <2>3. CASE Beat(s) \/ Land(s) \/ Age(s)
    <3>1. UNCHANGED proc
      BY <2>3 DEF Beat, Land, Age, procs
    <3> QED
      BY <2>1, <3>1 DEF CountedAreBusy, jobs
  <2> QED
    BY <1>1, <2>2, <2>3
<1>2. ASSUME NEW s \in Service, Exit(s) \/ Kill(s) \/ Crash(s)
      PROVE  CountedAreBusy'
  <2>2. Gone(s, "down") \/ Gone(s, "starting")
    BY <1>2 DEF Exit, Kill, Crash
  <2>3. \A w \in Worker \ {s} : proc'[w] = proc[w] /\ beat'[w] = beat[w]
    BY <2>2, Parts DEF TypeOK, Gone
  <2>1. /\ counted' = counted \ {s} /\ UNCHANGED pc
        /\ \A w \in Worker \ {s} : proc'[w] = proc[w] /\ beat'[w] = beat[w] /\ job'[w] = job[w]
    BY <1>2, <2>3 DEF Exit, Kill, Crash, Abandon, script
  <2> QED
    BY <2>1 DEF CountedAreBusy, TypeOK
<1>3. ASSUME NEW s \in Component, Lapse(s)
      PROVE  CountedAreBusy'
  BY <1>3 DEF TypeOK, CountedAreBusy, Lapse, script
<1>4. ASSUME NEW s \in Component, Recover(s)
      PROVE  CountedAreBusy'
  <2>1. /\ UNCHANGED <<proc, job, pc>> /\ beat'[s] /\ \A t \in Component \ {s} : beat'[t] = beat[t]
        /\ counted' = counted \cup {w \in {s} \cap Worker : job[w] /\ proc[w] = "up" /\ pc # "stop_workers"}
    BY <1>4 DEF TypeOK, Recover, script
  <2> QED
    BY <2>1, Parts DEF TypeOK, CountedAreBusy
<1>5. ASSUME NEW w \in Worker, Fetch(w) \/ Finish(w) \/ Expire(w)
      PROVE  CountedAreBusy'
  <2>1. UNCHANGED <<proc, beat, pc>> /\ \A v \in Worker \ {w} : job'[v] = job[v]
    BY <1>5 DEF TypeOK, Fetch, Finish, Expire, procs, script
  <2>2. \/ w \notin counted' /\ counted' \subseteq counted
        \/ counted' = counted /\ job'[w] = job[w]
        \/ /\ job'[w] /\ proc[w] = "up" /\ beat[w]
           /\ counted' \subseteq counted \cup {w} /\ (pc = "stop_workers" => counted' = counted)
    BY <1>5 DEF TypeOK, Fetch, Finish, Expire
  <2> QED
    BY <2>1, <2>2 DEF TypeOK, CountedAreBusy
<1>6. ASSUME UNCHANGED <<jobs, beat>>, \A w \in Worker : proc[w] = "up" => proc'[w] = "up",
             pc' = "stop_workers" => counted = {}
      PROVE  CountedAreBusy'
  BY <1>6 DEF TypeOK, CountedAreBusy, jobs
<1>7. CASE Count
  <2>1. \A w \in counted : w \in Busy
    BY DEF TypeOK, CountedAreBusy, Busy
  <2> QED
    BY <1>6, <1>7, <2>1 DEF Count, Goto, running, procs
<1>8. CASE StopIngress
  <2>1. /\ UNCHANGED <<jobs, beat>> /\ pc' # "stop_workers"
    BY <1>8 DEF StopIngress, Stop, Goto
  <2>2. \A w \in Worker : proc[w] = "up" => proc'[w] = "up"
    <3>1. \/ UNCHANGED proc
          \/ \E s \in Ingress : \A t \in Service \ {s} : proc'[t] = proc[t]
      BY <1>8 DEF StopIngress, Stop, TypeOK
    <3> QED
      BY <3>1, Disjoint, Parts
  <2> QED
    BY <1>6, <2>1, <2>2
<1>9. CASE StopWorkers
  <2>1. counted = {} /\ UNCHANGED jobs
    BY <1>9 DEF StopWorkers, Stop, CountedAreBusy
  <2> QED
    BY <2>1 DEF CountedAreBusy, jobs
<1>10. CASE Pull \/ Compare \/ Drain \/ Recount \/ AwaitReady \/ Publish
  <2>1. UNCHANGED <<jobs, beat, proc>>
    BY <1>10 DEF Pull, Compare, Drain, Recount, AwaitReady, Publish, running, procs
  <2>2. pc' = "stop_workers" => pc = "stop_workers"
    BY <1>10 DEF Pull, Compare, Drain, Recount, AwaitReady, Publish, Goto, script
  <2>3. pc' = "stop_workers" => counted = {}
    BY <2>2 DEF CountedAreBusy
  <2> QED
    BY <1>6, <2>1, <2>3
<1>11. CASE Restart \/ Resume \/ Up \/ Trapped \/ ScriptEnds
  <2>1. UNCHANGED <<jobs, beat>> /\ pc' # "stop_workers"
    BY <1>11 DEF Restart, Resume, Up, Trapped, ScriptEnds, Goto
  <2>2. \A w \in Worker : proc[w] = "up" => proc'[w] = "up"
    BY <1>11, Parts DEF Restart, Resume, Up, Trapped, ScriptEnds, Launch, Replace, TypeOK
  <2> QED
    BY <1>6, <2>1, <2>2
<1>12. CASE UNCHANGED vars
  BY <1>12 DEF CountedAreBusy, vars, procs, jobs, script
<1> QED
  BY <1>1, <1>2, <1>3, <1>4, <1>5, <1>7, <1>8, <1>9, <1>10, <1>11, <1>12, Parts DEF Next, Update

-----------------------------------------------------------------------------
(* What the script has stopped.                                            *)

LEMMA StoppedStep == TypeOK /\ StoppedSoFar /\ [Next]_vars => StoppedSoFar'
<1> SUFFICES ASSUME TypeOK, StoppedSoFar, [Next]_vars PROVE StoppedSoFar'
  OBVIOUS
\* Processes: what is down stays down, and nobody stops but by the script.
<1>1. ASSUME UNCHANGED <<pc, stopped>>,
             \A s \in Service : /\ proc[s] = "down" => proc'[s] = "down"
                                /\ proc[s] \in {"starting", "up"} => proc'[s] \in {"starting", "up"}
      PROVE  StoppedSoFar'
  BY <1>1, Parts DEF TypeOK, StoppedSoFar
<1>2. ASSUME NEW s \in Service,
             \/ Boot(s) \/ Exit(s) \/ Kill(s) \/ Crash(s)
             \/ s \in Component /\ (Beat(s) \/ Land(s) \/ Lapse(s) \/ Recover(s) \/ Age(s))
      PROVE  StoppedSoFar'
  <2>1. UNCHANGED <<pc, stopped>>
    BY <1>2 DEF Beat, Boot, Exit, Kill, Crash, Land, Lapse, Recover, Age, script
  <2>2. ASSUME NEW t \in Service
        PROVE  /\ proc[t] = "down" => proc'[t] = "down"
               /\ proc[t] \in {"starting", "up"} => proc'[t] \in {"starting", "up"}
    BY <1>2 DEF TypeOK, Beat, Boot, Exit, Kill, Crash, Land, Lapse, Recover, Age, Gone, procs
  <2> QED
    BY <1>1, <2>1, <2>2
<1>3. CASE (\E w \in Worker : Fetch(w) \/ Finish(w) \/ Expire(w)) \/ Publish \/ UNCHANGED vars
  BY <1>1, <1>3 DEF Fetch, Finish, Expire, Publish, vars, procs, script
\* The script.
<1>4. CASE Pull \/ Compare \/ Restart \/ Resume \/ ScriptEnds \/ AwaitReady
  <2>1. \/ pc' = "idle"
        \/ pc' = "compare" /\ stopped' = {}
        \/ pc = "compare" /\ pc' = "stop_ingress" /\ stopped' = stopped
    BY <1>4 DEF Pull, Compare, Restart, Resume, ScriptEnds, AwaitReady, Goto
  <2> QED
    BY <2>1 DEF StoppedSoFar
<1>10. CASE Trapped
  <2>1. pc' = "resume" /\ \A s \in Ingress : proc[s] = "down"
    BY <1>10 DEF Trapped, Goto, StoppedSoFar
  <2>2. \A s \in Ingress : proc'[s] # "stopping"
    BY <1>10, <2>1, Parts DEF Trapped, Launch
  <2> QED
    BY <2>1, <2>2 DEF StoppedSoFar
<1>5. CASE StopIngress
  <2>1. \/ pc' = "stop_ingress" /\ stopped' \subseteq stopped \cup Ingress
        \/ pc' = "drain" /\ UNCHANGED <<stopped, proc>> /\ \A s \in Ingress : proc[s] = "down"
    BY <1>5 DEF StopIngress, Stop, Goto
  <2> QED
    BY <1>5, <2>1 DEF StoppedSoFar, StopIngress
<1>6. CASE Drain \/ Count
  <2>1. /\ UNCHANGED <<stopped, proc>> /\ pc \in {"drain", "count"}
        /\ pc' \in {"count", "stop_workers", "restart"}
    BY <1>6 DEF Drain, Count, Goto, running, procs
  <2> QED
    BY <2>1 DEF StoppedSoFar
<1>7. CASE StopWorkers
  <2>1. \/ pc' = "stop_workers" /\ \A s \in Ingress : proc[s] = "down" => proc'[s] = "down"
        \/ pc' = "recount" /\ UNCHANGED proc /\ \A s \in Worker : proc[s] = "down"
    BY <1>7, Parts DEF StopWorkers, Stop, Goto, TypeOK
  <2> QED
    BY <1>7, <2>1 DEF StoppedSoFar, StopWorkers
<1>8. CASE Recount
  <2>1. UNCHANGED <<stopped, proc>> /\ pc = "recount" /\ pc' \in {"up", "resume"}
    BY <1>8 DEF Recount, Goto, running, procs
  <2> QED
    BY <2>1 DEF StoppedSoFar
<1>9. CASE Up
  <2>1. pc = "up" /\ pc' = "ready" /\ \A s \in Service : proc[s] = "down" => proc'[s] = "starting"
    BY <1>9 DEF Up, Replace, Launch, Goto
  <2>2. \A s \in Service : proc[s] = "down"
    BY <2>1 DEF StoppedSoFar, Service
  <2> QED
    BY <2>1, <2>2 DEF StoppedSoFar
<1> QED
  BY <1>2, <1>3, <1>4, <1>5, <1>6, <1>7, <1>8, <1>9, <1>10, Parts DEF Next, Update

-----------------------------------------------------------------------------
(* The theorems.                                                           *)

\* The strengthening that the safety properties of this module follow from.
THEOREM Invariance == Spec => []IInv
<1>1. Init => IInv
  BY TypeInit DEF Init, IInv, CountedAreBusy, StoppedSoFar
<1>2. IInv /\ [Next]_vars => IInv'
  BY TypeStep, CountedStep, StoppedStep DEF IInv
<1> QED
  BY <1>1, <1>2, PTL DEF Spec

\* Every variable keeps its type.
THEOREM TypeCorrect == Spec => []TypeOK
BY Invariance, PTL DEF IInv

\* No process is stopped while it runs a job that was counted: SIGTERM goes to
\* the workers only after a count found none, and a job fetched later is not
\* among the counted ones.
THEOREM JobsSurvive == Spec => CountedJobsAreNotCancelled
<1>1. IInv => \A w \in counted : proc[w] # "stopping"
  BY DEF IInv, CountedAreBusy
<1>2. IInv /\ [Next]_vars =>
        [\A w \in counted : proc[w] = "stopping" /\ proc'[w] = "down" => ~job[w]]_vars
  BY <1>1
<1> QED
  BY <1>2, Invariance, PTL DEF CountedJobsAreNotCancelled, Spec

\* Whichever way the script takes to its end, short of dying or failing outside the
\* trap, what it stopped is starting or up again, save a worker that its own failed
\* stop left stopping.
THEOREM ServicesReturn == Spec => ServicesComeBack
<1> DEFINE Back(s) == \/ proc'[s] \in {"starting", "up"}
                      \/ s \in Worker /\ pc = "resume" /\ proc[s] = "stopping"
<1>1. ASSUME IInv, Next, pc # "idle", pc' = "idle", failures' = failures, NEW s \in stopped
      PROVE  Back(s)
  <2>1. s \in Service /\ failures \in Int
    BY <1>1, DeploymentAssumption DEF IInv, TypeOK
  <2>2. ~Failure
    BY <2>1, <1>1 DEF Failure
  <2>3. Compare \/ Restart \/ Resume \/ AwaitReady
    BY <1>1, <2>2 DEF Next, Update, Pull, StopIngress, StopWorkers, Stop, Drain, Count, Recount, Up, Trapped,
             ScriptEnds, Publish, Beat, Boot, Exit, Kill, Crash, Land, Lapse, Recover, Age, Fetch, Finish,
             Expire, Goto, script
  <2>4. CASE Compare
    BY <1>1, <2>4 DEF Compare, IInv, StoppedSoFar
  <2>5. CASE Restart
    BY <1>1, <2>1, <2>5 DEF Restart, Launch, IInv, StoppedSoFar
  <2>6. CASE Resume
    <3>1. proc[s] \in {"down", "starting", "up", "stopping"}
      BY <1>1, <2>1 DEF IInv, TypeOK
    <3>2. proc[s] = "stopping" => s \in Worker /\ pc = "resume"
      BY <1>1, <2>1, <2>6 DEF Resume, IInv, StoppedSoFar, Service
    <3>3. proc'[s] = IF proc[s] = "down" THEN "starting" ELSE proc[s]
      BY <2>1, <2>6 DEF Resume, Launch
    <3> QED
      BY <3>1, <3>2, <3>3
  <2>7. CASE AwaitReady
    BY <2>1, <2>7, <1>1 DEF AwaitReady, running, procs, IInv, StoppedSoFar
  <2> QED
    BY <2>3, <2>4, <2>5, <2>6, <2>7
<1>2. IInv /\ [Next]_vars =>
        [pc # "idle" /\ pc' = "idle" /\ failures' = failures => \A s \in stopped : Back(s)]_vars
  BY <1>1
<1> QED
  BY <1>2, Invariance, PTL DEF ServicesComeBack, Spec
=============================================================================
