------------------------------ MODULE Deployment ------------------------------
(***************************************************************************)
(* The pull-based update of the machine (deploy/cerebro-agent-update.sh)   *)
(* over the life of its processes (worker.py, slack/socket.py), the        *)
(* heartbeat rows they keep (ops/runtime.py) and the readiness report made *)
(* of them (ops/readiness.py), which decides whether the script acts.      *)
(***************************************************************************)
EXTENDS Integers, FiniteSets

CONSTANTS
  Ingress,        \* the services that create work
  Worker,         \* the services that execute jobs
  Profile,        \* CEREBRO_READINESS_PROFILE
  MaxVersion,     \* bound: images published under the tag
  MaxJobs,        \* bound: jobs fetched
  MaxFailures     \* bound: failing commands, dying processes, lapses, late statements

Service == Ingress \cup Worker

\* Those with a heartbeat, which are also those of the project's own image.
Component == Service \ {"caddy"}

ASSUME DeploymentAssumption ==
  /\ "slack" \in Ingress /\ Ingress \subseteq {"slack", "caddy"}
  /\ Worker \subseteq {"control", "agent"}
  /\ Profile \in {"pilot", "foundation"}
  /\ MaxVersion \in Nat /\ MaxJobs \in Nat /\ MaxFailures \in Nat

VARIABLES
  registry,       \* the image the registry has under the tag
  local,          \* the image the machine has under the tag
  \* the containers
  proc,           \* down, starting, up, or stopping after SIGTERM
  image,          \* the image each component was created from
  beat,           \* do its heartbeats reach the database?
  job,            \* does the worker have a job in progress?
  orphan,         \* jobs in progress of a dead worker that still looks alive
  \* runtime_heartbeat
  row,
  late,           \* a dead instance's last statement that may still commit
  \* the script
  pc, changed, stopped,
  \* history and bounds
  counted,        \* workers with a job that the last count had to see
  left,           \* services without a heartbeat that a dead script left stopped
  fetches, failures

procs == <<proc, image, beat>>
jobs == <<job, orphan, counted, fetches>>
health == <<row, late>>
script == <<pc, changed, stopped, local>>
vars == <<registry, procs, jobs, health, script, left, failures>>

PC == {"idle", "compare", "stop_ingress", "drain", "count", "restart", "stop_workers",
       "recount", "resume", "up", "ready"}

\* A row says what its last writer was doing; nobody reads which instance it was.
Row == [status : {"running", "stopped"}, fresh : BOOLEAN]
Running == [status |-> "running", fresh |-> TRUE]
Stopped == [status |-> "stopped", fresh |-> TRUE]

Init ==
  /\ registry = 0 /\ local = 0
  /\ proc = [s \in Service |-> "up"]
  /\ image = [c \in Component |-> 0]
  /\ beat = [c \in Component |-> TRUE]
  /\ job = [w \in Worker |-> FALSE] /\ orphan = [w \in Worker |-> FALSE]
  /\ row = [c \in Component |-> Running] /\ late = [c \in Component |-> FALSE]
  /\ pc = "idle" /\ changed = FALSE /\ stopped = {}
  /\ counted = {} /\ left = {} /\ fetches = 0 /\ failures = 0

Failure == failures < MaxFailures /\ failures' = failures + 1

-----------------------------------------------------------------------------
(* Processes and their heartbeats.                                         *)

\* touch_heartbeat: the row belongs to whoever wrote it last.  Caddy has none.
TouchRow(s) == row' = [c \in Component |-> IF c = s THEN Running ELSE row[c]]

Beat(c) ==
  /\ proc[c] \in {"up", "stopping"} /\ beat[c]
  /\ TouchRow(c)
  /\ UNCHANGED <<registry, procs, jobs, late, script, left, failures>>

\* A process that cannot write its first heartbeat does not come up.
Boot(s) ==
  /\ proc[s] = "starting"
  /\ proc' = [proc EXCEPT ![s] = "up"]
  /\ TouchRow(s)
  /\ UNCHANGED <<registry, image, beat, jobs, late, script, left, failures>>

\* The process is gone; its row stays.
Gone(s, to) ==
  /\ proc' = [proc EXCEPT ![s] = to]
  /\ beat' = [c \in Component |-> c = s \/ beat[c]]

\* Jobs that outlive shutdown_graceful_timeout are cancelled by the worker.
Exit(s) ==
  /\ proc[s] = "stopping"
  /\ Gone(s, "down")
  /\ row' = [c \in Component |-> IF c = s THEN Stopped ELSE row[c]]
  /\ job' = [w \in Worker |-> IF w = s THEN FALSE ELSE job[w]]
  /\ counted' = counted \ {s}
  /\ UNCHANGED <<registry, image, orphan, fetches, late, script, left, failures>>

\* SIGKILL, at the end of the same 240 seconds or of a crash.
Abandon(s) ==
  /\ orphan' = [w \in Worker |-> orphan[w] \/ (w = s /\ job[w])]
  /\ job' = [w \in Worker |-> IF w = s THEN FALSE ELSE job[w]]
  /\ counted' = counted \ {s}

Kill(s) ==
  /\ proc[s] = "stopping"
  /\ Gone(s, "down")
  /\ Abandon(s)
  /\ \/ UNCHANGED <<late, failures>>
     \/ s \in Component /\ late' = [late EXCEPT ![s] = TRUE] /\ Failure
  /\ UNCHANGED <<registry, image, fetches, row, script, left>>

\* restart: unless-stopped.
Crash(s) ==
  /\ proc[s] = "up" /\ Failure
  /\ Gone(s, "starting")
  /\ Abandon(s)
  /\ UNCHANGED <<registry, image, fetches, health, script, left>>

\* The statement of the old instance commits after the new one's.
Land(s) ==
  /\ late[s]
  /\ late' = [late EXCEPT ![s] = FALSE]
  /\ row' = [row EXCEPT ![s] = Stopped]
  /\ UNCHANGED <<registry, procs, jobs, script, left, failures>>

\* Both heartbeats, this one and the worker's own, are too old.
Lapse(s) ==
  /\ proc[s] = "up" /\ beat[s] /\ Failure
  /\ beat' = [beat EXCEPT ![s] = FALSE]
  /\ row' = [row EXCEPT ![s].fresh = FALSE]
  /\ counted' = counted \ {s}
  /\ UNCHANGED <<registry, proc, image, job, orphan, fetches, late, script, left>>

Recover(s) ==
  /\ ~beat[s]
  /\ beat' = [beat EXCEPT ![s] = TRUE]
  /\ counted' = counted \cup {w \in {s} \cap Worker :
                              job[w] /\ proc[w] = "up" /\ pc # "stop_workers"}
  /\ UNCHANGED <<registry, proc, image, job, orphan, fetches, health, script, left, failures>>

Age(s) ==
  /\ proc[s] \in {"down", "starting"} /\ row[s].fresh
  /\ row' = [row EXCEPT ![s].fresh = FALSE]
  /\ UNCHANGED <<registry, procs, jobs, late, script, left, failures>>

Fetch(w) ==
  /\ proc[w] = "up" /\ beat[w] /\ ~job[w] /\ fetches < MaxJobs
  /\ fetches' = fetches + 1
  /\ job' = [job EXCEPT ![w] = TRUE]
  /\ counted' = IF pc = "stop_workers" THEN counted ELSE counted \cup {w}
  /\ UNCHANGED <<registry, procs, orphan, health, script, left, failures>>

Finish(w) ==
  /\ proc[w] \in {"up", "stopping"} /\ job[w]
  /\ job' = [job EXCEPT ![w] = FALSE]
  /\ counted' = counted \ {w}
  /\ UNCHANGED <<registry, procs, orphan, fetches, health, script, left, failures>>

\* The heartbeat of a dead worker is older than 60 seconds, or recovery has
\* finished its job.
Expire(w) ==
  /\ orphan[w]
  /\ orphan' = [orphan EXCEPT ![w] = FALSE]
  /\ UNCHANGED <<registry, procs, job, counted, fetches, health, script, left, failures>>

-----------------------------------------------------------------------------
(* What the script sees.                                                   *)

Health(s) ==
  IF row[s].status # "running" THEN "stopped" ELSE IF ~row[s].fresh THEN "stale" ELSE "ok"

\* The database, the migrations and the pilot's configuration are in order.
Ready == Profile = "pilot" => \A c \in Component : Health(c) = "ok"

Busy == {w \in Worker : (job[w] /\ beat[w]) \/ orphan[w]}

-----------------------------------------------------------------------------
(* The script.  The lock admits one at a time; the timer starts it again.  *)

Goto(label) == pc' = label

running == <<registry, procs, jobs, health, left>>

Pull ==
  /\ pc = "idle"
  /\ \/ local' = registry /\ changed' = (registry # local) /\ UNCHANGED failures
     \/ UNCHANGED local /\ changed' = FALSE /\ Failure
  /\ stopped' = {}
  /\ Goto("compare")
  /\ UNCHANGED running

\* Mutant: an image that did not change is enough.
CompareImages ==
  /\ pc = "compare"
  /\ \A s \in Service : proc[s] # "starting"
  /\ Goto(IF changed THEN "stop_ingress" ELSE "idle")
  /\ UNCHANGED <<running, changed, stopped, local, failures>>

\* Processes boot faster than the script gets here.
Compare ==
  /\ pc = "compare"
  /\ \A s \in Service : proc[s] # "starting"
  /\ \/ ~changed /\ Ready /\ Goto("idle") /\ UNCHANGED failures
     \/ (changed \/ ~Ready) /\ Goto("stop_ingress") /\ UNCHANGED failures
     \/ Goto("stop_ingress") /\ Failure
  /\ UNCHANGED <<running, changed, stopped, local>>

\* docker compose stop: SIGTERM to one after the other, then wait for all.
Stop(S, next) ==
  /\ \/ \E s \in S \ stopped :
          /\ stopped' = stopped \cup {s}
          /\ proc' = [proc EXCEPT ![s] =
                        IF @ = "up" THEN "stopping" ELSE IF @ = "starting" THEN "down" ELSE @]
          /\ UNCHANGED pc
     \/ /\ S \subseteq stopped /\ \A s \in S : proc[s] = "down"
        /\ Goto(next)
        /\ UNCHANGED <<stopped, proc>>
  /\ UNCHANGED <<registry, image, beat, jobs, health, changed, local, left, failures>>

StopIngress == pc = "stop_ingress" /\ Stop(Ingress, "drain")

StopWorkers == pc = "stop_workers" /\ Stop(Worker, "recount")

\* The loop ends when nothing is busy or after 240 seconds; by then the worker
\* heartbeats of processes that were down before have expired.
Drain ==
  /\ pc = "drain"
  /\ \A w \in Worker : proc[w] = "down" => ~orphan[w]
  /\ Goto("count")
  /\ UNCHANGED <<running, changed, stopped, local, failures>>

\* Mutant: after the loop the workers are stopped in any case.
CountNothing ==
  /\ pc = "count"
  /\ Goto("stop_workers")
  /\ UNCHANGED <<running, changed, stopped, local, failures>>

Count ==
  /\ pc = "count"
  /\ Goto(IF Busy = {} THEN "stop_workers" ELSE "restart")
  /\ UNCHANGED <<running, changed, stopped, local, failures>>

\* Mutant: the abort goes to a label of its own.
RecountMisspelt ==
  /\ pc = "recount"
  /\ Goto(IF Busy = {} THEN "up" ELSE "abort")
  /\ UNCHANGED <<running, changed, stopped, local, failures>>

Recount ==
  /\ pc = "recount"
  /\ Goto(IF Busy = {} THEN "up" ELSE "resume")
  /\ UNCHANGED <<running, changed, stopped, local, failures>>

\* docker compose start, or up -d when the image is given.  A container that is
\* still stopping counts as running: it goes down afterwards and stays down.
Launch(S) ==
  proc' = [s \in Service |-> IF s \in S /\ proc[s] = "down" THEN "starting" ELSE proc[s]]

\* Mutant: the abort after the second count forgets the ingress.
ResumeWorkers ==
  /\ pc = "resume"
  /\ Launch(Worker) /\ left' = {}
  /\ Goto("idle")
  /\ UNCHANGED <<registry, image, beat, jobs, health, changed, stopped, local, failures>>

\* Both the ERR trap and the abort after the second count.
Resume ==
  /\ pc = "resume"
  /\ Launch(Service) /\ left' = {}
  /\ Goto("idle")
  /\ UNCHANGED <<registry, image, beat, jobs, health, changed, stopped, local, failures>>

Restart ==
  /\ pc = "restart"
  /\ Launch(Ingress) /\ left' = {}
  /\ Goto("idle")
  /\ UNCHANGED <<registry, image, beat, jobs, health, changed, stopped, local, failures>>

Replace(S) ==
  /\ Launch(S)
  /\ image' = [c \in Component |-> IF c \in S THEN local ELSE image[c]]

Up ==
  /\ pc = "up"
  /\ Replace(Service) /\ left' = {}
  /\ Goto("ready")
  /\ UNCHANGED <<registry, beat, jobs, health, changed, stopped, local, failures>>

\* Until /ready answers, or 120 seconds after the processes have booted.
AwaitReady ==
  /\ pc = "ready"
  /\ Ready \/ \A s \in Service : proc[s] # "starting"
  /\ Goto("idle")
  /\ UNCHANGED <<running, changed, stopped, local, failures>>

\* A count or a command fails while the ERR trap is set; a start may have
\* started some, a stop has signalled some.
Trapped ==
  /\ pc \in {"drain", "count", "restart", "stop_workers", "recount"} /\ Failure
  /\ Goto("resume")
  /\ UNCHANGED proc \/ (pc = "restart" /\ \E S \in SUBSET Ingress : Launch(S))
  /\ UNCHANGED <<registry, image, beat, jobs, health, changed, stopped, local, left>>

\* A command fails outside the trap, or the script is killed: what it stopped
\* and did not start stays stopped.
ScriptEnds ==
  /\ pc # "idle" /\ Failure
  /\ Goto("idle")
  /\ \/ UNCHANGED <<proc, image>>
     \/ \E S \in SUBSET Service :
          \/ pc = "restart" /\ Launch(S \cap Ingress) /\ UNCHANGED image
          \/ pc = "resume" /\ Launch(S) /\ UNCHANGED image
          \/ pc = "up" /\ Replace(S)
  /\ left' = left \cup {s \in stopped \ Component : proc'[s] \in {"stopping", "down"}}
  /\ UNCHANGED <<registry, beat, jobs, health, changed, stopped, local>>

Publish ==
  /\ registry < MaxVersion
  /\ registry' = registry + 1
  /\ UNCHANGED <<procs, jobs, health, script, left, failures>>

-----------------------------------------------------------------------------
Update ==
  \/ Pull \/ Compare \/ StopIngress \/ Drain \/ Count \/ Restart
  \/ StopWorkers \/ Recount \/ Resume \/ Up \/ AwaitReady

Next ==
  \/ Update \/ Trapped \/ ScriptEnds \/ Publish
  \/ \E s \in Service : Boot(s) \/ Exit(s) \/ Kill(s) \/ Crash(s)
  \/ \E c \in Component : Beat(c) \/ Land(c) \/ Lapse(c) \/ Recover(c) \/ Age(c)
  \/ \E w \in Worker : Fetch(w) \/ Finish(w) \/ Expire(w)

Spec == Init /\ [][Next]_vars

\* The timer and the script go on, processes boot, beat and stop, time passes,
\* and a job ends.  Nothing obliges anybody to publish, to fetch or to fail.
Fairness ==
  /\ WF_vars(Update)
  /\ \A s \in Service : WF_vars(Boot(s)) /\ WF_vars(Exit(s) \/ Kill(s))
  /\ \A c \in Component : WF_vars(Beat(c)) /\ WF_vars(Recover(c)) /\ WF_vars(Age(c))
  /\ \A w \in Worker : WF_vars(Finish(w)) /\ WF_vars(Expire(w))

FairSpec == Spec /\ Fairness

-----------------------------------------------------------------------------
(* Properties.                                                             *)

\* Every variable has its type.
TypeOK ==
  /\ registry \in 0..MaxVersion /\ local \in 0..MaxVersion
  /\ proc \in [Service -> {"down", "starting", "up", "stopping"}]
  /\ image \in [Component -> 0..MaxVersion]
  /\ beat \in [Component -> BOOLEAN]
  /\ job \in [Worker -> BOOLEAN] /\ orphan \in [Worker -> BOOLEAN]
  /\ row \in [Component -> Row] /\ late \in [Component -> BOOLEAN]
  /\ pc \in PC /\ changed \in BOOLEAN /\ stopped \subseteq Service
  /\ counted \subseteq Worker /\ left \subseteq Service \ Component /\ fetches \in 0..MaxJobs /\ failures \in 0..MaxFailures

\* The update cancels no job that was in progress at its last count, unless the
\* worker had stopped to report: "the update never deliberately cancels an
\* investigation".  A job fetched between that count and SIGTERM has 240 seconds.
CountedJobsAreNotCancelled ==
  [][\A w \in counted : proc[w] = "stopping" /\ proc'[w] = "down" => ~job[w]]_vars

\* Whichever way the script takes to its end, unless it is killed or fails where
\* no trap is set, each service it stopped is starting or up again.  The one
\* exception is a stop of the workers that fails halfway: a worker that is still
\* stopping when the trap starts the services goes down and stays down.
ServicesComeBack ==
  [][pc # "idle" /\ pc' = "idle" /\ failures' = failures =>
       \A s \in stopped :
         \/ proc'[s] \in {"starting", "up"}
         \/ s \in Worker /\ pc = "resume" /\ proc[s] = "stopping"]_vars

\* When images, jobs and failures cease, every component is up and /ready says so
\* from some time on, although scripts died or stopped halfway and old instances
\* overwrote the rows of new ones; so is Caddy, which no heartbeat watches, unless
\* a script that died left it stopped.  Needs the pilot profile.
MachineSettles ==
  <>[](Ready /\ \A s \in Service : proc[s] = "up" \/ s \in left)

\* "Longer healthy investigations can therefore postpone an update": an image
\* that is published is running in the end.
PostponedUpdateIsDeployed == <>[](\A c \in Component : image[c] = registry)
=============================================================================
