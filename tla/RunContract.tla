----------------------------- MODULE RunContract -----------------------------
(***************************************************************************)
(* What the agent promises about one investigation, whatever workers,      *)
(* queues, crashes and recoveries do underneath (docs/architecture.md,     *)
(* "Durability and failure semantics").  A run is created once per inbound *)
(* message, investigated at most once, ends at most once, and leaves at    *)
(* most one Slack output, inserted by the transaction that ends it.        *)
(***************************************************************************)
EXTENDS Runs

VARIABLES
  run,            \* agent_run.status, by trigger message
  error,          \* agent_run.error_code
  outputs,        \* the slack_output rows ever inserted for runs
  investigated    \* how often the runner was invoked for the run

vars == <<run, error, outputs, investigated>>

Init ==
  /\ run = [m \in Message |-> "absent"]
  /\ error = [m \in Message |-> "none"]
  /\ outputs = {}
  /\ investigated = [m \in Message |-> 0]

Store(m) ==
  /\ run[m] = "absent"
  /\ run' = [run EXCEPT ![m] = "queued"]
  /\ UNCHANGED <<error, outputs, investigated>>

Begin(m) ==
  /\ run[m] = "queued"
  /\ run' = [run EXCEPT ![m] = "running"]
  /\ UNCHANGED <<error, outputs, investigated>>

\* The one invocation of the runner: an interrupted run is not replayed.
Investigate(m) ==
  /\ run[m] = "running"
  /\ investigated[m] = 0
  /\ investigated' = [investigated EXCEPT ![m] = 1]
  /\ UNCHANGED <<run, error, outputs>>

\* Only an investigated run is answered.
Succeed(m) ==
  /\ run[m] = "running"
  /\ investigated[m] = 1
  /\ run' = [run EXCEPT ![m] = "succeeded"]
  /\ outputs' = outputs \cup {<<m, "answer">>}
  /\ UNCHANGED <<error, investigated>>

\* The error reply may be left out only where the mode may be off.
Fail(m, code) ==
  /\ run[m] = "running"
  /\ code # "none"
  /\ run' = [run EXCEPT ![m] = "failed"]
  /\ error' = [error EXCEPT ![m] = code]
  /\ \/ outputs' = outputs \cup {<<m, "error">>}
     \/ "off" \in Mode /\ UNCHANGED outputs
  /\ UNCHANGED investigated

\* Only a newer message of the thread, or the off mode, takes a run away.
Cancel(m) ==
  /\ run[m] \in {"queued", "running"}
  /\ Newer(run, m) \/ "off" \in Mode
  /\ run' = [run EXCEPT ![m] = "cancelled"]
  /\ UNCHANGED <<error, outputs, investigated>>

Next ==
  \E m \in Message :
    \/ Store(m)
    \/ Begin(m)
    \/ Investigate(m)
    \/ Succeed(m)
    \/ \E code \in ErrorCode : Fail(m, code)
    \/ Cancel(m)

Spec == Init /\ [][Next]_vars
==============================================================================
