-------------------------------- MODULE Runs --------------------------------
(***************************************************************************)
(* What every module about agent runs shares: messages and threads, the    *)
(* statuses of a run (db/enums.py), and the outputs a run may leave.       *)
(***************************************************************************)
EXTENDS Integers

CONSTANTS
  Message,        \* inbound messages; the number is the Slack event time
  Conversation,   \* Slack threads
  ConvOf,         \* the thread each message belongs to
  Mode            \* the values CEREBRO_GLOBAL_MODE takes in the deployment

ASSUME MessageAssumption == Message \subseteq Nat
ASSUME ConvOfAssumption == ConvOf \in [Message -> Conversation]
ASSUME ModeAssumption == Mode \subseteq {"enabled", "off"} /\ Mode # {}

\* "absent" stands for a run whose row does not exist.
RunStatus == {"absent", "queued", "running", "succeeded", "failed", "cancelled"}
Terminal == {"succeeded", "failed", "cancelled"}
ErrorCode == {"none", "runner_error", "worker_interrupted"}

\* An output is named by its idempotency key, agent-run:{id}:{kind}; the two
\* kinds of answer (investigation, general_reply) are one kind here.
Output == Message \X {"answer", "error"}

\* A later inbound message of the thread is stored.  A message and its run are
\* inserted in one transaction, so a message is stored when its run exists.
Newer(status, m) ==
  \E n \in Message : status[n] # "absent" /\ ConvOf[n] = ConvOf[m] /\ n > m
==============================================================================
