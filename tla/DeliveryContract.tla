-------------------------- MODULE DeliveryContract --------------------------
(***************************************************************************)
(* What the agent promises about one Slack output, whatever slots, queue   *)
(* and recovery do underneath (docs/architecture.md, "Durability and       *)
(* failure semantics").  An output is attempted while it is pending, Slack *)
(* accepts each attempt at most once, and the first result settles it.     *)
(* What is promised less once a living worker was taken for dead is said   *)
(* by `late`.                                                              *)
(***************************************************************************)
EXTENDS Integers

CONSTANTS Output, RunOutput, Mode, MaxAttempts

VARIABLES
  status,         \* slack_output.status, "absent" before the row exists
  attempts,       \* slack_output.attempts
  messageTs,      \* slack_output.slack_message_ts
  transcript,     \* the timestamps of the reply's message rows
  superseded,     \* outputs whose thread has a later message
  posted,         \* posts of the output that Slack has accepted
  failures,       \* deaths, lapses and raised calls so far
  late            \* a worker that was silent may still be at work

vars == <<status, attempts, messageTs, transcript, superseded, posted, failures, late>>

Init ==
  /\ status = [o \in Output |-> "absent"]
  /\ attempts = [o \in Output |-> 0]
  /\ messageTs = [o \in Output |-> 0]
  /\ transcript = [o \in Output |-> {}]
  /\ superseded = {}
  /\ posted = [o \in Output |-> 0]
  /\ failures = 0
  /\ late = FALSE

Create(o) ==
  /\ status[o] = "absent"
  /\ status' = [status EXCEPT ![o] = "pending"]
  /\ UNCHANGED <<attempts, messageTs, transcript, superseded, posted, failures, late>>

\* A message that is stored takes the older replies of its thread out of date.
Supersede(older) ==
  /\ older \subseteq RunOutput
  /\ superseded' = superseded \cup older
  /\ UNCHANGED <<status, attempts, messageTs, transcript, posted, failures, late>>

\* Attempts beyond the maximum are paid for by failures, and a stale output
\* gets none.
Attempt(o) ==
  /\ status[o] = "pending"
  /\ o \notin superseded
  /\ attempts' = [attempts EXCEPT ![o] = @ + 1]
  /\ attempts'[o] <= MaxAttempts + failures
  /\ UNCHANGED <<status, messageTs, transcript, superseded, posted, failures, late>>

\* Only a late worker writes, or posts, an output that is not pending.
Open(o) == status[o] = "pending" \/ (late /\ status[o] # "absent")

\* Slack accepts an attempt; the answer may be lost, which is a failure.
Accept(o) ==
  /\ Open(o)
  /\ posted[o] < attempts[o]
  /\ posted' = [posted EXCEPT ![o] = @ + 1]
  /\ failures' \in {failures, failures + 1}
  /\ posted'[o] <= 1 + failures'
  /\ UNCHANGED <<status, attempts, messageTs, transcript, superseded, late>>

\* The reply enters the transcript with the status, under a timestamp that
\* Slack returned for this output.
Sent(o) ==
  /\ Open(o)
  /\ status[o] # "sent"
  /\ \E ts \in 1..posted[o] :
       /\ messageTs' = [messageTs EXCEPT ![o] = ts]
       /\ transcript' = [transcript EXCEPT ![o] = @ \cup {ts}]
  /\ status' = [status EXCEPT ![o] = "sent"]
  /\ UNCHANGED <<attempts, superseded, posted, failures, late>>

GiveUp(o) ==
  /\ Open(o)
  /\ attempts[o] >= MaxAttempts
  /\ status' = [status EXCEPT ![o] = "failed"]
  /\ UNCHANGED <<attempts, messageTs, transcript, superseded, posted, failures, late>>

\* Only a newer message of the thread, or the off mode, takes a reply away,
\* and never one that has been sent.
Withdraw(o) ==
  /\ status[o] = "pending"
  /\ o \in superseded \/ "off" \in Mode
  /\ status' = [status EXCEPT ![o] = "cancelled"]
  /\ UNCHANGED <<attempts, messageTs, transcript, superseded, posted, failures, late>>

Failure ==
  /\ failures' = failures + 1
  /\ late' \in BOOLEAN /\ (late => late')
  /\ UNCHANGED <<status, attempts, messageTs, transcript, superseded, posted>>

Next ==
  \/ \E o \in Output :
       \/ Create(o)
       \/ Attempt(o) \/ Accept(o)
       \/ Sent(o) \/ GiveUp(o) \/ Withdraw(o)
  \/ \E older \in SUBSET RunOutput : Supersede(older)
  \/ Failure

Spec == Init /\ [][Next]_vars
=============================================================================
