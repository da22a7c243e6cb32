------------------------------ MODULE Workflow ------------------------------
(***************************************************************************)
(* From a stored message to what Slack shows of its reply: RunContract and *)
(* DeliveryContract composed at the commits they share.  The transaction   *)
(* that ends a run inserts the output that is delivered, and the one that  *)
(* stores a message takes the older replies of its thread out of date.     *)
(***************************************************************************)
EXTENDS Runs

CONSTANT MaxAttempts    \* config.slack_delivery_max_attempts

VARIABLES
  run, error, outputs, investigated,
  status, attempts, messageTs, transcript, superseded, posted, failures, late

runs == <<run, error, outputs, investigated>>
delivery == <<status, attempts, messageTs, transcript, superseded, posted, failures, late>>
vars == <<runs, delivery>>

Running == INSTANCE RunContract
Delivering == INSTANCE DeliveryContract WITH RunOutput <- Output

Init == Running!Init /\ Delivering!Init

-----------------------------------------------------------------------------
\* The replies to the messages that come before m in its thread.
Older(m) == {o \in Output : o[1] < m /\ ConvOf[o[1]] = ConvOf[m]}

StoreTrigger(m) == Running!Store(m) /\ Delivering!Supersede(Older(m))

\* One transaction: the run succeeds and its answer is pending.
Answer(m) == Running!Succeed(m) /\ Delivering!Create(<<m, "answer">>)

\* The failure handler and the recovery alike.
Report(m, code) ==
  /\ Running!Fail(m, code)
  /\ \/ outputs' # outputs /\ Delivering!Create(<<m, "error">>)
     \/ outputs' = outputs /\ UNCHANGED delivery

\* What a run does without a word to Slack.
Proceed(m) ==
  /\ Running!Begin(m) \/ Running!Investigate(m) \/ Running!Cancel(m)
  /\ UNCHANGED delivery

Deliver(o) ==
  /\ \/ Delivering!Attempt(o) \/ Delivering!Accept(o)
     \/ Delivering!Sent(o) \/ Delivering!GiveUp(o) \/ Delivering!Withdraw(o)
  /\ UNCHANGED runs

Failure == Delivering!Failure /\ UNCHANGED runs

Next ==
  \/ \E m \in Message :
       \/ StoreTrigger(m) \/ Answer(m) \/ Proceed(m)
       \/ \E code \in ErrorCode : Report(m, code)
  \/ \E o \in Output : Deliver(o)
  \/ Failure

Spec == Init /\ [][Next]_vars

-----------------------------------------------------------------------------
(* Properties.                                                             *)

\* A message gets one reply, an answer or an error and never both, and Slack
\* shows it again only for a failure each.
OneReply ==
  \A m \in Message :
    LET answers == posted[<<m, "answer">>]
        errors == posted[<<m, "error">>]
    IN (answers = 0 \/ errors = 0) /\ answers + errors <= 1 + failures

\* What people read in Slack, and the next investigation in the transcript, is
\* the outcome of the run: an answer was investigated and committed, an error
\* is that of a failed run, and a cancelled run stays silent.
RepliesTellOutcomes ==
  \A m \in Message :
    LET shown(kind) == posted[<<m, kind>>] > 0 \/ transcript[<<m, kind>>] # {} IN
    /\ shown("answer") => run[m] = "succeeded" /\ investigated[m] = 1
    /\ shown("error") => run[m] = "failed"

\* The insert of a reply never meets a row with its key, on which the code would
\* do nothing: composing the contracts holds up neither.
KeysAreFree ==
  \A m \in Message :
    run[m] = "running" => status[<<m, "answer">>] = "absent" /\ status[<<m, "error">>] = "absent"

\* Nobody waits in vain: a run that has ended leaves its reply in Slack, on the
\* way there, or given up after all its attempts.  Without a reply are only the
\* messages that a newer one of the thread has replaced, and those of the off
\* mode.
NoSilentEnd ==
  \A m \in Message :
    LET excused == Newer(run, m) \/ "off" \in Mode
        told(o) == \/ status[o] = "pending"
                   \/ status[o] = "sent" /\ posted[o] > 0
                   \/ status[o] = "failed" /\ attempts[o] >= MaxAttempts
                   \/ status[o] = "cancelled" /\ excused
    IN /\ run[m] = "succeeded" => told(<<m, "answer">>)
       /\ run[m] = "failed" => told(<<m, "error">>) \/ "off" \in Mode
       /\ run[m] = "cancelled" => excused

\* Once a newer message of the thread is stored, no new attempt is made to post
\* a reply to the older one, wherever its run was at that moment.
NoStaleAttempt ==
  [][\A o \in Output : attempts'[o] > attempts[o] => ~Newer(run, o[1])]_vars
=============================================================================
