---------------------------- MODULE OutboxProofs ----------------------------
(***************************************************************************)
(* Outbox keeps its type, its bounds on attempts and on repeated posts     *)
(* hold for any number of slots and failures, and it implements            *)
(* DeliveryContract.  Every attempt beyond the maximum, and every post     *)
(* beyond the first, is paid for by a failure.                             *)
(***************************************************************************)
EXTENDS Outbox, FiniteSetTheorems, TLAPS

Busy(s) == pc[s] # "idle"

\* Slots whose job is, or may soon be, given to another one: they do not report,
\* recovery has released their job, or is about to.
Doomed == {s \in Slot : Busy(s) /\ (~beat[s] \/ job[s] \notin doing \/ job[s] \in stalled)}

\* Doomed slots that may still count an attempt of the output, or post it.
Owing(o) == {s \in Doomed : pc[s] = "check" /\ OutputOf(s) = o}
MayPost(o) == {s \in Doomed : pc[s] \in {"check", "post"} /\ OutputOf(s) = o}

\* Slots whose counted attempt is still to be posted.
Posting(o) == {s \in Slot : pc[s] = "post" /\ OutputOf(s) = o}

nDoomed == Cardinality(Doomed)
nOwing(o) == Cardinality(Owing(o))
nMayPost(o) == Cardinality(MayPost(o))
nPosting(o) == Cardinality(Posting(o))

\* The slot that is not doomed has counted an attempt of the output, and has
\* had it accepted.
Active == {"post", "record_sent", "record_failure"}
Attempting(o) == \E s \in Slot \ Doomed : pc[s] \in Active /\ OutputOf(s) = o
Accepted(o) == \E s \in Slot \ Doomed : pc[s] = "record_sent" /\ OutputOf(s) = o

One(fact) == IF fact THEN 1 ELSE 0

\* Jobs are numbered, an output has one in progress, and a job has one holder.
JobIds ==
  /\ \A s \in Slot : Busy(s) => job[s] \in Job /\ job[s][2] <= fetched[OutputOf(s)]
  /\ \A s, t \in Slot : Busy(s) /\ Busy(t) /\ job[s] = job[t] => s = t
  /\ \A j \in doing \cup stalled : j[2] <= fetched[j[1]]
  /\ \A i, j \in doing : i[1] = j[1] => i = j

\* It takes a lapse to doom a slot.
DoomIsPaid == nDoomed <= lapses

\* A counted attempt is posted once; a superseded output gets no new one.
PostsAreCounted ==
  /\ \A o \in Output : posted[o] + nPosting(o) <= attempts[o]
  /\ \A o \in superseded : attempts[o] <= allowed[o]

\* A pending output has at least one attempt left, but for the one being made
\* and those that failures took; a doomed slot has paid for the attempt it may
\* still count.
AttemptsArePaid ==
  \A o \in Output :
    /\ attempts[o] <= MaxAttempts + Failures
    /\ status[o] = "absent" => attempts[o] = 0
    /\ status[o] = "pending" =>
         attempts[o] + nOwing(o) <= MaxAttempts - 1 + Failures + One(Attempting(o))

\* A pending output has been accepted by Slack as often as failures allow, but
\* for the post that is about to be recorded.
PostsArePaid ==
  \A o \in Output :
    /\ posted[o] + nPosting(o) <= 1 + Failures
    /\ status[o] = "pending" => posted[o] + nMayPost(o) <= Failures + One(Accepted(o))

\* While nobody is doomed, whoever has counted an attempt finds the output as it
\* was, and the transcript follows.
Undisturbed ==
  lapses = 0 =>
    /\ \A s \in Slot : pc[s] \in Active => status[OutputOf(s)] = "pending"
    /\ \A s \in Slot : pc[s] = "record_sent" => answer[s] \in 1..posted[OutputOf(s)]
    /\ TranscriptMirrorsSent

Accounts == DoomIsPaid /\ PostsAreCounted /\ AttemptsArePaid /\ PostsArePaid

Inner == JobIds /\ Accounts /\ Undisturbed

IInv == TypeOK /\ Inner

-----------------------------------------------------------------------------
(* Counting slots.                                                         *)

LEMMA CountType ==
  ASSUME NEW o
  PROVE  /\ IsFiniteSet(Doomed) /\ nDoomed \in Nat
         /\ IsFiniteSet(Owing(o)) /\ nOwing(o) \in Nat
         /\ IsFiniteSet(MayPost(o)) /\ nMayPost(o) \in Nat
         /\ IsFiniteSet(Posting(o)) /\ nPosting(o) \in Nat
         /\ nOwing(o) <= nDoomed /\ nMayPost(o) <= nDoomed
<1>1. IsFiniteSet(Doomed) /\ IsFiniteSet(Posting(o))
  BY FS_Subset, OutboxAssumption DEF Doomed, Posting
<1>2. Owing(o) \subseteq Doomed /\ MayPost(o) \subseteq Doomed
  BY DEF Owing, MayPost
<1>3. IsFiniteSet(Owing(o)) /\ Cardinality(Owing(o)) <= Cardinality(Doomed)
  BY <1>1, <1>2, FS_Subset
<1>4. IsFiniteSet(MayPost(o)) /\ Cardinality(MayPost(o)) <= Cardinality(Doomed)
  BY <1>1, <1>2, FS_Subset
<1> QED
  BY <1>1, <1>3, <1>4, FS_CardinalityType DEF nDoomed, nOwing, nMayPost, nPosting

LEMMA DoomedType == nDoomed \in Nat
BY CountType

\* A set that gains at most s.
LEMMA GainOne ==
  ASSUME NEW s, NEW S, NEW T, IsFiniteSet(S), T \ {s} \subseteq S
  PROVE  /\ IsFiniteSet(T)
         /\ Cardinality(T) + One(s \in S) <= Cardinality(S) + One(s \in T)
<1>1. IsFiniteSet(S \ {s}) /\ T \ {s} \subseteq S \ {s}
  BY FS_RemoveElement
<1>2. IsFiniteSet(T \ {s}) /\ Cardinality(T \ {s}) <= Cardinality(S \ {s})
  BY <1>1, FS_Subset
<1>3. IsFiniteSet((T \ {s}) \cup {s})
  BY <1>2, FS_AddElement
<1>4. IsFiniteSet(T)
  BY <1>3, FS_Subset
<1>5. /\ Cardinality(S) \in Nat /\ Cardinality(T) \in Nat
      /\ Cardinality(S \ {s}) = IF s \in S THEN Cardinality(S) - 1 ELSE Cardinality(S)
      /\ Cardinality(T \ {s}) = IF s \in T THEN Cardinality(T) - 1 ELSE Cardinality(T)
  BY <1>4, FS_CardinalityType, FS_RemoveElement
<1> QED
  BY <1>2, <1>4, <1>5 DEF One

\* The queue's lock: at most one slot that is not doomed works on an output.
LEMMA OneIsCurrent ==
  ASSUME TypeOK, JobIds, NEW s \in Slot \ Doomed, NEW t \in Slot \ Doomed,
         Busy(s), Busy(t), OutputOf(s) = OutputOf(t)
  PROVE  s = t
<1>1. job[s] \in doing /\ job[t] \in doing
  BY DEF Doomed
<1>2. job[s] = job[t]
  BY <1>1 DEF JobIds, OutputOf
<1> QED
  BY <1>2 DEF JobIds

\* A slot at its check finds room for one more post.
LEMMA RoomToPost ==
  ASSUME TypeOK, JobIds, NEW s \in Slot, pc[s] = "check", NEW o, o = OutputOf(s)
  PROVE  nPosting(o) + One(Accepted(o)) <= nMayPost(o)
<1> DEFINE D == Posting(o) \cap Doomed
<1>1. IsFiniteSet(MayPost(o)) /\ IsFiniteSet(Posting(o)) /\ IsFiniteSet(D)
      /\ nPosting(o) \in Nat /\ nMayPost(o) \in Nat
  BY CountType, FS_Subset
<1>2. D \subseteq MayPost(o) \ {s}
  BY DEF Posting, MayPost
<1>3. CASE s \notin Doomed
  <2>1. ~Accepted(o) /\ Posting(o) \subseteq MayPost(o)
    BY <1>3, OneIsCurrent DEF Accepted, Posting, MayPost, Busy
  <2>2. nPosting(o) <= nMayPost(o)
    BY <1>1, <2>1, FS_Subset DEF nPosting, nMayPost
  <2> QED
    BY <1>1, <2>1, <2>2 DEF One
<1>4. CASE s \in Doomed
  <2>1. s \in MayPost(o)
    BY <1>4 DEF MayPost
  <2>2. Cardinality(MayPost(o) \ {s}) = nMayPost(o) - 1 /\ IsFiniteSet(MayPost(o) \ {s})
    BY <1>1, <2>1, FS_RemoveElement DEF nMayPost
  <2>3. Cardinality(D) <= nMayPost(o) - 1 /\ Cardinality(D) \in Nat
    BY <1>1, <1>2, <2>2, FS_Subset, FS_CardinalityType
  <2>4. CASE Posting(o) = D
    <3>1. nPosting(o) <= nMayPost(o) - 1
      BY <2>3, <2>4 DEF nPosting
    <3>2. One(Accepted(o)) \in {0, 1}
      BY DEF One
    <3> QED
      BY <1>1, <3>1, <3>2
  <2>5. CASE Posting(o) # D
    <3>1. PICK t \in Posting(o) : t \notin Doomed
      BY <2>5
    <3>2. t \in Slot \ Doomed /\ pc[t] = "post" /\ OutputOf(t) = o
      BY <3>1 DEF Posting
    <3>3. ~Accepted(o)
      BY <3>2, OneIsCurrent DEF Accepted, Busy
    <3>4. Posting(o) \ {t} \subseteq D
      BY <3>2, OneIsCurrent DEF Posting, Busy
    <3>5. nPosting(o) + One(t \in D) <= Cardinality(D) + One(t \in Posting(o))
      BY <1>1, <3>4, GainOne DEF nPosting
    <3> QED
      BY <1>1, <2>3, <3>1, <3>3, <3>5 DEF One
  <2> QED
    BY <2>4, <2>5
<1> QED
  BY <1>3, <1>4

-----------------------------------------------------------------------------
(* What a step of one slot does to the counts.                             *)

\* The others keep their place, and none of them becomes doomed.
OthersStay(s) ==
  \A t \in Slot \ {s} :
    pc'[t] = pc[t] /\ job'[t] = job[t] /\ (t \in Doomed' => t \in Doomed)

LEMMA CountStep ==
  ASSUME TypeOK, NEW s, OthersStay(s), NEW o
  PROVE  /\ nDoomed' + One(s \in Doomed) <= nDoomed + One(s \in Doomed')
         /\ nOwing(o)' + One(s \in Owing(o)) <= nOwing(o) + One(s \in Owing(o)')
         /\ nMayPost(o)' + One(s \in MayPost(o)) <= nMayPost(o) + One(s \in MayPost(o)')
         /\ nPosting(o)' + One(s \in Posting(o)) <= nPosting(o) + One(s \in Posting(o)')
         /\ nDoomed' \in Nat /\ nOwing(o)' \in Nat /\ nMayPost(o)' \in Nat /\ nPosting(o)' \in Nat
         /\ nOwing(o)' <= nDoomed' /\ nMayPost(o)' <= nDoomed'
<1>1. IsFiniteSet(Doomed) /\ IsFiniteSet(Owing(o)) /\ IsFiniteSet(MayPost(o))
      /\ IsFiniteSet(Posting(o))
  BY CountType
<1>2. Doomed' \ {s} \subseteq Doomed
  BY DEF OthersStay, Doomed
<1>3. Owing(o)' \ {s} \subseteq Owing(o)
  BY DEF OthersStay, Owing, Doomed, OutputOf
<1>4. MayPost(o)' \ {s} \subseteq MayPost(o)
  BY DEF OthersStay, MayPost, Doomed, OutputOf
<1>5. Posting(o)' \ {s} \subseteq Posting(o)
  BY DEF OthersStay, Posting, OutputOf
<1>6. Owing(o)' \subseteq Doomed' /\ MayPost(o)' \subseteq Doomed'
  BY DEF Owing, MayPost
<1>7. IsFiniteSet(Doomed')
      /\ Cardinality(Doomed') + One(s \in Doomed) <= Cardinality(Doomed) + One(s \in Doomed')
  BY <1>1, <1>2, GainOne
<1>8. IsFiniteSet(Owing(o)')
      /\ Cardinality(Owing(o)') + One(s \in Owing(o)) <= Cardinality(Owing(o)) + One(s \in Owing(o)')
  BY <1>1, <1>3, GainOne
<1>9. IsFiniteSet(MayPost(o)')
      /\ Cardinality(MayPost(o)') + One(s \in MayPost(o))
           <= Cardinality(MayPost(o)) + One(s \in MayPost(o)')
  BY <1>1, <1>4, GainOne
<1>10. IsFiniteSet(Posting(o)')
      /\ Cardinality(Posting(o)') + One(s \in Posting(o))
           <= Cardinality(Posting(o)) + One(s \in Posting(o)')
  BY <1>1, <1>5, GainOne
<1>11. Cardinality(Owing(o)') <= Cardinality(Doomed')
       /\ Cardinality(MayPost(o)') <= Cardinality(Doomed')
  BY <1>6, <1>7, FS_Subset
<1>12. /\ Cardinality(Doomed') \in Nat /\ Cardinality(Owing(o)') \in Nat
       /\ Cardinality(MayPost(o)') \in Nat /\ Cardinality(Posting(o)') \in Nat
  BY <1>7, <1>8, <1>9, <1>10, FS_CardinalityType
<1> QED
  BY <1>7, <1>8, <1>9, <1>10, <1>11, <1>12 DEF nDoomed, nOwing, nMayPost, nPosting

\* A busy slot moves to another place with its job.
LEMMA PlaceStep ==
  ASSUME TypeOK, JobIds, NEW s \in Slot, Busy(s), NEW place \in PC \ {"idle", "check"},
         Goto(s, place), UNCHANGED <<job, beat, doing, fetched, stalled>>
  PROVE  /\ pc'[s] = place /\ \A t \in Slot \ {s} : pc'[t] = pc[t]
         /\ \A t \in Slot : OutputOf(t)' = OutputOf(t)
         /\ Doomed' = Doomed /\ OthersStay(s) /\ JobIds'
<1>1. /\ pc' \in [Slot -> PC] /\ pc'[s] = place
      /\ \A t \in Slot \ {s} : pc'[t] = pc[t]
  BY DEF Goto, TypeOK
<1>2. \A t \in Slot : Busy(t)' = Busy(t) /\ OutputOf(t)' = OutputOf(t)
  BY <1>1 DEF Busy, OutputOf
<1>3. Doomed' = Doomed
  BY <1>2 DEF Doomed
<1>4. OthersStay(s)
  BY <1>1, <1>3 DEF OthersStay
<1>5. JobIds'
  BY <1>2 DEF JobIds
<1> QED
  BY <1>1, <1>2, <1>3, <1>4, <1>5

-----------------------------------------------------------------------------
(* Types.                                                                  *)

LEMMA TypeInit == Init => TypeOK
BY OutboxAssumption DEF Init, TypeOK, DeliveryStatus, PC, Job

LEMMA TypeOfRows ==
  ASSUME TypeOK, NEW o \in Output, Create(o) \/ Supersede(o)
  PROVE  TypeOK'
BY DEF TypeOK, Create, Supersede, DeliveryStatus, stale, slots, recovery, bounds, rows, queue, Output

LEMMA TypeOfFetch ==
  ASSUME TypeOK, NEW s \in Slot, NEW o \in todo, Fetch(s, o)
  PROVE  TypeOK'
<1>1. fetched[o] + 1 \in Nat /\ <<o, fetched[o] + 1>> \in Job
  BY DEF TypeOK, Job
<1> QED
  BY <1>1 DEF TypeOK, Fetch, Goto, PC, stale, recovery, bounds, rows

LEMMA OutputType ==
  ASSUME TypeOK, JobIds, NEW s \in Slot, Busy(s)
  PROVE  OutputOf(s) \in Output
BY DEF JobIds, OutputOf, Job

LEMMA TypeOfDelivery ==
  ASSUME TypeOK, JobIds, NEW s \in Slot, Deliver(s) \/ PostUnanswered(s) \/ TransactionFails(s)
  PROVE  TypeOK'
<1>1. Busy(s) /\ OutputOf(s) \in Output
  BY OutputType DEF Deliver, Check, Post, RecordFailure, RecordSent, FinishJob, PostUnanswered,
                    TransactionFails, Busy
<1>2. CASE Check(s)
  BY <1>1, <1>2 DEF TypeOK, Check, Goto, SetStatus, PC, DeliveryStatus, delivering, stale, queue,
                    recovery, bounds
<1>3. CASE Post(s)
  BY <1>1, <1>3 DEF TypeOK, Post, Goto, PC, delivering, stale, queue, recovery, bounds, rows
<1>4. CASE RecordFailure(s)
  BY <1>1, <1>4 DEF TypeOK, RecordFailure, Goto, SetStatus, PC, DeliveryStatus, delivering, stale,
                    queue, recovery, bounds
<1>5. CASE RecordSent(s)
  BY <1>1, <1>5 DEF TypeOK, RecordSent, Goto, SetStatus, PC, DeliveryStatus, delivering, stale,
                    queue, recovery, bounds
<1>6. CASE FinishJob(s)
  BY <1>6 DEF TypeOK, FinishJob, Goto, PC, stale, recovery, bounds, rows
<1>7. CASE PostUnanswered(s)
  BY <1>1, <1>7 DEF TypeOK, PostUnanswered, Goto, PC, stale, queue, recovery, rows
<1>8. CASE TransactionFails(s)
  BY <1>8 DEF TypeOK, TransactionFails, Goto, PC, stale, queue, recovery, rows
<1> QED
  BY <1>2, <1>3, <1>4, <1>5, <1>6, <1>7, <1>8 DEF Deliver

LEMMA TypeOfRecovery ==
  ASSUME TypeOK, Recover
  PROVE  TypeOK'
BY DEF TypeOK, Recover, FindStalled, FindPending, EndTick, Release, Resubmit, recovering, rows, queue,
       stale, slots, bounds

LEMMA TypeOfFailures ==
  ASSUME TypeOK, NEW s \in Slot, Crash(s) \/ Lapse(s) \/ Resume(s)
  PROVE  TypeOK'
<1>1. CASE Crash(s)
  BY <1>1 DEF TypeOK, Crash, PC, rows, queue, stale, recovery
<1>2. CASE Lapse(s)
  BY <1>2 DEF TypeOK, Lapse, rows, queue, stale, recovery
<1>3. CASE Resume(s)
  BY <1>3 DEF TypeOK, Resume, rows, queue, stale, recovery, bounds
<1> QED
  BY <1>1, <1>2, <1>3

LEMMA TypeStep == TypeOK /\ JobIds /\ [Next]_vars => TypeOK'
<1> SUFFICES ASSUME TypeOK, JobIds, [Next]_vars PROVE TypeOK'
  OBVIOUS
<1>1. CASE UNCHANGED vars
  BY <1>1 DEF TypeOK, vars, rows, queue, stale, slots, recovery, bounds
<1>2. CASE Next
  BY <1>2, TypeOfRows, TypeOfFetch, TypeOfDelivery, TypeOfRecovery, TypeOfFailures DEF Next
<1> QED
  BY <1>1, <1>2

-----------------------------------------------------------------------------
(* Steps that leave the outputs alone.                                     *)


\* What the accounts allow a step to do that touches no row and posts nothing,
\* when it costs `paid` failures, `lapsed` of them lapses.
Fair(paid, lapsed) ==
  /\ Failures' = Failures + paid /\ lapses' = lapses + lapsed
  /\ nDoomed' <= nDoomed + lapsed
  /\ \A o \in Output :
       /\ nPosting(o)' <= nPosting(o)
       /\ nOwing(o)' + One(Attempting(o)) <= nOwing(o) + One(Attempting(o)') + paid
       /\ nMayPost(o)' + One(Accepted(o)) <= nMayPost(o) + One(Accepted(o)') + paid

LEMMA NumberTypes ==
  ASSUME TypeOK
  PROVE  /\ Failures \in Nat /\ lapses \in Nat /\ lapses <= Failures /\ nDoomed \in Nat
         /\ \A o \in Output : /\ attempts[o] \in Nat /\ posted[o] \in Nat
                              /\ nPosting(o) \in Nat /\ nOwing(o) \in Nat /\ nMayPost(o) \in Nat
                              /\ One(Attempting(o)) \in 0..1 /\ One(Accepted(o)) \in 0..1
<1>1. Failures \in Nat /\ lapses \in Nat /\ lapses <= Failures
  BY DEF TypeOK, Failures
<1>2. nDoomed \in Nat
  BY DoomedType
<1>3. \A o : nPosting(o) \in Nat /\ nOwing(o) \in Nat /\ nMayPost(o) \in Nat
  BY CountType
<1>4. \A o \in Output : One(Attempting(o)) \in 0..1 /\ One(Accepted(o)) \in 0..1
  BY DEF One
<1> QED
  BY <1>1, <1>2, <1>3, <1>4 DEF TypeOK

\* The same numbers after the step.
Counted ==
  /\ nDoomed' \in Nat
  /\ \A o \in Output : /\ nPosting(o)' \in Nat /\ nOwing(o)' \in Nat /\ nMayPost(o)' \in Nat
                       /\ nOwing(o)' <= nDoomed' /\ nMayPost(o)' <= nDoomed'

LEMMA FairKeepsAccounts ==
  ASSUME TypeOK, Accounts, Counted, NEW paid \in 0..1, NEW lapsed \in 0..1, Fair(paid, lapsed),
         UNCHANGED <<status, attempts, posted, superseded, allowed>>
  PROVE  Accounts'
<1>1. Failures \in Nat /\ lapses \in Nat /\ nDoomed \in Nat
  BY NumberTypes
<1>2. DoomIsPaid'
  BY <1>1 DEF Accounts, DoomIsPaid, Fair, Counted
<1>3. ASSUME NEW o \in Output
      PROVE  /\ attempts[o] \in Nat /\ posted[o] \in Nat
             /\ nPosting(o) \in Nat /\ nOwing(o) \in Nat /\ nMayPost(o) \in Nat
             /\ One(Attempting(o)) \in 0..1 /\ One(Accepted(o)) \in 0..1
             /\ One(Attempting(o)') \in 0..1 /\ One(Accepted(o)') \in 0..1
  BY NumberTypes DEF One
<1>4. PostsAreCounted'
  BY <1>3 DEF Accounts, PostsAreCounted, Fair, Counted
<1>5. AttemptsArePaid'
  <2> SUFFICES ASSUME NEW o \in Output
               PROVE  /\ attempts[o] <= MaxAttempts + (Failures + paid)
                      /\ status[o] = "absent" => attempts[o] = 0
                      /\ status[o] = "pending" =>
                           attempts[o] + nOwing(o)'
                             <= MaxAttempts - 1 + (Failures + paid) + One(Attempting(o)')
    BY DEF AttemptsArePaid, Fair
  <2>1. /\ attempts[o] <= MaxAttempts + Failures
        /\ status[o] = "absent" => attempts[o] = 0
        /\ status[o] = "pending" =>
             attempts[o] + nOwing(o) <= MaxAttempts - 1 + Failures + One(Attempting(o))
    BY DEF Accounts, AttemptsArePaid
  <2>2. /\ nOwing(o)' \in Nat
        /\ nOwing(o)' + One(Attempting(o)) <= nOwing(o) + One(Attempting(o)') + paid
    BY DEF Fair, Counted
  <2> QED
    BY <1>1, <1>3, <2>1, <2>2, OutboxAssumption
<1>6. PostsArePaid'
  <2> SUFFICES ASSUME NEW o \in Output
               PROVE  /\ posted[o] + nPosting(o)' <= 1 + (Failures + paid)
                      /\ status[o] = "pending" =>
                           posted[o] + nMayPost(o)' <= Failures + paid + One(Accepted(o)')
    BY DEF PostsArePaid, Fair
  <2>1. /\ posted[o] + nPosting(o) <= 1 + Failures
        /\ status[o] = "pending" => posted[o] + nMayPost(o) <= Failures + One(Accepted(o))
    BY DEF Accounts, PostsArePaid
  <2>2. /\ nMayPost(o)' \in Nat /\ nPosting(o)' \in Nat /\ nPosting(o)' <= nPosting(o)
        /\ nMayPost(o)' + One(Accepted(o)) <= nMayPost(o) + One(Accepted(o)') + paid
    BY DEF Fair, Counted
  <2> QED
    BY <1>1, <1>3, <2>1, <2>2
<1> QED
  BY <1>2, <1>4, <1>5, <1>6 DEF Accounts

\* Such a step disturbs no slot that has counted an attempt.
LEMMA KeepsUndisturbed ==
  ASSUME TypeOK, Undisturbed, lapses' = 0 => lapses = 0,
         \A t \in Slot : pc'[t] \in Active =>
           pc'[t] = pc[t] /\ job'[t] = job[t] /\ answer'[t] = answer[t],
         UNCHANGED <<status, messageTs, transcript, posted>>
  PROVE  Undisturbed'
BY DEF Undisturbed, Active, OutputOf, TranscriptMirrorsSent

LEMMA StillCurrent ==
  ASSUME NEW s, OthersStay(s), NEW o
  PROVE  /\ Attempting(o) => \/ Attempting(o)'
                             \/ s \in Slot \ Doomed /\ pc[s] \in Active /\ OutputOf(s) = o
         /\ Accepted(o) => \/ Accepted(o)'
                           \/ s \in Slot \ Doomed /\ pc[s] = "record_sent" /\ OutputOf(s) = o
<1>1. ASSUME NEW t \in Slot \ Doomed, t # s
      PROVE  t \in Slot \ Doomed' /\ pc'[t] = pc[t] /\ OutputOf(t)' = OutputOf(t)
  BY <1>1 DEF OthersStay, OutputOf
<1> QED
  BY <1>1 DEF Attempting, Accepted

LEMMA AloneIsFair ==
  ASSUME TypeOK, NEW s, OthersStay(s), NEW paid \in 0..1, NEW lapsed \in 0..1,
         Failures' = Failures + paid, lapses' = lapses + lapsed,
         s \in Doomed' => s \in Doomed \/ lapsed = 1,
         \A o \in Output :
           /\ s \in Posting(o)' => s \in Posting(o)
           /\ One(s \in Owing(o)') + One(Attempting(o))
                <= One(s \in Owing(o)) + One(Attempting(o)') + paid
           /\ One(s \in MayPost(o)') + One(Accepted(o))
                <= One(s \in MayPost(o)) + One(Accepted(o)') + paid
  PROVE  Fair(paid, lapsed) /\ Counted
<1>1. /\ nDoomed' + One(s \in Doomed) <= nDoomed + One(s \in Doomed')
      /\ nDoomed' \in Nat /\ nDoomed \in Nat
  BY CountStep, DoomedType
<1>2. nDoomed' <= nDoomed + lapsed
  <2>1. One(s \in Doomed') <= One(s \in Doomed) + lapsed
    BY DEF One
  <2>2. One(s \in Doomed') \in 0..1 /\ One(s \in Doomed) \in 0..1
    BY DEF One
  <2> QED
    BY <1>1, <2>1, <2>2
<1>3. ASSUME NEW o \in Output
      PROVE  /\ nPosting(o)' <= nPosting(o)
             /\ nOwing(o)' + One(Attempting(o)) <= nOwing(o) + One(Attempting(o)') + paid
             /\ nMayPost(o)' + One(Accepted(o)) <= nMayPost(o) + One(Accepted(o)') + paid
             /\ nPosting(o)' \in Nat /\ nOwing(o)' \in Nat /\ nMayPost(o)' \in Nat
             /\ nOwing(o)' <= nDoomed' /\ nMayPost(o)' <= nDoomed'
  <2>1. nPosting(o) \in Nat /\ nOwing(o) \in Nat /\ nMayPost(o) \in Nat
    BY CountType
  <2>2. /\ nOwing(o)' + One(s \in Owing(o)) <= nOwing(o) + One(s \in Owing(o)')
        /\ nMayPost(o)' + One(s \in MayPost(o)) <= nMayPost(o) + One(s \in MayPost(o)')
        /\ nPosting(o)' + One(s \in Posting(o)) <= nPosting(o) + One(s \in Posting(o)')
        /\ nOwing(o)' \in Nat /\ nMayPost(o)' \in Nat /\ nPosting(o)' \in Nat
        /\ nOwing(o)' <= nDoomed' /\ nMayPost(o)' <= nDoomed'
    BY CountStep
  <2>3. nPosting(o)' <= nPosting(o)
    BY <2>1, <2>2 DEF One
  <2>4. nOwing(o)' + One(Attempting(o)) <= nOwing(o) + One(Attempting(o)') + paid
    BY <2>1, <2>2 DEF One
  <2>5. nMayPost(o)' + One(Accepted(o)) <= nMayPost(o) + One(Accepted(o)') + paid
    BY <2>1, <2>2 DEF One
  <2> QED
    BY <2>2, <2>3, <2>4, <2>5
<1> QED
  BY <1>1, <1>2, <1>3 DEF Fair, Counted

\* Recovery, and a slot that reports again.
LEMMA QuietStep ==
  ASSUME IInv, UNCHANGED <<rows, stale, fetched, pc, job, answer, posted, bounds>>,
         Doomed' \subseteq Doomed, doing' \subseteq doing, stalled' \subseteq doing \cup stalled
  PROVE  Inner'
<1>1. OthersStay(0)
  BY DEF OthersStay
<1>2. Failures' = Failures + 0 /\ lapses' = lapses + 0
  BY DEF IInv, TypeOK, Failures, bounds
<1>3. ASSUME NEW o \in Output
      PROVE  /\ 0 \in Posting(o)' => 0 \in Posting(o)
             /\ 0 \in Owing(o)' => 0 \in Owing(o)
             /\ 0 \in MayPost(o)' => 0 \in MayPost(o)
             /\ Attempting(o) => Attempting(o)'
             /\ Accepted(o) => Accepted(o)'
  BY DEF Posting, Owing, MayPost, Attempting, Accepted, OutputOf
<1>4. Fair(0, 0) /\ Counted
  BY <1>1, <1>2, <1>3, AloneIsFair DEF IInv, One
<1>5. Accounts'
  BY <1>4, FairKeepsAccounts DEF IInv, Inner, rows, stale
<1>6. JobIds'
  BY DEF IInv, Inner, JobIds, Busy, OutputOf
<1>7. Undisturbed'
  BY KeepsUndisturbed DEF IInv, Inner, rows, bounds
<1> QED
  BY <1>5, <1>6, <1>7 DEF Inner

LEMMA RecoverStep ==
  ASSUME IInv, Recover
  PROVE  Inner'
<1>1. /\ UNCHANGED <<rows, stale, fetched, pc, job, beat, answer, posted, bounds>>
      /\ doing' \subseteq doing /\ stalled' \subseteq doing \cup stalled
  BY DEF Recover, FindStalled, FindPending, EndTick, Release, Resubmit, recovering, slots, queue
<1>2. Doomed' \subseteq Doomed
  <2>1. CASE FindStalled
    BY <2>1 DEF FindStalled, Doomed, Busy, Healthy, recovering, slots, queue
  <2>2. CASE \E j \in stalled : Release(j)
    BY <2>2 DEF Release, Doomed, Busy, recovering, slots
  <2>3. CASE FindPending \/ EndTick \/ \E o \in pending : Resubmit(o)
    BY <2>3 DEF FindPending, EndTick, Resubmit, Doomed, Busy, recovering, slots, queue
  <2> QED
    BY <2>1, <2>2, <2>3 DEF Recover
<1> QED
  BY <1>1, <1>2, QuietStep

LEMMA ResumeStep ==
  ASSUME IInv, NEW s \in Slot, Resume(s)
  PROVE  Inner'
<1>1. Doomed' \subseteq Doomed
  BY DEF Resume, Doomed, Busy, queue, recovery, IInv, TypeOK
<1> QED
  BY <1>1, QuietStep DEF Resume, queue, recovery

LEMMA LapseStep ==
  ASSUME IInv, NEW s \in Slot, Lapse(s)
  PROVE  Inner'
<1>1. UNCHANGED <<rows, stale, queue, pc, job, mode, answer, recovery, posted, crashes, faults>>
      /\ lapses' = lapses + 1 /\ \A t \in Slot \ {s} : beat'[t] = beat[t]
  BY DEF Lapse, IInv, TypeOK
<1>2. OthersStay(s)
  BY <1>1 DEF OthersStay, Doomed, Busy, queue, recovery
<1>3. Failures' = Failures + 1
  BY <1>1 DEF IInv, TypeOK, Failures
<1>4. ASSUME NEW o \in Output
      PROVE  /\ s \in Posting(o)' => s \in Posting(o)
             /\ One(s \in Owing(o)') + One(Attempting(o))
                  <= One(s \in Owing(o)) + One(Attempting(o)') + 1
             /\ One(s \in MayPost(o)') + One(Accepted(o))
                  <= One(s \in MayPost(o)) + One(Accepted(o)') + 1
  <2>1. s \in Posting(o)' => s \in Posting(o)
    BY <1>1 DEF Posting, OutputOf
  <2>2. ~Attempting(o) \/ Attempting(o)' \/ s \notin Owing(o)'
    BY <1>1, <1>2, StillCurrent DEF Owing, Active
  <2>3. ~Accepted(o) \/ Accepted(o)' \/ s \notin MayPost(o)'
    BY <1>1, <1>2, StillCurrent DEF MayPost
  <2> QED
    BY <2>1, <2>2, <2>3 DEF One
<1>5. Fair(1, 1) /\ Counted
  BY <1>1, <1>2, <1>3, <1>4, AloneIsFair DEF IInv
<1>6. Accounts'
  BY <1>1, <1>5, FairKeepsAccounts DEF IInv, Inner, rows, stale
<1>7. JobIds'
  BY <1>1 DEF IInv, Inner, JobIds, Busy, OutputOf, queue, recovery
<1>8. lapses' # 0
  BY <1>1 DEF IInv, TypeOK
<1> QED
  BY <1>6, <1>7, <1>8, KeepsUndisturbed, <1>1 DEF Inner, IInv, rows

\* The job ends; another holder of the same job does not exist.
LEMMA FinishStep ==
  ASSUME IInv, NEW s \in Slot, FinishJob(s)
  PROVE  Inner'
<1>1. /\ UNCHANGED <<rows, stale, todo, fetched, beat, mode, recovery, posted, bounds>>
      /\ pc[s] = "finish" /\ pc'[s] = "idle" /\ doing' = doing \ {job[s]}
      /\ \A t \in Slot \ {s} : pc'[t] = pc[t] /\ job'[t] = job[t] /\ answer'[t] = answer[t]
  BY DEF FinishJob, Goto, IInv, TypeOK
<1>2. \A t \in Slot \ {s} : Busy(t) => job[t] # job[s]
  BY <1>1 DEF IInv, Inner, JobIds, Busy
<1>3. OthersStay(s) /\ s \notin Doomed'
  BY <1>1, <1>2 DEF OthersStay, Doomed, Busy, recovery
<1>4. Failures' = Failures + 0 /\ lapses' = lapses + 0
  BY <1>1 DEF IInv, TypeOK, Failures, bounds
<1>5. ASSUME NEW o \in Output
      PROVE  /\ s \notin Posting(o)' /\ s \notin Owing(o)' /\ s \notin MayPost(o)'
             /\ Attempting(o) => Attempting(o)'
             /\ Accepted(o) => Accepted(o)'
  BY <1>1, <1>3, StillCurrent DEF Posting, Owing, MayPost, Active
<1>6. Fair(0, 0) /\ Counted
  BY <1>3, <1>4, <1>5, AloneIsFair DEF IInv, One
<1>7. Accounts'
  BY <1>1, <1>6, FairKeepsAccounts DEF IInv, Inner, rows, stale
<1>8. JobIds'
  BY <1>1 DEF IInv, Inner, JobIds, Busy, OutputOf, recovery
<1>9. Undisturbed'
  BY <1>1, KeepsUndisturbed DEF IInv, Inner, rows, bounds, Active
<1> QED
  BY <1>7, <1>8, <1>9 DEF Inner

LEMMA CrashStep ==
  ASSUME IInv, NEW s \in Slot, Crash(s)
  PROVE  Inner'
<1>1. /\ UNCHANGED <<rows, stale, queue, posted, lapses, faults>>
      /\ crashes' = crashes + 1 /\ pc'[s] = "idle" /\ stalled' \subseteq stalled
      /\ \A t \in Slot \ {s} :
           pc'[t] = pc[t] /\ job'[t] = job[t] /\ beat'[t] = beat[t] /\ answer'[t] = answer[t]
  BY DEF Crash, IInv, TypeOK, recovery
<1>2. OthersStay(s) /\ s \notin Doomed'
  BY <1>1 DEF OthersStay, Doomed, Busy, queue
<1>3. Failures' = Failures + 1 /\ lapses' = lapses + 0
  BY <1>1 DEF IInv, TypeOK, Failures
<1>4. ASSUME NEW o \in Output
      PROVE  s \notin Posting(o)' /\ s \notin Owing(o)' /\ s \notin MayPost(o)'
  BY <1>1, <1>2 DEF Posting, Owing, MayPost
<1>5. Fair(1, 0) /\ Counted
  BY <1>2, <1>3, <1>4, AloneIsFair DEF IInv, One
<1>6. Accounts'
  BY <1>1, <1>5, FairKeepsAccounts DEF IInv, Inner, rows, stale
<1>7. JobIds'
  BY <1>1 DEF IInv, Inner, JobIds, Busy, OutputOf, queue
<1>8. Undisturbed'
  BY <1>1, KeepsUndisturbed DEF IInv, Inner, rows, Active
<1> QED
  BY <1>6, <1>7, <1>8 DEF Inner

LEMMA FailStep ==
  ASSUME IInv, NEW s \in Slot, TransactionFails(s)
  PROVE  Inner'
<1>1. /\ UNCHANGED <<rows, stale, queue, job, beat, mode, answer, recovery, posted, crashes, lapses>>
      /\ faults' = faults + 1 /\ Goto(s, "finish")
      /\ Busy(s) /\ pc[s] \in {"check", "record_sent", "record_failure"}
  BY DEF TransactionFails, Busy
<1>2. /\ pc'[s] = "finish" /\ \A t \in Slot \ {s} : pc'[t] = pc[t]
      /\ Doomed' = Doomed /\ OthersStay(s) /\ JobIds'
  BY <1>1, PlaceStep DEF IInv, Inner, queue, recovery, PC
<1>3. Failures' = Failures + 1 /\ lapses' = lapses + 0
  BY <1>1 DEF IInv, TypeOK, Failures
<1>4. ASSUME NEW o \in Output
      PROVE  s \notin Posting(o)' /\ s \notin Owing(o)' /\ s \notin MayPost(o)'
  BY <1>2 DEF Posting, Owing, MayPost
<1>5. Fair(1, 0) /\ Counted
  BY <1>2, <1>3, <1>4, AloneIsFair DEF IInv, One
<1>6. Accounts'
  BY <1>1, <1>5, FairKeepsAccounts DEF IInv, Inner, rows, stale
<1>7. Undisturbed'
  BY <1>1, <1>2, KeepsUndisturbed DEF IInv, Inner, rows, Active
<1> QED
  BY <1>2, <1>6, <1>7 DEF Inner

\* A fresh job, whose number nobody has used.
LEMMA FetchStep ==
  ASSUME IInv, NEW s \in Slot, NEW o \in todo, Fetch(s, o)
  PROVE  Inner'
<1> DEFINE j == <<o, fetched[o] + 1>>
<1>0. o \in Output /\ fetched[o] \in Nat /\ j \in Job
  BY DEF IInv, TypeOK, Job
<1>1. /\ UNCHANGED <<rows, stale, beat, mode, answer, recovery, posted, bounds>>
      /\ pc[s] = "idle" /\ beat[s] /\ pc'[s] = "check" /\ job'[s] = j /\ doing' = doing \cup {j}
      /\ \A i \in doing : i[1] # o
      /\ \A t \in Slot \ {s} : pc'[t] = pc[t] /\ job'[t] = job[t]
      /\ fetched'[o] = fetched[o] + 1 /\ \A p \in Output \ {o} : fetched'[p] = fetched[p]
  BY <1>0 DEF Fetch, Goto, IInv, TypeOK
<1>2. \A t \in Slot : Busy(t) => job[t] # j
  BY <1>0, SMT DEF IInv, Inner, JobIds, OutputOf
<1>3. j \notin stalled
  BY <1>0 DEF IInv, Inner, JobIds
<1>4. OthersStay(s) /\ s \notin Doomed'
  BY <1>1, <1>2, <1>3 DEF OthersStay, Doomed, Busy, recovery
<1>5. Failures' = Failures + 0 /\ lapses' = lapses + 0
  BY <1>1 DEF IInv, TypeOK, Failures, bounds
<1>6. ASSUME NEW p \in Output
      PROVE  /\ s \notin Posting(p)' /\ s \notin Owing(p)' /\ s \notin MayPost(p)'
             /\ Attempting(p) => Attempting(p)'
             /\ Accepted(p) => Accepted(p)'
  BY <1>1, <1>4, StillCurrent DEF Posting, Owing, MayPost, Active
<1>7. Fair(0, 0) /\ Counted
  BY <1>4, <1>5, <1>6, AloneIsFair DEF IInv, One
<1>8. Accounts'
  BY <1>1, <1>7, FairKeepsAccounts DEF IInv, Inner, rows, stale
<1>9. JobIds'
  <2>1. \A p \in Output : fetched[p] \in Nat /\ fetched[p] <= fetched'[p]
    BY <1>0, <1>1 DEF IInv, TypeOK
  <2>2. \A t \in Slot : Busy(t)' => job'[t] \in Job /\ job'[t][2] <= fetched'[OutputOf(t)']
    BY <1>0, <1>1, <2>1 DEF IInv, Inner, JobIds, Busy, OutputOf, Job
  <2>3. \A t, u \in Slot : Busy(t)' /\ Busy(u)' /\ job'[t] = job'[u] => t = u
    BY <1>1, <1>2 DEF IInv, Inner, JobIds, Busy
  <2>4. \A i \in doing' \cup stalled' : i[2] <= fetched'[i[1]]
    BY <1>0, <1>1, <2>1 DEF IInv, Inner, JobIds, TypeOK, Job, recovery
  <2>5. \A i, k \in doing' : i[1] = k[1] => i = k
    BY <1>0, <1>1 DEF IInv, Inner, JobIds
  <2> QED
    BY <2>2, <2>3, <2>4, <2>5 DEF JobIds
<1>10. Undisturbed'
  BY <1>1, KeepsUndisturbed DEF IInv, Inner, rows, bounds, Active
<1> QED
  BY <1>8, <1>9, <1>10 DEF Inner

-----------------------------------------------------------------------------
(* Steps that change an output.                                            *)

LEMMA NobodyDoomed ==
  ASSUME IInv, lapses = 0, NEW s \in Slot, Busy(s), NEW t \in Slot, Busy(t), OutputOf(s) = OutputOf(t)
  PROVE  s = t
<1>1. Cardinality(Doomed) = 0 /\ IsFiniteSet(Doomed)
  BY DoomedType, CountType DEF IInv, Inner, Accounts, DoomIsPaid, nDoomed
<1>2. Doomed = {}
  BY <1>1, FS_EmptySet
<1> QED
  BY <1>2, OneIsCurrent DEF IInv, Inner

\* Nobody moves.
LEMMA Unmoved ==
  ASSUME UNCHANGED <<pc, job, beat, doing, stalled>>
  PROVE  /\ nDoomed' = nDoomed
         /\ \A o : /\ nOwing(o)' = nOwing(o) /\ nMayPost(o)' = nMayPost(o)
                   /\ nPosting(o)' = nPosting(o)
                   /\ Attempting(o)' = Attempting(o) /\ Accepted(o)' = Accepted(o)
<1>1. Doomed' = Doomed
  BY DEF Doomed, Busy
<1>2. ASSUME NEW o
      PROVE  /\ Owing(o)' = Owing(o) /\ MayPost(o)' = MayPost(o) /\ Posting(o)' = Posting(o)
             /\ Attempting(o)' = Attempting(o) /\ Accepted(o)' = Accepted(o)
  BY <1>1 DEF Owing, MayPost, Posting, Attempting, Accepted, OutputOf
<1> QED
  BY <1>1, <1>2 DEF nDoomed, nOwing, nMayPost, nPosting

LEMMA CreateStep ==
  ASSUME IInv, NEW o \in Output, Create(o)
  PROVE  Inner'
<1>1. /\ UNCHANGED <<attempts, messageTs, transcript, stale, doing, fetched, slots, recovery,
                     posted, bounds>>
      /\ status[o] = "absent" /\ status'[o] = "pending"
      /\ \A p \in Output \ {o} : status'[p] = status[p]
  BY DEF Create, IInv, TypeOK
<1>2. /\ nDoomed' = nDoomed
      /\ \A p : /\ nOwing(p)' = nOwing(p) /\ nMayPost(p)' = nMayPost(p)
                /\ nPosting(p)' = nPosting(p)
                /\ Attempting(p)' = Attempting(p) /\ Accepted(p)' = Accepted(p)
  BY <1>1, Unmoved DEF slots, recovery
<1>3. Failures' = Failures /\ lapses' = lapses
  BY <1>1 DEF Failures, bounds
<1>4. DoomIsPaid' /\ PostsAreCounted'
  BY <1>1, <1>2, <1>3 DEF IInv, Inner, Accounts, DoomIsPaid, PostsAreCounted, stale
<1>5. /\ Failures \in Nat /\ lapses \in Nat /\ lapses <= Failures /\ nDoomed \in Nat
      /\ nDoomed <= lapses /\ nOwing(o) <= nDoomed /\ nMayPost(o) <= nDoomed
      /\ nOwing(o) \in Nat /\ nMayPost(o) \in Nat /\ nPosting(o) \in Nat
      /\ attempts[o] = 0 /\ posted[o] \in Nat /\ posted[o] + nPosting(o) <= attempts[o]
  BY <1>1, NumberTypes, CountType
     DEF IInv, Inner, Accounts, DoomIsPaid, AttemptsArePaid, PostsAreCounted
<1>6. One(Attempting(o)) \in 0..1 /\ One(Accepted(o)) \in 0..1
  BY DEF One
<1>7. /\ attempts[o] + nOwing(o) <= MaxAttempts - 1 + Failures + One(Attempting(o))
      /\ posted[o] + nMayPost(o) <= Failures + One(Accepted(o))
  BY <1>5, <1>6, OutboxAssumption
<1>8. AttemptsArePaid' /\ PostsArePaid'
  BY <1>1, <1>2, <1>3, <1>7 DEF IInv, Inner, Accounts, AttemptsArePaid, PostsArePaid
<1>9. JobIds'
  BY <1>1 DEF IInv, Inner, JobIds, Busy, OutputOf, slots, recovery
<1>10. Undisturbed'
  <2> SUFFICES ASSUME lapses = 0
               PROVE  /\ \A s \in Slot : pc[s] \in Active => status'[OutputOf(s)] = "pending"
                      /\ \A s \in Slot : pc[s] = "record_sent" => answer[s] \in 1..posted[OutputOf(s)]
                      /\ TranscriptMirrorsSent'
    BY <1>1, <1>3 DEF Undisturbed, OutputOf, slots
  <2>1. \A s \in Slot : pc[s] \in Active => OutputOf(s) \in Output
    BY OutputType DEF IInv, Inner, Active, Busy
  <2>2. \A s \in Slot : pc[s] \in Active => status'[OutputOf(s)] = "pending"
    BY <1>1, <2>1 DEF IInv, Inner, Undisturbed
  <2>3. TranscriptMirrorsSent'
    BY <1>1 DEF IInv, Inner, Undisturbed, TranscriptMirrorsSent
  <2> QED
    BY <2>2, <2>3 DEF IInv, Inner, Undisturbed
<1> QED
  BY <1>4, <1>8, <1>9, <1>10 DEF Inner, Accounts

LEMMA SupersedeStep ==
  ASSUME IInv, NEW o \in Output, Supersede(o)
  PROVE  Inner'
<1>1. /\ UNCHANGED <<rows, queue, slots, recovery, posted, bounds>>
      /\ superseded' = superseded \cup {o} /\ allowed'[o] = attempts[o]
      /\ \A p \in Output \ {o} : allowed'[p] = allowed[p]
  BY DEF Supersede, IInv, TypeOK
<1>2. /\ nDoomed' = nDoomed
      /\ \A p : /\ nOwing(p)' = nOwing(p) /\ nMayPost(p)' = nMayPost(p)
                /\ nPosting(p)' = nPosting(p)
                /\ Attempting(p)' = Attempting(p) /\ Accepted(p)' = Accepted(p)
  BY <1>1, Unmoved DEF slots, recovery, queue
<1>3. Failures' = Failures /\ lapses' = lapses
  BY <1>1 DEF Failures, bounds
<1>4. /\ UNCHANGED <<status, attempts, posted>>
  BY <1>1 DEF rows
<1>5. PostsAreCounted'
  <2>1. \A p \in superseded' : attempts'[p] <= allowed'[p]
    BY <1>1, <1>4 DEF IInv, TypeOK, Inner, Accounts, PostsAreCounted, Output
  <2> QED
    BY <1>2, <1>4, <2>1 DEF IInv, Inner, Accounts, PostsAreCounted
<1>6. DoomIsPaid' /\ AttemptsArePaid' /\ PostsArePaid'
  BY <1>2, <1>3, <1>4 DEF IInv, Inner, Accounts, DoomIsPaid, AttemptsArePaid, PostsArePaid
<1>7. JobIds'
  BY <1>1 DEF IInv, Inner, JobIds, Busy, OutputOf, slots, queue, recovery
<1>8. Undisturbed'
  BY <1>1, <1>3, KeepsUndisturbed DEF IInv, Inner, rows, slots
<1> QED
  BY <1>5, <1>6, <1>7, <1>8 DEF Inner, Accounts

\* A slot leaves its output, settled or with an attempt to spare.
LEMMA LeaveStep ==
  ASSUME IInv, NEW s \in Slot, Busy(s), Goto(s, "finish"), NEW o \in Output, o = OutputOf(s),
         UNCHANGED <<attempts, posted, stale, queue, job, beat, recovery, bounds>>,
         \A p \in Output \ {o} : status'[p] = status[p],
         status'[o] = "absent" => status[o] = "absent",
         status'[o] = "pending" =>
           /\ status[o] = "pending" /\ pc[s] # "record_sent"
           /\ pc[s] \in Active => attempts[o] < MaxAttempts
  PROVE  JobIds' /\ Accounts'
<1>1. /\ pc'[s] = "finish" /\ \A t \in Slot \ {s} : pc'[t] = pc[t]
      /\ Doomed' = Doomed /\ OthersStay(s) /\ JobIds'
  BY PlaceStep DEF IInv, Inner, queue, recovery, PC
<1>2. Failures' = Failures /\ lapses' = lapses
  BY DEF Failures, bounds
<1>3. Failures \in Nat /\ lapses \in Nat /\ lapses <= Failures /\ nDoomed \in Nat
  BY NumberTypes DEF IInv
<1>4. nDoomed' = nDoomed
  BY <1>1 DEF nDoomed
<1>5. nDoomed <= lapses
  BY DEF IInv, Inner, Accounts, DoomIsPaid
<1>6. DoomIsPaid'
  BY <1>2, <1>4, <1>5 DEF DoomIsPaid
<1>7. ASSUME NEW p \in Output
      PROVE  /\ attempts[p] \in Nat /\ posted[p] \in Nat
             /\ nPosting(p) \in Nat /\ nOwing(p) \in Nat /\ nMayPost(p) \in Nat
             /\ nPosting(p)' \in Nat /\ nOwing(p)' \in Nat /\ nMayPost(p)' \in Nat
             /\ nPosting(p)' <= nPosting(p) /\ nOwing(p)' <= nOwing(p) /\ nMayPost(p)' <= nMayPost(p)
             /\ nOwing(p)' <= nDoomed'
             /\ One(Attempting(p)) \in 0..1 /\ One(Accepted(p)) \in 0..1
             /\ One(Attempting(p)') \in 0..1 /\ One(Accepted(p)') \in 0..1
  <2>1. s \notin Posting(p)' /\ s \notin Owing(p)' /\ s \notin MayPost(p)'
    BY <1>1 DEF Posting, Owing, MayPost
  <2>2. /\ nOwing(p)' + One(s \in Owing(p)) <= nOwing(p) + One(s \in Owing(p)')
        /\ nMayPost(p)' + One(s \in MayPost(p)) <= nMayPost(p) + One(s \in MayPost(p)')
        /\ nPosting(p)' + One(s \in Posting(p)) <= nPosting(p) + One(s \in Posting(p)')
        /\ nOwing(p)' \in Nat /\ nMayPost(p)' \in Nat /\ nPosting(p)' \in Nat
        /\ nOwing(p)' <= nDoomed'
    BY <1>1, CountStep DEF IInv
  <2>3. /\ attempts[p] \in Nat /\ posted[p] \in Nat
        /\ nPosting(p) \in Nat /\ nOwing(p) \in Nat /\ nMayPost(p) \in Nat
    BY NumberTypes DEF IInv
  <2>4. /\ One(Attempting(p)) \in 0..1 /\ One(Accepted(p)) \in 0..1
        /\ One(Attempting(p)') \in 0..1 /\ One(Accepted(p)') \in 0..1
        /\ One(s \in Owing(p)) >= 0 /\ One(s \in MayPost(p)) >= 0 /\ One(s \in Posting(p)) >= 0
        /\ One(s \in Owing(p)) \in Int /\ One(s \in MayPost(p)) \in Int /\ One(s \in Posting(p)) \in Int
        /\ One(s \in Owing(p)') = 0 /\ One(s \in MayPost(p)') = 0 /\ One(s \in Posting(p)') = 0
    BY <2>1 DEF One
  <2> QED
    BY <2>2, <2>3, <2>4
<1>8. PostsAreCounted'
  BY <1>7 DEF IInv, Inner, Accounts, PostsAreCounted, stale
<1>9. ASSUME NEW p \in Output, status'[p] = "pending"
       PROVE  /\ status[p] = "pending"
              /\ Accepted(p) => Accepted(p)'
              /\ Attempting(p) => Attempting(p)' \/ attempts[p] < MaxAttempts
  BY <1>1, <1>9, StillCurrent
<1>10. AttemptsArePaid'
  <2> SUFFICES ASSUME NEW p \in Output
               PROVE  /\ attempts[p] <= MaxAttempts + Failures
                      /\ status'[p] = "absent" => attempts[p] = 0
                      /\ status'[p] = "pending" =>
                           attempts[p] + nOwing(p)' <= MaxAttempts - 1 + Failures + One(Attempting(p)')
    BY <1>2 DEF AttemptsArePaid
  <2>1. /\ attempts[p] <= MaxAttempts + Failures
        /\ status[p] = "absent" => attempts[p] = 0
        /\ status[p] = "pending" =>
             attempts[p] + nOwing(p) <= MaxAttempts - 1 + Failures + One(Attempting(p))
    BY DEF IInv, Inner, Accounts, AttemptsArePaid
  <2>2. status'[p] = "absent" => attempts[p] = 0
    BY <2>1
  <2>3. ASSUME status'[p] = "pending"
        PROVE  attempts[p] + nOwing(p)' <= MaxAttempts - 1 + Failures + One(Attempting(p)')
    <3>1. CASE attempts[p] < MaxAttempts
      BY <1>3, <1>4, <1>5, <1>7, <3>1, OutboxAssumption
    <3>2. CASE Attempting(p) => Attempting(p)'
      <4>1. One(Attempting(p)) <= One(Attempting(p)')
        BY <3>2 DEF One
      <4> QED
        BY <1>3, <1>7, <1>9, <2>1, <2>3, <4>1, OutboxAssumption
    <3> QED
      BY <1>9, <2>3, <3>1, <3>2
  <2> QED
    BY <2>1, <2>2, <2>3
<1>11. PostsArePaid'
  <2> SUFFICES ASSUME NEW p \in Output
               PROVE  /\ posted[p] + nPosting(p)' <= 1 + Failures
                      /\ status'[p] = "pending" =>
                           posted[p] + nMayPost(p)' <= Failures + One(Accepted(p)')
    BY <1>2 DEF PostsArePaid
  <2>1. /\ posted[p] + nPosting(p) <= 1 + Failures
        /\ status[p] = "pending" => posted[p] + nMayPost(p) <= Failures + One(Accepted(p))
    BY DEF IInv, Inner, Accounts, PostsArePaid
  <2>2. status'[p] = "pending" => One(Accepted(p)) <= One(Accepted(p)')
    BY <1>9 DEF One
  <2> QED
    BY <1>3, <1>7, <1>9, <2>1, <2>2
<1> QED
  BY <1>1, <1>6, <1>8, <1>10, <1>11 DEF Accounts

\* The Slack call: it uses the attempt up, and what it posts unnoticed is paid
\* for by a failure.
Called(s, o, place, accepted, paid) ==
  /\ pc[s] = "post" /\ o = OutputOf(s) /\ Goto(s, place)
  /\ UNCHANGED <<rows, stale, queue, job, beat, recovery>>
  /\ posted' = [posted EXCEPT ![o] = @ + accepted]
  /\ Failures' = Failures + paid /\ lapses' = lapses
  /\ place = "record_failure" => accepted <= paid
  /\ place = "record_sent" => accepted = 1 /\ answer'[s] = posted[o] + 1
  /\ \A t \in Slot \ {s} : answer'[t] = answer[t]

LEMMA CallStep ==
  ASSUME IInv, NEW s \in Slot, NEW o \in Output, NEW place \in {"record_sent", "record_failure"},
         NEW accepted \in 0..1, NEW paid \in 0..1, Called(s, o, place, accepted, paid)
  PROVE  Inner'
<1>0. /\ pc[s] = "post" /\ o = OutputOf(s) /\ Goto(s, place)
      /\ UNCHANGED <<rows, stale, queue, job, beat, recovery>>
      /\ posted' = [posted EXCEPT ![o] = @ + accepted]
      /\ Failures' = Failures + paid /\ lapses' = lapses
      /\ place = "record_failure" => accepted <= paid
      /\ place = "record_sent" => accepted = 1 /\ answer'[s] = posted[o] + 1
      /\ \A t \in Slot \ {s} : answer'[t] = answer[t]
  BY DEF Called
<1> USE <1>0
<1>1. /\ pc'[s] = place /\ \A t \in Slot \ {s} : pc'[t] = pc[t]
      /\ \A t \in Slot : OutputOf(t)' = OutputOf(t)
      /\ Doomed' = Doomed /\ OthersStay(s) /\ JobIds'
  BY PlaceStep DEF IInv, Inner, queue, recovery, PC, Busy
<1>2. Failures \in Nat /\ lapses \in Nat /\ nDoomed \in Nat
  BY NumberTypes DEF IInv
<1>3. /\ posted'[o] = posted[o] + accepted /\ \A p \in Output \ {o} : posted'[p] = posted[p]
      /\ UNCHANGED <<status, attempts, messageTs, transcript, superseded, allowed>>
  BY DEF IInv, TypeOK, rows, stale
<1>4. DoomIsPaid'
  <2>1. nDoomed' = nDoomed
    BY <1>1 DEF nDoomed
  <2> QED
    BY <1>2, <2>1 DEF IInv, Inner, Accounts, DoomIsPaid
<1>5. ASSUME NEW p \in Output
      PROVE  /\ attempts[p] \in Nat /\ posted[p] \in Nat /\ posted'[p] \in Nat
             /\ nPosting(p) \in Nat /\ nOwing(p) \in Nat /\ nMayPost(p) \in Nat
             /\ nPosting(p)' \in Nat /\ nOwing(p)' \in Nat /\ nMayPost(p)' \in Nat
             /\ nPosting(p)' + One(p = o) <= nPosting(p)
             /\ nMayPost(p)' + One(p = o /\ s \in Doomed) <= nMayPost(p)
             /\ nOwing(p)' <= nOwing(p)
             /\ One(Attempting(p)) \in 0..1 /\ One(Accepted(p)) \in 0..1
             /\ One(Attempting(p)') \in 0..1 /\ One(Accepted(p)') \in 0..1
             /\ One(Attempting(p)) <= One(Attempting(p)')
             /\ One(Accepted(p)) <= One(Accepted(p)')
  <2>1. /\ nOwing(p)' + One(s \in Owing(p)) <= nOwing(p) + One(s \in Owing(p)')
        /\ nMayPost(p)' + One(s \in MayPost(p)) <= nMayPost(p) + One(s \in MayPost(p)')
        /\ nPosting(p)' + One(s \in Posting(p)) <= nPosting(p) + One(s \in Posting(p)')
        /\ nOwing(p)' \in Nat /\ nMayPost(p)' \in Nat /\ nPosting(p)' \in Nat
    BY <1>1, CountStep DEF IInv
  <2>2. /\ s \notin Posting(p)' /\ s \notin Owing(p)' /\ s \notin MayPost(p)'
        /\ s \in Posting(p) <=> p = o
        /\ s \in MayPost(p) <=> p = o /\ s \in Doomed
        /\ s \notin Owing(p)
    BY <1>1 DEF Posting, Owing, MayPost
  <2>3. /\ attempts[p] \in Nat /\ posted[p] \in Nat /\ posted'[p] \in Nat
        /\ nPosting(p) \in Nat /\ nOwing(p) \in Nat /\ nMayPost(p) \in Nat
    BY <1>3, NumberTypes DEF IInv
  <2>4. (Attempting(p) => Attempting(p)') /\ (Accepted(p) => Accepted(p)')
    BY <1>1, StillCurrent DEF Attempting, Active
  <2>5. /\ One(s \in Owing(p)) = 0 /\ One(s \in Owing(p)') = 0
        /\ One(s \in MayPost(p)') = 0 /\ One(s \in Posting(p)') = 0
        /\ One(s \in Posting(p)) = One(p = o)
        /\ One(s \in MayPost(p)) = One(p = o /\ s \in Doomed)
        /\ One(p = o) \in 0..1 /\ One(p = o /\ s \in Doomed) \in 0..1
    BY <2>2 DEF One
  <2>6. /\ One(Attempting(p)) \in 0..1 /\ One(Accepted(p)) \in 0..1
        /\ One(Attempting(p)') \in 0..1 /\ One(Accepted(p)') \in 0..1
        /\ One(Attempting(p)) <= One(Attempting(p)')
        /\ One(Accepted(p)) <= One(Accepted(p)')
    BY <2>4 DEF One
  <2>7. /\ nPosting(p)' + One(p = o) <= nPosting(p)
        /\ nMayPost(p)' + One(p = o /\ s \in Doomed) <= nMayPost(p)
        /\ nOwing(p)' <= nOwing(p)
    BY <2>1, <2>3, <2>5
  <2> QED
    BY <2>1, <2>3, <2>6, <2>7
<1>6. PostsAreCounted'
  <2>1. ASSUME NEW p \in Output
        PROVE  posted'[p] + nPosting(p)' <= attempts[p]
    <3>1. posted[p] + nPosting(p) <= attempts[p]
      BY DEF IInv, Inner, Accounts, PostsAreCounted
    <3>2. posted'[p] <= posted[p] + One(p = o) /\ One(p = o) \in 0..1
      BY <1>3, <1>5 DEF One
    <3> QED
      BY <1>5, <3>1, <3>2
  <2> QED
    BY <1>3, <2>1 DEF IInv, Inner, Accounts, PostsAreCounted
<1>7. AttemptsArePaid'
  <2> SUFFICES ASSUME NEW p \in Output
               PROVE  /\ attempts[p] <= MaxAttempts + (Failures + paid)
                      /\ status[p] = "absent" => attempts[p] = 0
                      /\ status[p] = "pending" =>
                           attempts[p] + nOwing(p)'
                             <= MaxAttempts - 1 + (Failures + paid) + One(Attempting(p)')
    BY <1>3 DEF AttemptsArePaid
  <2>1. /\ attempts[p] <= MaxAttempts + Failures
        /\ status[p] = "absent" => attempts[p] = 0
        /\ status[p] = "pending" =>
             attempts[p] + nOwing(p) <= MaxAttempts - 1 + Failures + One(Attempting(p))
    BY DEF IInv, Inner, Accounts, AttemptsArePaid
  <2> QED
    BY <1>2, <1>5, <2>1, OutboxAssumption
<1>8. PostsArePaid'
  <2> SUFFICES ASSUME NEW p \in Output
               PROVE  /\ posted'[p] + nPosting(p)' <= 1 + (Failures + paid)
                      /\ status[p] = "pending" =>
                           posted'[p] + nMayPost(p)' <= Failures + paid + One(Accepted(p)')
    BY <1>3 DEF PostsArePaid
  <2>1. /\ posted[p] + nPosting(p) <= 1 + Failures
        /\ status[p] = "pending" => posted[p] + nMayPost(p) <= Failures + One(Accepted(p))
    BY DEF IInv, Inner, Accounts, PostsArePaid
  <2>2. CASE p # o
    <3>1. posted'[p] = posted[p] /\ One(p = o) = 0 /\ One(p = o /\ s \in Doomed) = 0
      BY <1>3, <2>2 DEF One
    <3> QED
      BY <1>2, <1>5, <2>1, <3>1
  <2>3. CASE p = o /\ s \in Doomed
    <3>1. posted'[p] = posted[p] + accepted /\ One(p = o) = 1 /\ One(p = o /\ s \in Doomed) = 1
      BY <1>3, <2>3 DEF One
    <3> QED
      BY <1>2, <1>5, <2>1, <3>1
  <2>4. CASE p = o /\ s \notin Doomed
    <3>1. posted'[p] = posted[p] + accepted /\ One(p = o) = 1 /\ One(p = o /\ s \in Doomed) = 0
      BY <1>3, <2>4 DEF One
    <3>2. ~Accepted(p)
      BY <2>4, OneIsCurrent DEF Accepted, Busy, IInv, Inner
    <3>3. place = "record_sent" => Accepted(p)'
      BY <1>1, <2>4 DEF Accepted
    <3>4. One(Accepted(p)) = 0 /\ (place = "record_sent" => One(Accepted(p)') = 1)
      BY <3>2, <3>3 DEF One
    <3>5. accepted <= paid + One(Accepted(p)')
      BY <1>5, <3>4
    <3> QED
      BY <1>2, <1>5, <2>1, <3>1, <3>4, <3>5
  <2> QED
    BY <2>2, <2>3, <2>4
<1>9. Undisturbed'
  <2> SUFFICES ASSUME lapses = 0
               PROVE  /\ \A t \in Slot : pc'[t] \in Active => status[OutputOf(t)] = "pending"
                      /\ \A t \in Slot : pc'[t] = "record_sent" => answer'[t] \in 1..posted'[OutputOf(t)]
                      /\ TranscriptMirrorsSent'
    BY <1>1, <1>3 DEF Undisturbed
  <2>1. \A p \in Output : posted[p] \in Nat /\ posted'[p] \in Nat /\ posted[p] <= posted'[p]
    BY <1>3, <1>5
  <2>2. \A t \in Slot : Busy(t) => OutputOf(t) \in Output
    BY OutputType DEF IInv, Inner
  <2>3. \A t \in Slot : pc'[t] \in Active => status[OutputOf(t)] = "pending"
    BY <1>1 DEF IInv, Inner, Undisturbed, Active
  <2>4. ASSUME NEW t \in Slot, pc'[t] = "record_sent"
        PROVE  answer'[t] \in 1..posted'[OutputOf(t)]
    <3>1. CASE t = s
      BY <1>1, <1>3, <2>1, <2>4, <3>1
    <3>2. CASE t # s
      <4>1. pc[t] = "record_sent" /\ answer'[t] = answer[t] /\ OutputOf(t) \in Output
        BY <1>1, <2>2, <2>4, <3>2 DEF Busy
      <4>2. answer[t] \in 1..posted[OutputOf(t)]
        BY <4>1 DEF IInv, Inner, Undisturbed
      <4> QED
        BY <2>1, <4>1, <4>2
    <3> QED
      BY <3>1, <3>2
  <2>5. TranscriptMirrorsSent'
    <3>1. \A p \in Output :
            /\ transcript[p] = IF status[p] = "sent" THEN {messageTs[p]} ELSE {}
            /\ status[p] = "sent" => messageTs[p] \in 1..posted[p]
      BY DEF IInv, Inner, Undisturbed, TranscriptMirrorsSent
    <3>2. ASSUME NEW p \in Output, status[p] = "sent"
          PROVE  messageTs[p] \in 1..posted'[p]
      <4>1. messageTs[p] \in 1..posted[p]
        BY <3>1, <3>2
      <4> QED
        BY <2>1, <4>1
    <3> QED
      BY <1>3, <3>1, <3>2 DEF TranscriptMirrorsSent
  <2> QED
    BY <2>3, <2>4, <2>5
<1> QED
  BY <1>1, <1>4, <1>6, <1>7, <1>8, <1>9 DEF Inner, Accounts

\* The check counts an attempt of an output that is pending.
LEMMA AttemptStep ==
  ASSUME IInv, NEW s \in Slot, pc[s] = "check", NEW o \in Output, o = OutputOf(s),
         Goto(s, "post"), status[o] = "pending", o \notin superseded,
         attempts' = [attempts EXCEPT ![o] = @ + 1],
         UNCHANGED <<status, messageTs, transcript, delivering, answer, posted>>
  PROVE  Inner'
<1>1. /\ pc'[s] = "post" /\ \A t \in Slot \ {s} : pc'[t] = pc[t]
      /\ \A t \in Slot : OutputOf(t)' = OutputOf(t)
      /\ Doomed' = Doomed /\ OthersStay(s) /\ JobIds'
  BY PlaceStep DEF IInv, Inner, delivering, queue, recovery, PC, Busy
<1>2. /\ attempts'[o] = attempts[o] + 1 /\ \A p \in Output \ {o} : attempts'[p] = attempts[p]
      /\ UNCHANGED <<superseded, allowed>> /\ Failures' = Failures /\ lapses' = lapses
  BY DEF IInv, TypeOK, delivering, stale, bounds, Failures
<1>3. Failures \in Nat /\ lapses \in Nat /\ nDoomed \in Nat
  BY NumberTypes DEF IInv
<1>4. DoomIsPaid'
  <2>1. nDoomed' = nDoomed
    BY <1>1 DEF nDoomed
  <2> QED
    BY <1>2, <2>1 DEF IInv, Inner, Accounts, DoomIsPaid
<1>5. ASSUME NEW p \in Output
      PROVE  /\ attempts[p] \in Nat /\ posted[p] \in Nat
             /\ nPosting(p) \in Nat /\ nOwing(p) \in Nat /\ nMayPost(p) \in Nat
             /\ nPosting(p)' \in Nat /\ nOwing(p)' \in Nat /\ nMayPost(p)' \in Nat
             /\ nPosting(p)' <= nPosting(p) + One(p = o)
             /\ nMayPost(p)' <= nMayPost(p)
             /\ nOwing(p)' + One(p = o /\ s \in Doomed) <= nOwing(p)
             /\ One(p = o) \in 0..1 /\ One(p = o /\ s \in Doomed) \in 0..1
             /\ One(Attempting(p)) \in 0..1 /\ One(Accepted(p)) \in 0..1
             /\ One(Attempting(p)') \in 0..1 /\ One(Accepted(p)') \in 0..1
             /\ One(Attempting(p)) <= One(Attempting(p)')
             /\ One(Accepted(p)) <= One(Accepted(p)')
  <2>1. /\ nOwing(p)' + One(s \in Owing(p)) <= nOwing(p) + One(s \in Owing(p)')
        /\ nMayPost(p)' + One(s \in MayPost(p)) <= nMayPost(p) + One(s \in MayPost(p)')
        /\ nPosting(p)' + One(s \in Posting(p)) <= nPosting(p) + One(s \in Posting(p)')
        /\ nOwing(p)' \in Nat /\ nMayPost(p)' \in Nat /\ nPosting(p)' \in Nat
    BY <1>1, CountStep DEF IInv
  <2>2. /\ s \in Posting(p)' <=> p = o
        /\ s \notin Owing(p)'
        /\ s \in MayPost(p)' <=> s \in MayPost(p)
        /\ s \notin Posting(p)
        /\ s \in Owing(p) <=> p = o /\ s \in Doomed
    BY <1>1 DEF Posting, Owing, MayPost
  <2>3. /\ attempts[p] \in Nat /\ posted[p] \in Nat
        /\ nPosting(p) \in Nat /\ nOwing(p) \in Nat /\ nMayPost(p) \in Nat
    BY NumberTypes DEF IInv
  <2>4. (Attempting(p) => Attempting(p)') /\ (Accepted(p) => Accepted(p)')
    BY <1>1, StillCurrent DEF Active
  <2>5. /\ One(s \in Owing(p)') = 0 /\ One(s \in Posting(p)) = 0
        /\ One(s \in MayPost(p)') = One(s \in MayPost(p)) /\ One(s \in MayPost(p)) \in 0..1
        /\ One(s \in Posting(p)') = One(p = o)
        /\ One(s \in Owing(p)) = One(p = o /\ s \in Doomed)
        /\ One(p = o) \in 0..1 /\ One(p = o /\ s \in Doomed) \in 0..1
    BY <2>2 DEF One
  <2>6. /\ One(Attempting(p)) \in 0..1 /\ One(Accepted(p)) \in 0..1
        /\ One(Attempting(p)') \in 0..1 /\ One(Accepted(p)') \in 0..1
        /\ One(Attempting(p)) <= One(Attempting(p)')
        /\ One(Accepted(p)) <= One(Accepted(p)')
    BY <2>4 DEF One
  <2>7. /\ nPosting(p)' <= nPosting(p) + One(p = o)
        /\ nMayPost(p)' <= nMayPost(p)
        /\ nOwing(p)' + One(p = o /\ s \in Doomed) <= nOwing(p)
    BY <2>1, <2>3, <2>5
  <2> QED
    BY <2>1, <2>3, <2>5, <2>6, <2>7
<1>6. PostsAreCounted'
  <2>1. ASSUME NEW p \in Output
        PROVE  posted[p] + nPosting(p)' <= attempts'[p]
    <3>1. posted[p] + nPosting(p) <= attempts[p]
      BY DEF IInv, Inner, Accounts, PostsAreCounted
    <3>2. attempts'[p] = attempts[p] + One(p = o)
      BY <1>2, <1>5 DEF One
    <3> QED
      BY <1>5, <3>1, <3>2
  <2>2. \A p \in superseded : p # o /\ p \in Output
    BY DEF IInv, TypeOK, Output
  <2> QED
    BY <1>2, <2>1, <2>2 DEF IInv, Inner, Accounts, PostsAreCounted
<1>7. AttemptsArePaid'
  <2> SUFFICES ASSUME NEW p \in Output
               PROVE  /\ attempts'[p] <= MaxAttempts + Failures
                      /\ status[p] = "absent" => attempts'[p] = 0
                      /\ status[p] = "pending" =>
                           attempts'[p] + nOwing(p)'
                             <= MaxAttempts - 1 + Failures + One(Attempting(p)')
    BY <1>2 DEF AttemptsArePaid
  <2>1. /\ attempts[p] <= MaxAttempts + Failures
        /\ status[p] = "absent" => attempts[p] = 0
        /\ status[p] = "pending" =>
             attempts[p] + nOwing(p) <= MaxAttempts - 1 + Failures + One(Attempting(p))
    BY DEF IInv, Inner, Accounts, AttemptsArePaid
  <2>2. CASE p # o
    <3>1. attempts'[p] = attempts[p] /\ One(p = o /\ s \in Doomed) = 0
      BY <1>2, <2>2 DEF One
    <3> QED
      BY <1>3, <1>5, <2>1, <3>1, OutboxAssumption
  <2>3. CASE p = o /\ s \in Doomed
    <3>1. attempts'[p] = attempts[p] + 1 /\ One(p = o /\ s \in Doomed) = 1
      BY <1>2, <2>3 DEF One
    <3> QED
      BY <1>3, <1>5, <2>1, <2>3, <3>1, OutboxAssumption
  <2>4. CASE p = o /\ s \notin Doomed
    <3>1. attempts'[p] = attempts[p] + 1 /\ One(p = o /\ s \in Doomed) = 0
      BY <1>2, <2>4 DEF One
    <3>2. ~Attempting(p)
      BY <2>4, OneIsCurrent DEF Attempting, Active, Busy, IInv, Inner
    <3>3. Attempting(p)'
      BY <1>1, <2>4 DEF Attempting, Active
    <3>4. One(Attempting(p)) = 0 /\ One(Attempting(p)') = 1
      BY <3>2, <3>3 DEF One
    <3> QED
      BY <1>3, <1>5, <2>1, <2>4, <3>1, <3>4, OutboxAssumption
  <2> QED
    BY <2>2, <2>3, <2>4
<1>8. PostsArePaid'
  <2> SUFFICES ASSUME NEW p \in Output
               PROVE  /\ posted[p] + nPosting(p)' <= 1 + Failures
                      /\ status[p] = "pending" =>
                           posted[p] + nMayPost(p)' <= Failures + One(Accepted(p)')
    BY <1>2 DEF PostsArePaid
  <2>1. /\ posted[p] + nPosting(p) <= 1 + Failures
        /\ status[p] = "pending" => posted[p] + nMayPost(p) <= Failures + One(Accepted(p))
    BY DEF IInv, Inner, Accounts, PostsArePaid
  <2>2. CASE p # o
    <3>1. One(p = o) = 0
      BY <2>2 DEF One
    <3> QED
      BY <1>3, <1>5, <2>1, <3>1
  <2>3. CASE p = o
    <3>1. nPosting(p) + One(Accepted(p)) <= nMayPost(p)
      BY <2>3, RoomToPost DEF IInv, Inner
    <3> QED
      BY <1>3, <1>5, <2>1, <2>3, <3>1
  <2> QED
    BY <2>2, <2>3
<1>9. Undisturbed'
  <2> SUFFICES ASSUME lapses = 0
               PROVE  /\ \A t \in Slot : pc'[t] \in Active => status[OutputOf(t)] = "pending"
                      /\ \A t \in Slot : pc'[t] = "record_sent" => answer[t] \in 1..posted[OutputOf(t)]
                      /\ TranscriptMirrorsSent'
    BY <1>1, <1>2 DEF Undisturbed
  <2>1. \A t \in Slot : pc'[t] \in Active => status[OutputOf(t)] = "pending"
    BY <1>1 DEF IInv, Inner, Undisturbed, Active
  <2>2. \A t \in Slot : pc'[t] = "record_sent" => answer[t] \in 1..posted[OutputOf(t)]
    BY <1>1 DEF IInv, Inner, Undisturbed
  <2>3. TranscriptMirrorsSent'
    BY <1>2 DEF IInv, Inner, Undisturbed, TranscriptMirrorsSent
  <2> QED
    BY <2>1, <2>2, <2>3
<1> QED
  BY <1>1, <1>4, <1>6, <1>7, <1>8, <1>9 DEF Inner, Accounts

LEMMA CheckStep ==
  ASSUME IInv, NEW s \in Slot, Check(s)
  PROVE  Inner'
<1> DEFINE o == OutputOf(s)
<1>1. pc[s] = "check" /\ Busy(s) /\ o \in Output
  BY OutputType DEF Check, Busy, IInv, Inner
<1>2. CASE status[o] # "pending" /\ Goto(s, "finish") /\ UNCHANGED <<status, attempts>>
  <2>1. /\ UNCHANGED <<rows, stale, queue, job, beat, recovery, bounds, answer, posted>>
        /\ \A t \in Slot : pc'[t] \in Active => pc'[t] = pc[t]
    BY <1>2 DEF Check, delivering, rows, Goto, Active, IInv, TypeOK
  <2>2. JobIds' /\ Accounts'
    BY <1>1, <1>2, <2>1, LeaveStep
  <2>3. Undisturbed'
    BY <2>1, KeepsUndisturbed DEF IInv, Inner, rows, bounds
  <2> QED
    BY <2>2, <2>3 DEF Inner
<1>3. CASE status[o] = "pending" /\ SetStatus(o, "cancelled") /\ Goto(s, "finish") /\ UNCHANGED attempts
  <2>1. /\ UNCHANGED <<messageTs, transcript, stale, queue, job, beat, recovery, bounds, answer, posted>>
        /\ status'[o] = "cancelled" /\ \A p \in Output \ {o} : status'[p] = status[p]
        /\ pc'[s] = "finish" /\ \A t \in Slot \ {s} : pc'[t] = pc[t]
    BY <1>1, <1>3 DEF Check, delivering, Goto, SetStatus, IInv, TypeOK
  <2>2. JobIds' /\ Accounts'
    BY <1>1, <1>3, <2>1, LeaveStep
  <2>3. Undisturbed'
    <3> SUFFICES ASSUME lapses = 0
                 PROVE  /\ \A t \in Slot : pc'[t] \in Active => status'[OutputOf(t)] = "pending"
                        /\ \A t \in Slot : pc'[t] = "record_sent" => answer[t] \in 1..posted[OutputOf(t)]
                        /\ TranscriptMirrorsSent'
      BY <2>1 DEF Undisturbed, bounds, OutputOf
    <3>1. \A t \in Slot \ {s} : pc[t] \in Active => OutputOf(t) # o /\ OutputOf(t) \in Output
      BY <1>1, NobodyDoomed, OutputType DEF Active, Busy, IInv, Inner
    <3>2. \A t \in Slot : pc'[t] \in Active => status'[OutputOf(t)] = "pending"
      BY <2>1, <3>1 DEF IInv, Inner, Undisturbed, Active
    <3>3. \A t \in Slot : pc'[t] = "record_sent" => answer[t] \in 1..posted[OutputOf(t)]
      BY <2>1 DEF IInv, Inner, Undisturbed
    <3>4. TranscriptMirrorsSent'
      BY <1>1, <1>3, <2>1 DEF IInv, Inner, Undisturbed, TranscriptMirrorsSent
    <3> QED
      BY <3>2, <3>3, <3>4
  <2> QED
    BY <2>2, <2>3 DEF Inner
<1>4. CASE /\ status[o] = "pending" /\ o \notin superseded /\ Goto(s, "post") /\ UNCHANGED status
           /\ attempts' = [attempts EXCEPT ![o] = @ + 1]
  BY <1>1, <1>4, AttemptStep DEF Check
<1> QED
  BY <1>1, <1>2, <1>3, <1>4 DEF Check

LEMMA PostStep ==
  ASSUME IInv, NEW s \in Slot, Post(s) \/ PostUnanswered(s)
  PROVE  Inner'
<1> DEFINE o == OutputOf(s)
<1>1. pc[s] = "post" /\ o \in Output
  BY OutputType DEF Post, PostUnanswered, Busy, IInv, Inner
<1>2. Failures \in Nat /\ \A p \in Output : posted[p] \in Nat
  BY NumberTypes DEF IInv
<1>3. CASE /\ posted' = [posted EXCEPT ![o] = @ + 1] /\ answer' = [answer EXCEPT ![s] = posted[o] + 1]
           /\ Goto(s, "record_sent") /\ UNCHANGED <<rows, delivering>>
  <2>1. /\ UNCHANGED <<rows, stale, queue, job, beat, recovery>> /\ lapses' = lapses
        /\ Failures' = Failures + 0
        /\ answer'[s] = posted[o] + 1 /\ \A t \in Slot \ {s} : answer'[t] = answer[t]
    BY <1>2, <1>3 DEF delivering, bounds, Failures, IInv, TypeOK
  <2>2. Called(s, o, "record_sent", 1, 0)
    BY <1>1, <1>3, <2>1 DEF Called
  <2> QED
    BY <1>1, <2>2, CallStep
<1>4. CASE UNCHANGED <<posted, answer>> /\ Goto(s, "record_failure") /\ UNCHANGED <<rows, delivering>>
  <2>1. /\ UNCHANGED <<rows, stale, queue, job, beat, recovery>> /\ lapses' = lapses
        /\ Failures' = Failures + 0 /\ Goto(s, "record_failure")
        /\ \A t \in Slot \ {s} : answer'[t] = answer[t]
    BY <1>2, <1>4 DEF delivering, bounds, Failures
  <2>2. posted' = [posted EXCEPT ![o] = @ + 0]
    BY <1>1, <1>2, <1>4 DEF IInv, TypeOK
  <2>3. Called(s, o, "record_failure", 0, 0)
    BY <1>1, <2>1, <2>2 DEF Called
  <2> QED
    BY <1>1, <2>3, CallStep
<1>5. CASE PostUnanswered(s)
  <2>1. /\ UNCHANGED <<rows, stale, queue, job, beat, recovery, answer>> /\ lapses' = lapses
        /\ Failures' = Failures + 1
    BY <1>5 DEF PostUnanswered, Failures, IInv, TypeOK
  <2>2. posted' = [posted EXCEPT ![o] = @ + 1] /\ Goto(s, "record_failure")
    BY <1>5 DEF PostUnanswered
  <2>3. Called(s, o, "record_failure", 1, 1)
    BY <1>1, <2>1, <2>2 DEF Called
  <2> QED
    BY <1>1, <2>3, CallStep
<1> QED
  BY <1>3, <1>4, <1>5 DEF Post

LEMMA RecordFailureStep ==
  ASSUME IInv, NEW s \in Slot, RecordFailure(s)
  PROVE  Inner'
<1> DEFINE o == OutputOf(s)
<1>1. pc[s] = "record_failure" /\ Busy(s) /\ o \in Output /\ attempts[o] \in Nat
  BY OutputType, NumberTypes DEF RecordFailure, Busy, IInv, Inner
<1>2. /\ UNCHANGED <<attempts, messageTs, transcript, stale, queue, job, beat, recovery, bounds,
                     answer, posted>>
      /\ \/ attempts[o] >= MaxAttempts /\ status'[o] = "failed"
         \/ attempts[o] < MaxAttempts /\ status'[o] = status[o]
      /\ \A p \in Output \ {o} : status'[p] = status[p]
      /\ Goto(s, "finish") /\ pc'[s] = "finish" /\ \A t \in Slot \ {s} : pc'[t] = pc[t]
  BY <1>1, OutboxAssumption DEF RecordFailure, delivering, Goto, SetStatus, IInv, TypeOK
<1>3. JobIds' /\ Accounts'
  BY <1>1, <1>2, LeaveStep
<1>4. Undisturbed'
  <2> SUFFICES ASSUME lapses = 0
               PROVE  /\ \A t \in Slot : pc'[t] \in Active => status'[OutputOf(t)] = "pending"
                      /\ \A t \in Slot : pc'[t] = "record_sent" => answer[t] \in 1..posted[OutputOf(t)]
                      /\ TranscriptMirrorsSent'
    BY <1>2 DEF Undisturbed, bounds, OutputOf
  <2>1. \A t \in Slot \ {s} : pc[t] \in Active => OutputOf(t) # o /\ OutputOf(t) \in Output
    BY <1>1, NobodyDoomed, OutputType DEF Active, Busy, IInv, Inner
  <2>2. \A t \in Slot : pc'[t] \in Active => status'[OutputOf(t)] = "pending"
    BY <1>2, <2>1 DEF IInv, Inner, Undisturbed, Active
  <2>3. \A t \in Slot : pc'[t] = "record_sent" => answer[t] \in 1..posted[OutputOf(t)]
    BY <1>2 DEF IInv, Inner, Undisturbed
  <2>4. status[o] = "pending"
    BY <1>1 DEF IInv, Inner, Undisturbed, Active
  <2>5. TranscriptMirrorsSent'
    BY <1>1, <1>2, <2>4 DEF IInv, Inner, Undisturbed, TranscriptMirrorsSent
  <2> QED
    BY <2>2, <2>3, <2>5
<1> QED
  BY <1>3, <1>4 DEF Inner

LEMMA RecordSentStep ==
  ASSUME IInv, NEW s \in Slot, RecordSent(s)
  PROVE  Inner'
<1> DEFINE o == OutputOf(s)
<1>1. pc[s] = "record_sent" /\ Busy(s) /\ o \in Output
  BY OutputType DEF RecordSent, Busy, IInv, Inner
<1>2. /\ UNCHANGED <<attempts, stale, queue, job, beat, recovery, bounds, answer, posted>>
      /\ status'[o] = "sent" /\ \A p \in Output \ {o} : status'[p] = status[p]
      /\ Goto(s, "finish") /\ pc'[s] = "finish" /\ \A t \in Slot \ {s} : pc'[t] = pc[t]
      /\ \A p \in Output \ {o} : messageTs'[p] = messageTs[p] /\ transcript'[p] = transcript[p]
      /\ status[o] # "sent" =>
           messageTs'[o] = answer[s] /\ transcript'[o] = transcript[o] \cup {answer[s]}
  BY <1>1 DEF RecordSent, delivering, Goto, SetStatus, IInv, TypeOK
<1>3. JobIds' /\ Accounts'
  BY <1>1, <1>2, LeaveStep
<1>4. Undisturbed'
  <2> SUFFICES ASSUME lapses = 0
               PROVE  /\ \A t \in Slot : pc'[t] \in Active => status'[OutputOf(t)] = "pending"
                      /\ \A t \in Slot : pc'[t] = "record_sent" => answer[t] \in 1..posted[OutputOf(t)]
                      /\ TranscriptMirrorsSent'
    BY <1>2 DEF Undisturbed, bounds, OutputOf
  <2>1. \A t \in Slot \ {s} : pc[t] \in Active => OutputOf(t) # o /\ OutputOf(t) \in Output
    BY <1>1, NobodyDoomed, OutputType DEF Active, Busy, IInv, Inner
  <2>2. \A t \in Slot : pc'[t] \in Active => status'[OutputOf(t)] = "pending"
    BY <1>2, <2>1 DEF IInv, Inner, Undisturbed, Active
  <2>3. \A t \in Slot : pc'[t] = "record_sent" => answer[t] \in 1..posted[OutputOf(t)]
    BY <1>2 DEF IInv, Inner, Undisturbed
  <2>4. status[o] = "pending" /\ answer[s] \in 1..posted[o]
    BY <1>1 DEF IInv, Inner, Undisturbed, Active
  <2>5. TranscriptMirrorsSent'
    BY <1>1, <1>2, <2>4 DEF IInv, Inner, Undisturbed, TranscriptMirrorsSent
  <2> QED
    BY <2>2, <2>3, <2>5
<1> QED
  BY <1>3, <1>4 DEF Inner

-----------------------------------------------------------------------------
(* The theorems.                                                           *)

LEMMA InitInner == Init => Inner
<1> SUFFICES ASSUME Init PROVE Inner
  OBVIOUS
<1>1. TypeOK
  BY TypeInit
<1>2. Doomed = {} /\ \A o : Owing(o) = {} /\ MayPost(o) = {} /\ Posting(o) = {}
  BY DEF Init, Doomed, Owing, MayPost, Posting, Busy
<1>3. nDoomed = 0 /\ \A o : nOwing(o) = 0 /\ nMayPost(o) = 0 /\ nPosting(o) = 0
  BY <1>2, FS_EmptySet DEF nDoomed, nOwing, nMayPost, nPosting
<1>4. JobIds
  BY DEF Init, JobIds, Busy
<1>5. DoomIsPaid /\ PostsAreCounted /\ PostsArePaid /\ AttemptsArePaid
  BY <1>3, OutboxAssumption DEF Init, DoomIsPaid, PostsAreCounted, PostsArePaid, AttemptsArePaid, Failures
<1>6. Undisturbed
  BY DEF Init, Undisturbed, TranscriptMirrorsSent, Active
<1> QED
  BY <1>4, <1>5, <1>6 DEF Inner, Accounts

LEMMA InnerStep == IInv /\ [Next]_vars => Inner'
<1> SUFFICES ASSUME IInv, [Next]_vars PROVE Inner'
  OBVIOUS
<1>1. CASE UNCHANGED vars
  <2>1. Doomed' \subseteq Doomed
    BY <1>1 DEF Doomed, Busy, vars, slots, queue, recovery
  <2> QED
    BY <1>1, <2>1, QuietStep DEF vars, slots, queue, recovery
<1>2. CASE \E o \in Output : Create(o) \/ Supersede(o)
  BY <1>2, CreateStep, SupersedeStep
<1>3. ASSUME NEW s \in Slot, \E o \in todo : Fetch(s, o)
      PROVE  Inner'
  BY <1>3, FetchStep
<1>4. ASSUME NEW s \in Slot, Deliver(s) \/ PostUnanswered(s) \/ TransactionFails(s)
      PROVE  Inner'
  BY <1>4, CheckStep, PostStep, RecordFailureStep, RecordSentStep, FinishStep, FailStep DEF Deliver
<1>5. ASSUME NEW s \in Slot, Crash(s) \/ Lapse(s) \/ Resume(s)
      PROVE  Inner'
  BY <1>5, CrashStep, LapseStep, ResumeStep
<1>6. CASE Recover
  BY <1>6, RecoverStep
<1> QED
  BY <1>1, <1>2, <1>3, <1>4, <1>5, <1>6 DEF Next

\* The strengthening that all the safety properties of this module follow from.
THEOREM Invariance == Spec => []IInv
<1>1. Init => IInv
  BY TypeInit, InitInner DEF IInv
<1>2. IInv /\ [Next]_vars => IInv'
  BY TypeStep, InnerStep DEF IInv, Inner
<1> QED
  BY <1>1, <1>2, PTL DEF Spec

\* Every variable keeps its type: no recovered, released or late job stores a
\* value the tables do not admit.
THEOREM TypeCorrect == Spec => []TypeOK
BY Invariance, PTL DEF IInv

\* An answer a newer message made stale is not posted, but for attempts counted
\* before that message was stored.
THEOREM StaleAnswersWithheld == Spec => []SupersededIsNotPosted
<1>1. IInv => SupersededIsNotPosted
  <2> SUFFICES ASSUME IInv, NEW o \in superseded PROVE posted[o] <= allowed[o]
    BY DEF SupersededIsNotPosted
  <2>1. o \in Output /\ allowed[o] \in Nat
    BY DEF IInv, TypeOK, Output
  <2>2. posted[o] \in Nat /\ attempts[o] \in Nat /\ nPosting(o) \in Nat
    BY <2>1, NumberTypes DEF IInv
  <2>3. posted[o] + nPosting(o) <= attempts[o] /\ attempts[o] <= allowed[o]
    BY <2>1 DEF IInv, Inner, Accounts, PostsAreCounted
  <2> QED
    BY <2>1, <2>2, <2>3
<1> QED
  BY <1>1, Invariance, PTL

\* However many slots deliver and however often the recovery repeats a job, an
\* output is attempted at most once beyond the maximum for each failure.
THEOREM AttemptsPaid == Spec => []AttemptsAreBounded
<1>1. IInv => AttemptsAreBounded
  <2> SUFFICES ASSUME IInv, NEW o \in Output
               PROVE  attempts[o] <= MaxAttempts + crashes + lapses + faults
    BY DEF AttemptsAreBounded
  <2>1. attempts[o] <= MaxAttempts + Failures
    BY DEF IInv, Inner, Accounts, AttemptsArePaid
  <2>2. /\ crashes \in Nat /\ lapses \in Nat /\ faults \in Nat /\ attempts[o] \in Nat
        /\ Failures = crashes + lapses + faults /\ MaxAttempts \in Nat
    BY OutboxAssumption DEF IInv, TypeOK, Failures
  <2> QED
    BY <2>1, <2>2
<1> QED
  BY <1>1, Invariance, PTL

\* Slack accepts an output a second time only for a failure, one each.
THEOREM RepetitionsPaid == Spec => []RepetitionsNeedFaults
<1>1. IInv => RepetitionsNeedFaults
  <2> SUFFICES ASSUME IInv, NEW o \in Output PROVE posted[o] <= 1 + Failures
    BY DEF RepetitionsNeedFaults, Failures, IInv, TypeOK
  <2>1. posted[o] \in Nat /\ nPosting(o) \in Nat /\ Failures \in Nat
    BY NumberTypes DEF IInv
  <2>2. posted[o] + nPosting(o) <= 1 + Failures
    BY DEF IInv, Inner, Accounts, PostsArePaid
  <2> QED
    BY <2>1, <2>2
<1> QED
  BY <1>1, Invariance, PTL

\* The transcript holds a reply exactly for what was sent, while no heartbeat of
\* a living worker lapses.
THEOREM TranscriptFollows == Spec => []TranscriptMirrorsSent
<1>1. IInv => TranscriptMirrorsSent
  BY DEF IInv, Inner, Undisturbed, TranscriptMirrorsSent
<1> QED
  BY <1>1, Invariance, PTL

\* A settled output is not written again: only the slot that counted an attempt
\* writes a result, and it finds the output still pending.
THEOREM SettledStays == Spec => SettledIsFinal
<1>1. ASSUME IInv, [Next]_vars, lapses = 0,
             NEW o \in Output, status[o] \in {"sent", "failed", "cancelled"}
      PROVE  status'[o] = status[o]
  <2>1. ASSUME NEW s \in Slot, Deliver(s)
        PROVE  status'[o] = status[o]
    <3>1. pc[s] \in Active => status[OutputOf(s)] = "pending"
      BY <1>1 DEF IInv, Inner, Undisturbed
    <3>2. CASE Check(s)
      BY <1>1, <3>2 DEF Check, SetStatus, IInv, TypeOK
    <3>3. CASE RecordFailure(s)
      BY <1>1, <3>1, <3>3 DEF RecordFailure, SetStatus, Active, IInv, TypeOK
    <3>4. CASE RecordSent(s)
      BY <1>1, <3>1, <3>4 DEF RecordSent, SetStatus, Active, IInv, TypeOK
    <3>5. CASE Post(s) \/ FinishJob(s)
      BY <3>5 DEF Post, FinishJob, rows
    <3> QED
      BY <2>1, <3>2, <3>3, <3>4, <3>5 DEF Deliver
  <2>2. ASSUME NEW p \in Output, Create(p) \/ Supersede(p)
        PROVE  status'[o] = status[o]
    BY <1>1, <2>2 DEF Create, Supersede, rows, IInv, TypeOK
  <2>3. ASSUME NEW s \in Slot,
               \/ PostUnanswered(s) \/ TransactionFails(s) \/ Crash(s) \/ Lapse(s) \/ Resume(s)
               \/ \E p \in todo : Fetch(s, p)
        PROVE  status'[o] = status[o]
    BY <2>3 DEF PostUnanswered, TransactionFails, Crash, Lapse, Resume, Fetch, rows
  <2>4. CASE Recover
    BY <2>4 DEF Recover, FindStalled, FindPending, EndTick, Release, Resubmit, recovering, rows
  <2>5. CASE UNCHANGED vars
    BY <2>5 DEF vars, rows
  <2> QED
    BY <1>1, <2>1, <2>2, <2>3, <2>4, <2>5 DEF Next
<1>2. IInv /\ [Next]_vars =>
        [\A o \in Output :
           lapses = 0 /\ status[o] \in {"sent", "failed", "cancelled"} => status'[o] = status[o]]_vars
  BY <1>1
<1> QED
  BY <1>2, Invariance, PTL DEF SettledIsFinal, Spec

-----------------------------------------------------------------------------
(* The contract.                                                           *)

\* Whatever is enqueued, about to be, or in a slot has its row.
JobsHaveRows ==
  /\ \A o \in todo \cup pending : status[o] # "absent"
  /\ \A s \in Slot : Busy(s) => status[OutputOf(s)] # "absent"

\* A timestamp is recorded only for the output Slack returned it for.
AnswersAreAccepted ==
  \A s \in Slot : pc[s] = "record_sent" => answer[s] \in 1..posted[OutputOf(s)]

Traced == IInv /\ JobsHaveRows /\ AnswersAreAccepted

\* No row disappears, and the slots of a step that is none of theirs keep their jobs.
LEMMA RowsStay ==
  ASSUME IInv, [Next]_vars, NEW o \in Output
  PROVE  status[o] # "absent" => status'[o] # "absent"
<1>1. ASSUME NEW s \in Slot, Deliver(s)
      PROVE  status[o] # "absent" => status'[o] # "absent"
  BY <1>1 DEF Deliver, Check, Post, RecordFailure, RecordSent, FinishJob, SetStatus, rows, IInv, TypeOK
<1>2. ASSUME NEW p \in Output, Create(p) \/ Supersede(p)
      PROVE  status[o] # "absent" => status'[o] # "absent"
  BY <1>2 DEF Create, Supersede, rows, IInv, TypeOK
<1>3. ASSUME NEW s \in Slot,
             \/ PostUnanswered(s) \/ TransactionFails(s) \/ Crash(s) \/ Lapse(s) \/ Resume(s)
             \/ \E p \in todo : Fetch(s, p)
      PROVE  status' = status
  BY <1>3 DEF PostUnanswered, TransactionFails, Crash, Lapse, Resume, Fetch, rows
<1>4. CASE Recover
  BY <1>4 DEF Recover, FindStalled, FindPending, EndTick, Release, Resubmit, recovering, rows
<1>5. CASE UNCHANGED vars
  BY <1>5 DEF vars, rows
<1> QED
  BY <1>1, <1>2, <1>3, <1>4, <1>5 DEF Next

\* A slot that does not fetch keeps its job or becomes idle.
LEMMA JobsStay ==
  ASSUME IInv, NEW s \in Slot, NEW t \in Slot,
         \/ Deliver(s) \/ PostUnanswered(s) \/ TransactionFails(s)
         \/ Crash(s) \/ Lapse(s) \/ Resume(s)
  PROVE  /\ todo' = todo /\ pending' \subseteq pending
         /\ pc'[t] # "idle" => pc[t] # "idle" /\ job'[t] = job[t]
         /\ pc'[t] = "record_sent" => pc[t] = "record_sent" \/ (t = s /\ Post(s))
<1>1. CASE Check(s)
  BY <1>1 DEF Check, Goto, delivering, queue, recovery, IInv, TypeOK
<1>2. CASE Post(s)
  BY <1>2 DEF Post, Goto, delivering, queue, recovery, IInv, TypeOK
<1>3. CASE RecordFailure(s) \/ RecordSent(s)
  BY <1>3 DEF RecordFailure, RecordSent, Goto, delivering, queue, recovery, IInv, TypeOK
<1>4. CASE FinishJob(s)
  BY <1>4 DEF FinishJob, Goto, recovery, IInv, TypeOK
<1>5. CASE PostUnanswered(s) \/ TransactionFails(s)
  BY <1>5 DEF PostUnanswered, TransactionFails, Goto, queue, recovery, IInv, TypeOK
<1>6. CASE Crash(s)
  BY <1>6 DEF Crash, queue, recovery, IInv, TypeOK
<1>7. CASE Lapse(s) \/ Resume(s)
  BY <1>7 DEF Lapse, Resume, queue, recovery
<1> QED
  BY <1>1, <1>2, <1>3, <1>4, <1>5, <1>6, <1>7 DEF Deliver

LEMMA JobsHaveRowsStep ==
  ASSUME IInv, JobsHaveRows, [Next]_vars
  PROVE  JobsHaveRows'
<1>1. \A o \in Output : status[o] # "absent" => status'[o] # "absent"
  BY RowsStay
<1>2. /\ todo \subseteq Output /\ pending \subseteq Output
      /\ \A s \in Slot : pc[s] # "idle" => OutputOf(s) \in Output
  BY OutputType DEF IInv, TypeOK, Inner, Busy
<1>3. ASSUME NEW s \in Slot,
             \/ Deliver(s) \/ PostUnanswered(s) \/ TransactionFails(s)
             \/ Crash(s) \/ Lapse(s) \/ Resume(s)
      PROVE  JobsHaveRows'
  <2>1. \A t \in Slot : /\ todo' = todo /\ pending' \subseteq pending
                        /\ pc'[t] # "idle" => pc[t] # "idle" /\ job'[t] = job[t]
    BY <1>3, JobsStay
  <2> QED
    BY <1>1, <1>2, <2>1 DEF JobsHaveRows, Busy, OutputOf
<1>4. ASSUME NEW s \in Slot, NEW o \in todo, Fetch(s, o)
      PROVE  JobsHaveRows'
  <2>1. /\ todo' = todo \ {o} /\ pending' = pending
        /\ OutputOf(s)' = o
        /\ \A t \in Slot \ {s} : pc'[t] = pc[t] /\ job'[t] = job[t]
    BY <1>4 DEF Fetch, Goto, OutputOf, recovery, IInv, TypeOK
  <2> QED
    BY <1>1, <1>2, <2>1 DEF JobsHaveRows, Busy, OutputOf
<1>5. ASSUME NEW o \in Output, Create(o) \/ Supersede(o)
      PROVE  JobsHaveRows'
  <2>1. /\ todo' \subseteq todo \cup {o} /\ pending' = pending /\ pc' = pc /\ job' = job
        /\ o \in todo' => o \in todo \/ status'[o] # "absent"
    BY <1>5 DEF Create, Supersede, queue, slots, recovery, IInv, TypeOK
  <2> QED
    BY <1>1, <1>2, <2>1 DEF JobsHaveRows, Busy, OutputOf
<1>6. CASE Recover
  <2>1. /\ todo' \subseteq todo \cup pending /\ pc' = pc /\ job' = job
        /\ \A o \in pending' : o \in pending \/ status[o] = "pending"
        /\ pending' \subseteq Output
    BY <1>2, <1>6 DEF Recover, FindStalled, FindPending, EndTick, Release, Resubmit, recovering, queue,
                      slots
  <2> QED
    BY <1>1, <1>2, <2>1 DEF JobsHaveRows, Busy, OutputOf
<1>7. CASE UNCHANGED vars
  BY <1>7 DEF vars, rows, queue, slots, recovery, JobsHaveRows, Busy, OutputOf
<1> QED
  BY <1>3, <1>4, <1>5, <1>6, <1>7 DEF Next

LEMMA AnswersStep ==
  ASSUME IInv, AnswersAreAccepted, [Next]_vars
  PROVE  AnswersAreAccepted'
<1>1. /\ \A o \in Output : posted[o] \in Nat
      /\ \A s \in Slot : pc[s] = "record_sent" => OutputOf(s) \in Output
  BY OutputType DEF IInv, TypeOK, Inner, Busy
<1>2. ASSUME NEW s \in Slot, Post(s)
      PROVE  AnswersAreAccepted'
  <2> DEFINE o == OutputOf(s)
  <2>1. o \in Output
    BY <1>2, OutputType DEF Post, Busy, IInv, Inner
  <2>2. /\ \A t \in Slot : OutputOf(t)' = OutputOf(t)
        /\ \A t \in Slot \ {s} : pc'[t] = pc[t] /\ answer'[t] = answer[t]
        /\ \A p \in Output : posted'[p] = posted[p] \/ posted'[p] = posted[p] + 1
    BY <1>2, <2>1 DEF Post, Goto, OutputOf, delivering, IInv, TypeOK
  <2>3. pc'[s] = "record_sent" => answer'[s] = posted[o] + 1 /\ posted'[o] = posted[o] + 1
    BY <1>2, <2>1 DEF Post, Goto, IInv, TypeOK
  <2>4. ASSUME NEW t \in Slot, pc'[t] = "record_sent"
        PROVE  answer'[t] \in 1..posted'[OutputOf(t)]
    <3>1. CASE t = s
      BY <1>1, <2>1, <2>3, <2>4, <3>1
    <3>2. CASE t # s
      BY <1>1, <2>2, <2>4, <3>2 DEF AnswersAreAccepted
    <3> QED
      BY <3>1, <3>2
  <2> QED
    BY <2>2, <2>4 DEF AnswersAreAccepted
<1>3. ASSUME NEW s \in Slot, PostUnanswered(s)
      PROVE  AnswersAreAccepted'
  <2>1. OutputOf(s) \in Output
    BY <1>3, OutputType DEF PostUnanswered, Busy, IInv, Inner
  <2>2. /\ \A t \in Slot : OutputOf(t)' = OutputOf(t)
        /\ \A t \in Slot : pc'[t] = "record_sent" => pc[t] = "record_sent"
        /\ answer' = answer
        /\ \A p \in Output : posted'[p] = posted[p] \/ posted'[p] = posted[p] + 1
    BY <1>3, <2>1 DEF PostUnanswered, Goto, OutputOf, IInv, TypeOK
  <2> QED
    BY <1>1, <2>2 DEF AnswersAreAccepted
<1>4. ASSUME NEW s \in Slot,
             \/ Check(s) \/ RecordFailure(s) \/ RecordSent(s) \/ FinishJob(s)
             \/ TransactionFails(s) \/ Crash(s) \/ Lapse(s) \/ Resume(s)
             \/ \E o \in todo : Fetch(s, o)
      PROVE  AnswersAreAccepted'
  <2>1. posted' = posted
    BY <1>4 DEF Check, RecordFailure, RecordSent, FinishJob, TransactionFails, Crash, Lapse, Resume, Fetch
  <2>2. ASSUME NEW t \in Slot, pc'[t] = "record_sent"
        PROVE  pc[t] = "record_sent" /\ job'[t] = job[t] /\ answer'[t] = answer[t]
    <3>1. CASE Check(s) \/ RecordFailure(s) \/ RecordSent(s) \/ TransactionFails(s)
      BY <2>2, <3>1 DEF Check, RecordFailure, RecordSent, TransactionFails, Goto, delivering, IInv, TypeOK
    <3>2. CASE FinishJob(s) \/ Crash(s)
      BY <2>2, <3>2 DEF FinishJob, Crash, Goto, IInv, TypeOK
    <3>3. CASE Lapse(s) \/ Resume(s) \/ \E o \in todo : Fetch(s, o)
      BY <2>2, <3>3 DEF Lapse, Resume, Fetch, Goto, IInv, TypeOK
    <3> QED
      BY <1>4, <3>1, <3>2, <3>3
  <2> QED
    BY <2>1, <2>2 DEF AnswersAreAccepted, OutputOf
<1>5. CASE UNCHANGED vars \/ Recover \/ \E o \in Output : Create(o) \/ Supersede(o)
  <2>1. UNCHANGED <<pc, job, answer, posted>>
    BY <1>5 DEF vars, Recover, FindStalled, FindPending, EndTick, Release, Resubmit, recovering, slots,
                Create, Supersede
  <2> QED
    BY <2>1 DEF AnswersAreAccepted, OutputOf
<1> QED
  BY <1>2, <1>3, <1>4, <1>5 DEF Next, Deliver

LEMMA ContractIdle ==
  ASSUME UNCHANGED <<rows, superseded, posted, bounds>>
  PROVE  UNCHANGED Contract!vars
BY DEF Contract!vars, rows, bounds, Failures

\* The transaction before the call: withdrawn, attempted, or nothing.
LEMMA CheckImplements ==
  ASSUME Traced, IInv', NEW s \in Slot, Check(s)
  PROVE  Contract!Next \/ UNCHANGED Contract!vars
<1> DEFINE o == OutputOf(s)
<1>1. o \in Output
  BY OutputType DEF Check, Busy, Traced, IInv, Inner
<1>2. /\ UNCHANGED <<messageTs, transcript, superseded, posted>>
      /\ Failures' = Failures /\ (lapses' > 0) = (lapses > 0)
  BY DEF Check, delivering, stale, bounds, Failures
<1>3. CASE status[o] # "pending" /\ UNCHANGED <<status, attempts>>
  BY <1>2, <1>3 DEF Contract!vars
<1>4. CASE status[o] = "pending" /\ (mode[s] = "off" \/ o \in superseded)
           /\ SetStatus(o, "cancelled") /\ UNCHANGED attempts
  <2>1. o \in superseded \/ "off" \in Mode
    BY <1>4 DEF Traced, IInv, TypeOK
  <2>2. Contract!Withdraw(o)
    BY <1>2, <1>4, <2>1 DEF Contract!Withdraw, SetStatus
  <2> QED
    BY <1>1, <2>2 DEF Contract!Next
<1>5. CASE status[o] = "pending" /\ o \notin superseded
           /\ attempts' = [attempts EXCEPT ![o] = @ + 1] /\ UNCHANGED status
  <2>1. attempts'[o] <= MaxAttempts + Failures
    BY <1>1, <1>2 DEF IInv, Inner, Accounts, AttemptsArePaid
  <2>2. Contract!Attempt(o)
    BY <1>2, <1>5, <2>1 DEF Contract!Attempt
  <2> QED
    BY <1>1, <2>2 DEF Contract!Next
<1> QED
  BY <1>3, <1>4, <1>5 DEF Check

\* Whoever has counted an attempt finds the output open.
LEMMA ActiveIsOpen ==
  ASSUME Traced, NEW s \in Slot, pc[s] \in Active
  PROVE  OutputOf(s) \in Output /\ Contract!Open(OutputOf(s))
<1>1. Busy(s) /\ OutputOf(s) \in Output
  BY OutputType DEF Active, Busy, Traced, IInv, Inner
<1>2. lapses = 0 \/ lapses > 0
  BY NumberTypes DEF Traced, IInv
<1>3. lapses = 0 => status[OutputOf(s)] = "pending"
  BY DEF Traced, IInv, Inner, Undisturbed
<1>4. status[OutputOf(s)] # "absent"
  BY <1>1 DEF Traced, JobsHaveRows
<1> QED
  BY <1>1, <1>2, <1>3, <1>4 DEF Contract!Open

\* The call: an attempt is accepted, with or without an answer, or rejected.
LEMMA PostImplements ==
  ASSUME Traced, IInv', NEW s \in Slot, Post(s) \/ PostUnanswered(s)
  PROVE  Contract!Next \/ UNCHANGED Contract!vars
<1>0. PICK o : o = OutputOf(s)
  OBVIOUS
<1>1. o \in Output /\ Contract!Open(o)
  BY <1>0, ActiveIsOpen DEF Post, PostUnanswered, Active
<1>2. /\ UNCHANGED <<rows, superseded>> /\ lapses' = lapses
      /\ Failures' = Failures \/ Failures' = Failures + 1
  <2>1. CASE Post(s)
    BY <2>1 DEF Post, delivering, stale, bounds, Failures
  <2>2. CASE PostUnanswered(s)
    BY <2>2 DEF PostUnanswered, stale, Failures, Traced, IInv, TypeOK
  <2> QED
    BY <2>1, <2>2
<1>3. CASE posted' = [posted EXCEPT ![o] = @ + 1]
  <2>1. posted[o] \in Nat /\ posted'[o] = posted[o] + 1 /\ attempts[o] \in Nat /\ attempts' = attempts
    BY <1>1, <1>2, <1>3 DEF rows, Traced, IInv, TypeOK
  <2>2. /\ posted'[o] + nPosting(o)' <= attempts'[o] /\ posted'[o] + nPosting(o)' <= 1 + Failures'
    BY <1>1 DEF IInv, Inner, Accounts, PostsAreCounted, PostsArePaid
  <2>3. nPosting(o)' \in Nat
    BY FS_Subset, FS_CardinalityType, OutboxAssumption DEF nPosting, Posting
  <2>4. Failures' \in Nat
    BY <1>2, NumberTypes DEF Traced, IInv
  <2>5. posted[o] < attempts[o] /\ posted'[o] <= 1 + Failures'
    BY <2>1, <2>2, <2>3, <2>4
  <2>6. Contract!Accept(o)
    BY <1>1, <1>2, <1>3, <2>5 DEF Contract!Accept, rows
  <2> QED
    BY <1>1, <2>6 DEF Contract!Next
<1>4. CASE Post(s) /\ UNCHANGED posted
  BY <1>4, ContractIdle DEF Post, delivering, stale
<1> QED
  BY <1>0, <1>3, <1>4 DEF Post, PostUnanswered

\* The transaction after the call.
LEMMA RecordImplements ==
  ASSUME Traced, NEW s \in Slot, RecordSent(s) \/ RecordFailure(s)
  PROVE  Contract!Next \/ UNCHANGED Contract!vars
<1> DEFINE o == OutputOf(s)
<1>1. o \in Output /\ Contract!Open(o)
  BY ActiveIsOpen DEF RecordSent, RecordFailure, Active
<1>2. /\ UNCHANGED <<attempts, superseded, posted>>
      /\ Failures' = Failures /\ (lapses' > 0) = (lapses > 0)
  BY DEF RecordSent, RecordFailure, delivering, stale, bounds, Failures
<1>3. CASE UNCHANGED <<status, messageTs, transcript>>
  BY <1>2, <1>3 DEF Contract!vars
<1>4. CASE RecordSent(s) /\ status[o] # "sent"
  <2>1. answer[s] \in 1..posted[o]
    BY <1>4 DEF RecordSent, Traced, AnswersAreAccepted
  <2>2. Contract!Sent(o)
    BY <1>1, <1>2, <1>4, <2>1 DEF Contract!Sent, RecordSent, SetStatus
  <2> QED
    BY <1>1, <2>2 DEF Contract!Next
<1>5. CASE RecordFailure(s) /\ attempts[o] >= MaxAttempts
  <2>1. Contract!GiveUp(o)
    BY <1>1, <1>2, <1>5 DEF Contract!GiveUp, RecordFailure, SetStatus
  <2> QED
    BY <1>1, <2>1 DEF Contract!Next
<1> QED
  BY <1>3, <1>4, <1>5 DEF RecordSent, RecordFailure

\* A death, a lapse or a raised transaction is a failure and nothing else.
LEMMA FailureImplements ==
  ASSUME Traced, NEW s \in Slot, Crash(s) \/ Lapse(s) \/ TransactionFails(s)
  PROVE  Contract!Next
<1>1. /\ UNCHANGED <<rows, superseded, posted>> /\ Failures' = Failures + 1
      /\ lapses' = lapses \/ lapses' = lapses + 1
  BY DEF Crash, Lapse, TransactionFails, stale, Failures, Traced, IInv, TypeOK
<1>2. lapses \in Nat
  BY DEF Traced, IInv, TypeOK
<1>3. (lapses' > 0) \in BOOLEAN /\ (lapses > 0 => lapses' > 0)
  BY <1>1, <1>2
<1>4. Contract!Failure
  BY <1>1, <1>3 DEF Contract!Failure, rows
<1> QED
  BY <1>4 DEF Contract!Next

LEMMA ImplementationStep ==
  ASSUME Traced, IInv', [Next]_vars
  PROVE  Contract!Next \/ UNCHANGED Contract!vars
<1>1. ASSUME NEW o \in Output, Create(o) \/ Supersede(o)
      PROVE  Contract!Next
  <2>1. CASE Create(o)
    <3>1. Contract!Create(o)
      BY <2>1 DEF Create, Contract!Create, stale, bounds, Failures
    <3> QED
      BY <3>1 DEF Contract!Next
  <2>2. CASE Supersede(o)
    <3>1. {o} \in SUBSET RunOutput /\ Contract!Supersede({o})
      BY <2>2 DEF Supersede, Contract!Supersede, rows, bounds, Failures
    <3> QED
      BY <3>1 DEF Contract!Next
  <2> QED
    BY <1>1, <2>1, <2>2
<1>2. ASSUME NEW s \in Slot, FinishJob(s) \/ Resume(s) \/ \E o \in todo : Fetch(s, o)
      PROVE  UNCHANGED Contract!vars
  BY <1>2, ContractIdle DEF FinishJob, Resume, Fetch, stale
<1>3. CASE Recover
  BY <1>3, ContractIdle
     DEF Recover, FindStalled, FindPending, EndTick, Release, Resubmit, recovering, stale
<1>4. CASE UNCHANGED vars
  BY <1>4, ContractIdle DEF vars, stale
<1> QED
  BY <1>1, <1>2, <1>3, <1>4, CheckImplements, PostImplements, RecordImplements, FailureImplements
     DEF Next, Deliver

\* Slots, queue and recovery implement the delivery contract: an output is attempted
\* while it is pending and not superseded, each attempt is accepted at most once,
\* the first result settles it, and what a late worker may still do is bounded.
THEOREM Refinement == Spec => ImplementsDelivery
<1>1. Init => Contract!Init /\ JobsHaveRows /\ AnswersAreAccepted
  BY DEF Init, Contract!Init, Failures, JobsHaveRows, AnswersAreAccepted, Busy
<1>2. Traced /\ [Next]_vars => JobsHaveRows' /\ AnswersAreAccepted'
  BY JobsHaveRowsStep, AnswersStep DEF Traced
<1>3. Traced /\ IInv' /\ [Next]_vars => [Contract!Next]_(Contract!vars)
  BY ImplementationStep
<1>4. Spec => [](JobsHaveRows /\ AnswersAreAccepted)
  BY <1>1, <1>2, Invariance, PTL DEF Spec, Traced
<1> QED
  BY <1>1, <1>3, <1>4, Invariance, PTL DEF Spec, Traced, ImplementsDelivery, Contract!Spec
=============================================================================
