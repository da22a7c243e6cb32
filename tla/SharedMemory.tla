----------------------------- MODULE SharedMemory -----------------------------
(***************************************************************************)
(* The brief of the shared memory in one agent process: its cache and the  *)
(* note tool (agent/shared_memory.py), and the client's bearer token       *)
(* (memory_client.py).  Coroutines of concurrent runs share the cache and  *)
(* the token without a lock; every await is an exchange with a server that *)
(* is answered some time later.  A brief is abstracted to the memory clock *)
(* of the store it shows, 0 being the empty store.                         *)
(***************************************************************************)
EXTENDS Integers, FiniteSets

CONSTANTS
  Caller,         \* coroutines of the process that may use the memory
  Ttl,            \* BRIEF_TTL_SECONDS
  MaxStale,       \* BRIEF_MAX_STALE_SECONDS
  Lifetime,       \* expires_in of a token
  Margin,         \* REFRESH_MARGIN_SECONDS
  Latency,        \* an exchange is over after TIMEOUT_SECONDS
  MaxTime,        \* bound: the time considered
  MaxCalls,       \* bound: calls of the three functions
  MaxClock,       \* bound: changes of the store
  MaxMints,       \* bound: tokens issued; afterwards minting fails
  MaxRevocations  \* bound: tokens the platform rejects before they expire

ASSUME TimingAssumption ==
  /\ {Ttl, MaxStale, Lifetime, Margin, Latency} \subseteq Nat
  /\ 0 < Ttl /\ Ttl <= MaxStale
  /\ 2 * Latency <= Margin /\ 2 * Latency < Lifetime
ASSUME MemoryBoundsAssumption == {MaxTime, MaxCalls, MaxClock, MaxMints, MaxRevocations} \subseteq Nat

VARIABLES
  now,
  calls,          \* how many functions were called
  static,         \* is the client configured with a token of its own?
  clock,          \* the platform: how often the store has changed
  minted,         \* the identity provider: tokens issued
  revoked,        \* tokens the platform no longer accepts
  brief,          \* _brief
  token,          \* AsyncMemoryClient._token
  pc,             \* what each coroutine is waiting for
  op,             \* the function it executes
  snapshot,       \* load's local "cached" and "now"
  bearer,         \* the token its request carries
  reply,          \* the server's answer, once there is one
  deadline,       \* when its exchange is over
  served,         \* history: the age of the brief a load has just returned
  learned,        \* history: the store and the time of the last note stored
  refused         \* history: tokens answered with 401

cache == <<brief, token>>
server == <<clock, minted, revoked>>
bounds == <<now, calls, static>>
coroutines == <<pc, op, snapshot, bearer, reply, deadline>>
vars == <<bounds, server, cache, coroutines, served, learned, refused>>

\* readAt, the time at which the platform wrote the brief, is history.
NoBrief == [clock |-> 0, fetchedAt |-> 0, readAt |-> 0]
NoToken == [id |-> 0, until |-> 0, expires |-> 0]
StaticToken == [id |-> -1, until |-> 0, expires |-> 0]
NoReply == [type |-> "none", clock |-> 0, at |-> 0]
NoSnapshot == [cached |-> NoBrief, start |-> 0]
NothingServed == -1

PC == {"idle", "mint", "request"}
Op == {"load", "remember", "recall"}
ReplyType == {"none", "ok", "refused", "failed"}

Init ==
  /\ now = 0 /\ calls = 0 /\ static \in BOOLEAN /\ clock = 0 /\ minted = 0 /\ revoked = {}
  /\ brief = NoBrief /\ token = NoToken
  /\ pc = [c \in Caller |-> "idle"]
  /\ op = [c \in Caller |-> "load"]
  /\ snapshot = [c \in Caller |-> NoSnapshot]
  /\ bearer = [c \in Caller |-> NoToken]
  /\ reply = [c \in Caller |-> NoReply]
  /\ deadline = [c \in Caller |-> 0]
  /\ served = NothingServed
  /\ learned = [clock |-> 0, at |-> 0]
  /\ refused = {}

-----------------------------------------------------------------------------
(* The client (memory_client.py).                                          *)

\* Mutant: the margin is forgotten.
ValidToTheEnd(t) == t.id # 0 /\ now < t.until

\* _Token.valid.
Valid(t) == t.id # 0 /\ now < t.until - Margin

Await(c, exchange, t) ==
  /\ pc' = [pc EXCEPT ![c] = exchange]
  /\ bearer' = [bearer EXCEPT ![c] = t]
  /\ reply' = [reply EXCEPT ![c] = NoReply]
  /\ deadline' = [deadline EXCEPT ![c] = now + Latency]

\* _request up to its first await: with the static token, whatever became of it,
\* with the token at hand, or for a new one.
Send(c, t) ==
  \/ static /\ Await(c, "request", StaticToken)
  \/ ~static /\ Valid(t) /\ Await(c, "request", t)
  \/ ~static /\ ~Valid(t) /\ Await(c, "mint", NoToken)

\* Mutant: the coroutine is left in a place of its own.
DoneMisspelt(c) ==
  /\ pc' = [pc EXCEPT ![c] = "done"]
  /\ bearer' = [bearer EXCEPT ![c] = NoToken]
  /\ reply' = [reply EXCEPT ![c] = NoReply]
  /\ deadline' = [deadline EXCEPT ![c] = 0]
  /\ snapshot' = [snapshot EXCEPT ![c] = NoSnapshot]

\* The coroutine ends with what it was waiting for.
Done(c) ==
  /\ pc' = [pc EXCEPT ![c] = "idle"]
  /\ bearer' = [bearer EXCEPT ![c] = NoToken]
  /\ reply' = [reply EXCEPT ![c] = NoReply]
  /\ deadline' = [deadline EXCEPT ![c] = 0]
  /\ snapshot' = [snapshot EXCEPT ![c] = NoSnapshot]

\* Mutant: a refused token is kept.
KeepRefused(c) ==
  IF reply[c].type = "refused" THEN refused' = refused \cup {bearer[c].id} /\ UNCHANGED token
  ELSE UNCHANGED <<token, refused>>

\* 401 clears whatever token the client holds by then.
DropRefused(c) ==
  IF reply[c].type = "refused"
  THEN token' = NoToken /\ refused' = refused \cup {bearer[c].id}
  ELSE UNCHANGED <<token, refused>>

-----------------------------------------------------------------------------
(* The wrapper (agent/shared_memory.py).                                   *)

Serve(b) == served' = now - b.readAt

ServeNothing == served' = NothingServed

Fresh == brief.clock # 0 /\ now - brief.fetchedAt < Ttl

\* load up to its await, for a run or as the second half of recall, when the
\* client holds the token t.
StartLoad(c, t) ==
  \/ /\ Fresh
     /\ Serve(brief)
     /\ Done(c)
  \/ /\ ~Fresh
     /\ snapshot' = [snapshot EXCEPT ![c] = [cached |-> brief, start |-> now]]
     /\ Send(c, t)
     /\ ServeNothing

Call(c) ==
  /\ pc[c] = "idle" /\ calls < MaxCalls
  /\ calls' = calls + 1

\* A client is configured: without one each function returns at once.
Load(c) ==
  /\ Call(c)
  /\ op' = [op EXCEPT ![c] = "load"]
  /\ StartLoad(c, token)
  /\ UNCHANGED <<now, static, server, cache, learned, refused>>

\* remember and recall begin with their own request.
Ask(c, function) ==
  /\ Call(c)
  /\ op' = [op EXCEPT ![c] = function]
  /\ Send(c, token)
  /\ ServeNothing
  /\ UNCHANGED <<now, static, server, cache, snapshot, learned, refused>>

\* Mutant: an outage makes the old brief look new.
FinishLoadRefreshing(c, answer) ==
  LET old == snapshot[c].cached IN
  IF answer.type = "ok" /\ answer.clock # 0
  THEN LET new == [clock |-> answer.clock, fetchedAt |-> now, readAt |-> answer.at] IN
       brief' = new /\ Serve(new)
  ELSE IF old.clock # 0 /\ snapshot[c].start - old.fetchedAt < MaxStale
  THEN brief' = [old EXCEPT !.fetchedAt = now] /\ Serve(old)
  ELSE brief' = NoBrief /\ ServeNothing

\* load after its await.  An empty store and an unreachable one look the same.
FinishLoad(c, answer) ==
  LET old == snapshot[c].cached IN
  IF answer.type = "ok" /\ answer.clock # 0
  THEN LET new == [clock |-> answer.clock, fetchedAt |-> now, readAt |-> answer.at] IN
       brief' = new /\ Serve(new)
  ELSE IF old.clock # 0 /\ snapshot[c].start - old.fetchedAt < MaxStale
  THEN UNCHANGED brief /\ Serve(old)
  ELSE brief' = NoBrief /\ ServeNothing

\* Mutant: a stored note leaves the cache alone.
FinishRememberCached(c, answer) ==
  /\ ServeNothing
  /\ UNCHANGED brief
  /\ learned' = IF answer.type = "ok" THEN [clock |-> answer.clock, at |-> now] ELSE learned

\* remember after its await: forget() when the note was stored.
FinishRemember(c, answer) ==
  /\ ServeNothing
  /\ IF answer.type = "ok"
     THEN brief' = NoBrief /\ learned' = [clock |-> answer.clock, at |-> now]
     ELSE UNCHANGED <<brief, learned>>

\* The function goes on with the client's answer.  A failure is an empty answer
\* of the client, or an exception when the body is malformed; only for recall
\* does it matter which.
Resume(c, answer, t) ==
  \/ /\ op[c] = "load"
     /\ FinishLoad(c, answer)
     /\ Done(c)
     /\ UNCHANGED <<op, learned>>
  \/ /\ op[c] = "remember"
     /\ FinishRemember(c, answer)
     /\ Done(c)
     /\ op' = [op EXCEPT ![c] = "load"]
  \/ /\ op[c] = "recall" /\ answer.type = "failed"
     /\ Done(c)
     /\ op' = [op EXCEPT ![c] = "load"]
     /\ ServeNothing
     /\ UNCHANGED <<brief, learned>>
  \/ /\ op[c] = "recall"
     /\ op' = [op EXCEPT ![c] = "load"]
     /\ StartLoad(c, t)
     /\ UNCHANGED <<brief, learned>>

\* The token was issued some time during the exchange; its lifetime counts from
\* then for the platform, and from now for the client.
ReceiveToken(c) ==
  /\ pc[c] = "mint" /\ minted < MaxMints
  /\ minted' = minted + 1
  /\ \E issued \in (deadline[c] - Latency)..now :
       LET t == [id |-> minted + 1, until |-> now + Lifetime, expires |-> issued + Lifetime]
       IN token' = t /\ Await(c, "request", t)
  /\ ServeNothing
  /\ UNCHANGED <<bounds, clock, revoked, brief, op, snapshot, learned, refused>>

\* No answer, or one without a token, which replaces the client's all the same.
ReceiveNoToken(c) ==
  /\ pc[c] = "mint"
  /\ token' \in {token, NoToken}
  /\ Resume(c, [NoReply EXCEPT !.type = "failed"], token')
  /\ UNCHANGED <<bounds, server, refused>>

Receive(c) ==
  /\ pc[c] = "request" /\ reply[c].type # "none"
  /\ DropRefused(c)
  /\ Resume(c, reply[c], token')
  /\ UNCHANGED <<bounds, server>>

-----------------------------------------------------------------------------
(* The servers and the clock.                                              *)

Answer(c, type, value) ==
  reply' = [reply EXCEPT ![c] = [type |-> type, clock |-> value, at |-> now]]

serving == <<bounds, cache, pc, op, snapshot, bearer, deadline, learned, refused>>

\* The platform rejects a token that has expired or was revoked, and otherwise
\* does what it is asked.
Handle(c) ==
  LET accepted == /\ bearer[c].id \notin revoked
                  /\ bearer[c] = StaticToken \/ now < bearer[c].expires IN
  /\ pc[c] = "request" /\ reply[c].type = "none"
  /\ \/ /\ ~accepted
        /\ Answer(c, "refused", 0)
        /\ UNCHANGED clock
     \/ /\ accepted /\ op[c] # "remember"
        /\ Answer(c, "ok", IF op[c] = "load" THEN clock ELSE 0)
        /\ UNCHANGED clock
     \/ /\ accepted /\ op[c] = "remember" /\ clock < MaxClock
        /\ clock' = clock + 1
        /\ Answer(c, "ok", clock + 1)
  /\ ServeNothing
  /\ UNCHANGED <<minted, revoked, serving>>

\* Unreachable, an error status, or a malformed body; also after the server has
\* done its work.
Break(c) ==
  /\ pc[c] = "request" /\ reply[c].type \in {"none", "ok"}
  /\ Answer(c, "failed", 0)
  /\ ServeNothing
  /\ UNCHANGED <<server, serving>>

\* Somebody else writes a memory, or one is rejected by its reviewer.
StoreChanges ==
  /\ clock < MaxClock
  /\ clock' = clock + 1
  /\ ServeNothing
  /\ UNCHANGED <<bounds, minted, revoked, cache, coroutines, learned, refused>>

\* The platform rejects the token in use from now on.
Revoke ==
  LET inUse == IF static THEN StaticToken.id ELSE token.id IN
  /\ inUse \notin {0} \cup revoked
  /\ Cardinality(revoked) < MaxRevocations
  /\ revoked' = revoked \cup {inUse}
  /\ ServeNothing
  /\ UNCHANGED <<bounds, clock, minted, cache, coroutines, learned, refused>>

Tick ==
  /\ now < MaxTime
  /\ \A c \in Caller : pc[c] # "idle" => now < deadline[c]
  /\ now' = now + 1
  /\ ServeNothing
  /\ UNCHANGED <<calls, static, server, cache, coroutines, learned, refused>>

-----------------------------------------------------------------------------
Next ==
  \/ \E c \in Caller :
       \/ Load(c) \/ Ask(c, "remember") \/ Ask(c, "recall")
       \/ ReceiveToken(c) \/ ReceiveNoToken(c) \/ Receive(c)
       \/ Handle(c) \/ Break(c)
  \/ StoreChanges \/ Revoke \/ Tick

Spec == Init /\ [][Next]_vars

-----------------------------------------------------------------------------
(* Properties.                                                             *)

\* Every variable has its type.
TypeOK ==
  /\ now \in 0..MaxTime /\ calls \in 0..MaxCalls /\ static \in BOOLEAN
  /\ clock \in 0..MaxClock /\ minted \in 0..MaxMints
  /\ revoked \subseteq -1..MaxMints /\ refused \subseteq -1..MaxMints
  /\ brief \in [clock : 0..MaxClock, fetchedAt : Nat, readAt : Nat]
  /\ token \in [id : 0..MaxMints, until : Nat, expires : Nat]
  /\ pc \in [Caller -> PC] /\ op \in [Caller -> Op]
  /\ \A c \in Caller :
       /\ reply[c].type \in ReplyType
       /\ bearer[c].id \in -1..MaxMints
       /\ deadline[c] \in Nat
  /\ served \in -1..MaxTime

\* No run is given a brief that the platform wrote more than MaxStale and three
\* exchanges ago, however long the outage and however the loads overlap ("a
\* rejected memory does not outlive the outage that hid its removal").
ServedBriefIsRecent == served < MaxStale + 3 * Latency

\* "Nothing waits five minutes for what Cerebro itself just learned": a brief
\* that the next run is served from the cache shows the last note stored.
NothingWaitsForANote == Fresh => learned.clock <= brief.clock

\* How far that is wrong: a note that was stored is missing from the cached brief
\* only if a fetch was under way when the write returned, so for one exchange and
\* one Ttl at most.
OnlyAnOverlappingFetchHidesANote ==
  brief.clock # 0 /\ brief.clock < learned.clock =>
    /\ brief.readAt <= learned.at /\ learned.at <= brief.fetchedAt
    /\ brief.fetchedAt - learned.at <= Latency

\* "No request rides a token that expires in flight", although the provider's
\* clock starts before the client's and the request takes its time.  Of a static
\* token the client does not know when it expires.
NoTokenExpiresInFlight ==
  \A c \in Caller :
    pc[c] = "request" /\ bearer[c] # StaticToken /\ reply[c].type = "none"
      => now < bearer[c].expires

\* A minted token that was refused once is not offered again, also not by the
\* coroutine that was refused, whatever others minted or dropped in between.  A
\* static token is: there is no other.
Sends(c) == pc'[c] = "request" /\ (pc[c] # "request" \/ op'[c] # op[c])
RefusedTokenIsNotOffered ==
  [][\A c \in Caller :
       Sends(c) /\ bearer'[c] # StaticToken => bearer'[c].id \notin refused']_vars
=============================================================================
