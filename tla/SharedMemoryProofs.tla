------------------------- MODULE SharedMemoryProofs -------------------------
(***************************************************************************)
(* The caches of the shared memory keep their promises for any number of   *)
(* concurrent coroutines, any store, any server and any timing within the  *)
(* assumed bounds of an exchange.                                          *)
(***************************************************************************)
EXTENDS SharedMemory, TLAPS

Brief == [clock : 0..MaxClock, fetchedAt : Nat, readAt : Nat]
Token == [id : 0..MaxMints, until : Nat, expires : Nat]
Bearer == Token \cup {StaticToken}
Reply == [type : ReplyType, clock : 0..MaxClock, at : Nat]

Typed ==
  /\ now \in 0..MaxTime /\ calls \in 0..MaxCalls /\ static \in BOOLEAN
  /\ clock \in 0..MaxClock /\ minted \in 0..MaxMints
  /\ revoked \subseteq -1..MaxMints /\ refused \subseteq -1..minted
  /\ brief \in Brief /\ token \in Token
  /\ pc \in [Caller -> PC] /\ op \in [Caller -> Op]
  /\ snapshot \in [Caller -> [cached : Brief, start : Nat]]
  /\ bearer \in [Caller -> Bearer] /\ reply \in [Caller -> Reply]
  /\ deadline \in [Caller -> Nat]
  /\ served \in -1..MaxTime
  /\ learned \in [clock : 0..MaxClock, at : Nat]

\* A brief was written by the platform during the exchange that fetched it.
Dated(b) ==
  b.readAt <= b.fetchedAt /\ b.fetchedAt <= now /\ b.fetchedAt - b.readAt <= Latency

\* The client's idea of a token's life is late by at most one exchange, and the
\* client holds no token that was refused.
Known(t) == t.id # 0 => t.until - t.expires <= Latency /\ t.id \in (1..minted) \ refused

\* An exchange takes at most Latency, and a minted token outlives it.
Exchange(c) ==
  /\ pc[c] # "idle" => deadline[c] - Latency <= now /\ now <= deadline[c]
  /\ pc[c] = "request" =>
       /\ bearer[c].id \in -1..minted
       /\ bearer[c] # StaticToken /\ reply[c].type = "none" => deadline[c] < bearer[c].expires
       /\ reply[c].type # "none" => deadline[c] - Latency <= reply[c].at /\ reply[c].at <= now

\* A load has waited for one exchange, or for two when it needed a token.
Loading(c) ==
  pc[c] # "idle" /\ op[c] = "load" =>
    /\ Dated(snapshot[c].cached)
    /\ deadline[c] - snapshot[c].start <= IF pc[c] = "mint" THEN Latency ELSE 2 * Latency

\* Answers do not run ahead of the store, and only those given before the last
\* note was stored are behind it.
Answered(c) ==
  pc[c] = "request" /\ reply[c].type = "ok" =>
    /\ reply[c].clock <= clock
    /\ op[c] = "load" /\ reply[c].clock < learned.clock => reply[c].at <= learned.at

Learned == learned.clock <= clock /\ learned.at <= now

\* What a coroutine may offer when the client holds the token t.
Offers(c, t) == bearer'[c] = StaticToken \/ (bearer'[c] = t /\ t.id # 0)

\* A coroutine that sends a minted token sends one that was not refused.
Permitted(c) == bearer'[c] # StaticToken => bearer'[c].id \notin refused'

IInv ==
  /\ Typed
  /\ Dated(brief) /\ Known(token) /\ Learned
  /\ \A c \in Caller : Exchange(c) /\ Loading(c) /\ Answered(c)
  /\ ServedBriefIsRecent
  /\ OnlyAnOverlappingFetchHidesANote

-----------------------------------------------------------------------------
(* What a coroutine leaves to the others.                                  *)

\* A coroutine that does not move keeps its part of the invariant.
LEMMA OthersStep ==
  ASSUME IInv, NEW d \in Caller, now' = now,
         minted' \in Nat, minted <= minted', clock' \in Nat, clock <= clock',
         learned' = learned \/ learned'.at = now,
         UNCHANGED <<pc[d], op[d], snapshot[d], bearer[d], reply[d], deadline[d]>>
  PROVE  (Exchange(d) /\ Loading(d) /\ Answered(d))'
<1>1. Exchange(d)'
  BY DEF IInv, Typed, Exchange, Token, Reply
<1>2. Loading(d)'
  BY DEF IInv, Typed, Loading, Dated
<1>3. Answered(d)'
  <2>1. Exchange(d) /\ Answered(d)
    BY DEF IInv
  <2>2. reply[d].clock \in Nat /\ reply[d].at \in Nat /\ clock \in Nat /\ now \in Nat
    BY MemoryBoundsAssumption DEF IInv, Typed, Reply
  <2>3. CASE learned' = learned
    BY <2>1, <2>2, <2>3 DEF Answered
  <2>4. CASE learned'.at = now
    BY <2>1, <2>2, <2>4 DEF Answered, Exchange
  <2> QED
    BY <2>3, <2>4
<1> QED
  BY <1>1, <1>2, <1>3

\* The first half of a request, for a function that has its snapshot.
LEMMA SendStep ==
  ASSUME IInv, NEW c \in Caller, NEW t \in Token, Known(t), Send(c, t),
         now' = now, minted' = minted
  PROVE  /\ pc' \in [Caller -> PC] /\ bearer' \in [Caller -> Bearer]
         /\ reply' \in [Caller -> Reply] /\ deadline' \in [Caller -> Nat]
         /\ Exchange(c)' /\ Answered(c)'
         /\ pc'[c] \in {"mint", "request"} /\ deadline'[c] = now + Latency
         /\ \A d \in Caller \ {c} : UNCHANGED <<pc[d], bearer[d], reply[d], deadline[d]>>
         /\ pc'[c] = "request" => Offers(c, t)
<1> USE TimingAssumption, MemoryBoundsAssumption
<1>1. NoToken \in Token /\ NoReply \in Reply
  BY DEF NoToken, Token, NoReply, Reply, ReplyType
<1>0. StaticToken \in Bearer /\ StaticToken.id = -1 /\ NoToken \in Bearer
  BY <1>1 DEF StaticToken, Bearer
<1>2. CASE Valid(t) /\ Await(c, "request", t)
  BY <1>1, <1>2 DEF IInv, Typed, Await, PC, Exchange, Answered, Known, Valid, Token, Bearer, NoReply,
     Offers
<1>3. CASE Await(c, "mint", NoToken)
  BY <1>0, <1>1, <1>3 DEF IInv, Typed, Await, PC, Exchange, Answered, NoReply
<1>4. CASE Await(c, "request", StaticToken)
  BY <1>0, <1>1, <1>4 DEF IInv, Typed, Await, PC, Exchange, Answered, NoReply, Offers
<1> QED
  BY <1>2, <1>3, <1>4 DEF Send

\* A coroutine that has ended.
LEMMA DoneStep ==
  ASSUME IInv, NEW c \in Caller, Done(c)
  PROVE  /\ pc' \in [Caller -> PC] /\ bearer' \in [Caller -> Bearer]
         /\ reply' \in [Caller -> Reply] /\ deadline' \in [Caller -> Nat]
         /\ snapshot' \in [Caller -> [cached : Brief, start : Nat]]
         /\ (Exchange(c) /\ Loading(c) /\ Answered(c))'
         /\ pc'[c] = "idle"
         /\ \A d \in Caller \ {c} : UNCHANGED <<pc[d], bearer[d], reply[d], deadline[d], snapshot[d]>>
<1> USE MemoryBoundsAssumption
<1>1. /\ NoToken \in Token /\ NoReply \in Reply
      /\ NoSnapshot \in [cached : Brief, start : Nat]
  BY DEF NoToken, Token, NoReply, Reply, ReplyType, NoSnapshot, NoBrief, Brief
<1>2. NoToken \in Bearer
  BY <1>1 DEF Bearer
<1> QED
  BY <1>1, <1>2 DEF Done, IInv, Typed, PC, Exchange, Loading, Answered

-----------------------------------------------------------------------------
(* Briefs.                                                                 *)

\* A load from the start, for a run or for recall: what it serves is recent,
\* and what it waits for is bounded.
LEMMA StartLoadStep ==
  ASSUME IInv, NEW c \in Caller, NEW t \in Token, Known(t), StartLoad(c, t), op'[c] = "load",
         now' = now, minted' = minted, clock' = clock, brief' = brief, learned' = learned,
         \A d \in Caller \ {c} : op'[d] = op[d]
  PROVE  /\ pc' \in [Caller -> PC] /\ bearer' \in [Caller -> Bearer]
         /\ reply' \in [Caller -> Reply] /\ deadline' \in [Caller -> Nat]
         /\ snapshot' \in [Caller -> [cached : Brief, start : Nat]]
         /\ served' \in -1..MaxTime /\ ServedBriefIsRecent'
         /\ \A d \in Caller : (Exchange(d) /\ Loading(d) /\ Answered(d))'
         /\ pc'[c] # "mint" => pc'[c] = "idle" \/ Offers(c, t)
<1> USE TimingAssumption, MemoryBoundsAssumption
<1>1. brief.clock \in Nat /\ brief.fetchedAt \in Nat /\ brief.readAt \in Nat /\ now \in 0..MaxTime
      /\ clock \in Nat /\ minted \in Nat
  BY DEF IInv, Typed, Brief
<1>2. CASE Fresh /\ Serve(brief) /\ Done(c)
  <2>1. served' = now - brief.readAt
    BY <1>2 DEF Serve
  <2>2. brief.readAt <= now /\ now - brief.readAt < Ttl + Latency
    BY <1>1, <1>2 DEF Fresh, IInv, Dated
  <2>3. served' \in -1..MaxTime /\ ServedBriefIsRecent'
    BY <1>1, <2>1, <2>2 DEF ServedBriefIsRecent
  <2>4. \A d \in Caller \ {c} : (Exchange(d) /\ Loading(d) /\ Answered(d))'
    BY <1>1, <1>2, DoneStep, OthersStep
  <2> QED
    BY <1>2, <2>3, <2>4, DoneStep
<1>3. CASE /\ snapshot' = [snapshot EXCEPT ![c] = [cached |-> brief, start |-> now]]
           /\ Send(c, t)
           /\ ServeNothing
  <2>1. served' \in -1..MaxTime /\ ServedBriefIsRecent'
    BY <1>3 DEF ServeNothing, NothingServed, ServedBriefIsRecent
  <2>2. snapshot' \in [Caller -> [cached : Brief, start : Nat]]
    BY <1>1, <1>3 DEF IInv, Typed
  <2>3. Loading(c)'
    <3>1. snapshot'[c].cached = brief /\ snapshot'[c].start = now
      BY <1>3 DEF IInv, Typed
    <3>2. Dated(brief)'
      BY DEF IInv, Dated
    <3>3. deadline'[c] = now + Latency /\ pc'[c] \in {"mint", "request"}
      BY <1>3, SendStep
    <3> QED
      BY <1>1, <3>1, <3>2, <3>3 DEF Loading, Dated
  <2>4. \A d \in Caller \ {c} : UNCHANGED snapshot[d]
    BY <1>3 DEF IInv, Typed
  <2>5. \A d \in Caller \ {c} : (Exchange(d) /\ Loading(d) /\ Answered(d))'
    BY <1>1, <1>3, <2>4, SendStep, OthersStep
  <2> QED
    BY <1>3, <2>1, <2>2, <2>3, <2>5, SendStep
<1> QED
  BY <1>2, <1>3 DEF StartLoad

\* What a coroutine knows of the answer it has waited for.
Own(c, answer) ==
  /\ answer \in Reply
  /\ answer.type = "ok" =>
       /\ answer.clock <= clock
       /\ deadline[c] - Latency <= answer.at /\ answer.at <= now
       /\ op[c] = "load" /\ answer.clock < learned.clock => answer.at <= learned.at

\* The second half of a load: the brief fetched, the old one or none.
LEMMA FinishLoadStep ==
  ASSUME IInv, NEW c \in Caller, pc[c] # "idle", op[c] = "load",
         NEW answer, Own(c, answer), FinishLoad(c, answer),
         now' = now, learned' = learned
  PROVE  /\ brief' \in Brief /\ Dated(brief)'
         /\ served' \in -1..MaxTime /\ ServedBriefIsRecent'
         /\ OnlyAnOverlappingFetchHidesANote'
<1> USE TimingAssumption, MemoryBoundsAssumption
<1> DEFINE old == snapshot[c].cached
           start == snapshot[c].start
           new == [clock |-> answer.clock, fetchedAt |-> now, readAt |-> answer.at]
<1>1. /\ now \in 0..MaxTime /\ deadline[c] \in Nat /\ learned.clock \in Nat /\ learned.at \in Nat
      /\ answer.clock \in 0..MaxClock /\ answer.at \in Nat /\ old \in Brief /\ start \in Nat
  BY DEF IInv, Typed, Own, Reply
<1>2. /\ old.readAt \in Nat /\ old.fetchedAt \in Nat
  BY <1>1 DEF Brief
<1>3. /\ Dated(old) /\ deadline[c] - start <= 2 * Latency
      /\ now <= deadline[c] /\ deadline[c] - Latency <= now
  <2>1. Loading(c) /\ Exchange(c)
    BY DEF IInv
  <2> QED
    BY <2>1, <1>1 DEF Loading, Exchange
<1>4. CASE answer.type = "ok" /\ answer.clock # 0
  <2>1. brief' = new /\ served' = now - answer.at
    BY <1>4 DEF FinishLoad, Serve
  <2>2. answer.at <= now /\ now - answer.at <= Latency
    BY <1>1, <1>3, <1>4 DEF Own
  <2>3. brief' \in Brief /\ Dated(brief)'
    BY <1>1, <2>1, <2>2 DEF Brief, Dated
  <2>4. served' \in -1..MaxTime /\ ServedBriefIsRecent'
    BY <1>1, <2>1, <2>2 DEF ServedBriefIsRecent
  <2>5. answer.clock < learned.clock => answer.at <= learned.at /\ learned.at <= now
    BY <1>4 DEF Own, IInv, Learned
  <2>6. OnlyAnOverlappingFetchHidesANote'
    BY <1>1, <2>1, <2>2, <2>5 DEF OnlyAnOverlappingFetchHidesANote
  <2> QED
    BY <2>3, <2>4, <2>6
<1>5. CASE ~(answer.type = "ok" /\ answer.clock # 0) /\ old.clock # 0 /\ start - old.fetchedAt < MaxStale
  <2>1. brief' = brief /\ served' = now - old.readAt
    BY <1>5 DEF FinishLoad, Serve
  <2>2. old.readAt <= now /\ now - old.readAt < MaxStale + 3 * Latency
    BY <1>1, <1>2, <1>3, <1>5 DEF Dated
  <2>3. served' \in -1..MaxTime /\ ServedBriefIsRecent'
    BY <1>1, <1>2, <2>1, <2>2 DEF ServedBriefIsRecent
  <2> QED
    BY <2>1, <2>3 DEF IInv, Typed, Dated, OnlyAnOverlappingFetchHidesANote
<1>6. CASE ~(answer.type = "ok" /\ answer.clock # 0) /\ ~(old.clock # 0 /\ start - old.fetchedAt < MaxStale)
  <2>1. brief' = NoBrief /\ served' = -1
    BY <1>6 DEF FinishLoad, ServeNothing, NothingServed
  <2> QED
    BY <1>1, <2>1 DEF NoBrief, Brief, Dated, ServedBriefIsRecent, OnlyAnOverlappingFetchHidesANote
<1> QED
  BY <1>4, <1>5, <1>6

\* A function that goes on with its answer keeps the invariant, whatever
\* happens to the token meanwhile.
LEMMA ResumeStep ==
  ASSUME IInv, NEW c \in Caller, pc[c] # "idle",
         NEW answer, Own(c, answer), NEW t \in Token, Known(t), Resume(c, answer, t),
         UNCHANGED <<bounds, server>>,
         token' \in Token, Known(token)', refused' \subseteq -1..minted
  PROVE  /\ IInv'
         /\ \A d \in Caller : Sends(d) => Offers(d, t)
<1> USE TimingAssumption, MemoryBoundsAssumption DEF bounds, server
<1>1. now \in 0..MaxTime /\ clock \in 0..MaxClock /\ minted \in Nat
  BY DEF IInv, Typed
<1>2. \A d \in Caller \ {c} : UNCHANGED op[d]
  BY DEF Resume, IInv, Typed
<1>3. op' \in [Caller -> Op]
  BY DEF Resume, IInv, Typed, Op
<1>4. CASE op[c] = "load" /\ FinishLoad(c, answer) /\ Done(c) /\ UNCHANGED <<op, learned>>
  <2>1. \A d \in Caller \ {c} : (Exchange(d) /\ Loading(d) /\ Answered(d))'
    BY <1>1, <1>4, DoneStep, OthersStep
  <2>2. \A d \in Caller : ~Sends(d)
    BY <1>4, DoneStep DEF Sends
  <2> QED
    BY <1>4, <2>1, <2>2, DoneStep, FinishLoadStep DEF IInv, Typed, Learned
<1>5. CASE op[c] = "remember" /\ FinishRemember(c, answer) /\ Done(c) /\ op' = [op EXCEPT ![c] = "load"]
  <2>1. /\ served' = -1 /\ brief' \in {brief, NoBrief}
        /\ \/ learned' = learned /\ brief' = brief
           \/ answer.type = "ok" /\ learned' = [clock |-> answer.clock, at |-> now] /\ brief' = NoBrief
    BY <1>5 DEF FinishRemember, ServeNothing, NothingServed
  <2>2. /\ learned' \in [clock : 0..MaxClock, at : Nat] /\ Learned'
        /\ learned' = learned \/ learned'.at = now
    BY <1>1, <2>1 DEF IInv, Typed, Learned, Own, Reply
  <2>3. brief' \in Brief /\ Dated(brief)' /\ OnlyAnOverlappingFetchHidesANote'
    BY <1>1, <2>1 DEF IInv, Typed, NoBrief, Brief, Dated, OnlyAnOverlappingFetchHidesANote
  <2>4. \A d \in Caller \ {c} : (Exchange(d) /\ Loading(d) /\ Answered(d))'
    BY <1>1, <1>2, <1>5, <2>2, DoneStep, OthersStep
  <2>5. \A d \in Caller : ~Sends(d)
    BY <1>2, <1>5, DoneStep DEF Sends
  <2>6. served' \in -1..MaxTime /\ ServedBriefIsRecent'
    BY <2>1 DEF ServedBriefIsRecent
  <2> QED
    BY <1>3, <1>5, <2>2, <2>3, <2>4, <2>5, <2>6, DoneStep DEF IInv, Typed
<1>6. CASE op[c] = "recall" /\ Done(c) /\ op' = [op EXCEPT ![c] = "load"] /\ ServeNothing
           /\ UNCHANGED <<brief, learned>>
  <2>1. \A d \in Caller \ {c} : (Exchange(d) /\ Loading(d) /\ Answered(d))'
    BY <1>1, <1>2, <1>6, DoneStep, OthersStep
  <2>2. \A d \in Caller : ~Sends(d)
    BY <1>2, <1>6, DoneStep DEF Sends
  <2>3. served' \in -1..MaxTime /\ ServedBriefIsRecent'
    BY <1>6 DEF ServedBriefIsRecent, ServeNothing, NothingServed
  <2> QED
    BY <1>3, <1>6, <2>1, <2>2, <2>3, DoneStep
       DEF IInv, Typed, Dated, Learned, OnlyAnOverlappingFetchHidesANote
<1>7. CASE op[c] = "recall" /\ op' = [op EXCEPT ![c] = "load"] /\ StartLoad(c, t)
           /\ UNCHANGED <<brief, learned>>
  <2>1. op'[c] = "load"
    BY <1>7 DEF IInv, Typed
  <2>2. \A d \in Caller \ {c} : UNCHANGED pc[d]
    BY <1>7, SendStep, DoneStep DEF StartLoad
  <2>3. \A d \in Caller : Sends(d) => Offers(d, t)
    BY <1>2, <1>7, <2>1, <2>2, StartLoadStep DEF Sends
  <2> QED
    BY <1>2, <1>3, <1>7, <2>1, <2>3, StartLoadStep
       DEF IInv, Typed, Dated, Learned, OnlyAnOverlappingFetchHidesANote
<1> QED
  BY <1>4, <1>5, <1>6, <1>7 DEF Resume

-----------------------------------------------------------------------------
(* Steps.                                                                  *)

LEMMA InvariantInit == Init => IInv
<1> SUFFICES ASSUME Init PROVE IInv
  OBVIOUS
<1> USE TimingAssumption, MemoryBoundsAssumption DEF Init
<1>1. NoBrief \in Brief /\ NoToken \in Token /\ NoReply \in Reply
      /\ NoSnapshot \in [cached : Brief, start : Nat]
  BY DEF NoBrief, Brief, NoToken, Token, NoReply, Reply, ReplyType, NoSnapshot
<1>2. Typed
  BY <1>1 DEF Typed, PC, Op, NothingServed, Bearer
<1>3. Dated(brief) /\ Known(token) /\ Learned
  BY DEF Dated, NoBrief, Known, NoToken, Learned
<1>4. \A c \in Caller : Exchange(c) /\ Loading(c) /\ Answered(c)
  BY DEF Exchange, Loading, Answered
<1>5. ServedBriefIsRecent /\ OnlyAnOverlappingFetchHidesANote
  BY DEF ServedBriefIsRecent, NothingServed, OnlyAnOverlappingFetchHidesANote, NoBrief
<1> QED
  BY <1>2, <1>3, <1>4, <1>5 DEF IInv

\* A call of load, remember or recall.
LEMMA CallStep ==
  ASSUME IInv, NEW c \in Caller, Load(c) \/ Ask(c, "remember") \/ Ask(c, "recall")
  PROVE  /\ IInv'
         /\ \A d \in Caller : Sends(d) => Offers(d, token)
<1> USE TimingAssumption, MemoryBoundsAssumption
<1>1. now \in 0..MaxTime /\ clock \in 0..MaxClock /\ minted \in Nat /\ calls' \in 0..MaxCalls
      /\ token \in Token /\ Known(token)
      /\ UNCHANGED <<now, static, server, cache, learned, refused>>
  BY DEF Load, Ask, Call, IInv, Typed
<1>2. CASE Load(c)
  <2>1. op' = [op EXCEPT ![c] = "load"] /\ StartLoad(c, token)
    BY <1>2 DEF Load
  <2>2. op' \in [Caller -> Op] /\ op'[c] = "load" /\ \A d \in Caller \ {c} : op'[d] = op[d]
    BY <2>1 DEF IInv, Typed, Op
  <2>3. \A d \in Caller \ {c} : UNCHANGED pc[d]
    BY <1>1, <2>1, SendStep, DoneStep DEF StartLoad, server
  <2>4. \A d \in Caller : Sends(d) => Offers(d, token)
    BY <1>1, <2>1, <2>2, <2>3, StartLoadStep DEF Sends, server, cache
  <2> QED
    BY <1>1, <2>1, <2>2, <2>4, StartLoadStep
       DEF server, cache, IInv, Typed, Dated, Known, Learned, OnlyAnOverlappingFetchHidesANote
<1>3. ASSUME NEW f \in {"remember", "recall"}, Ask(c, f)
      PROVE  /\ IInv'
             /\ \A d \in Caller : Sends(d) => Offers(d, token)
  <2>1. op' = [op EXCEPT ![c] = f] /\ Send(c, token) /\ ServeNothing /\ UNCHANGED snapshot
    BY <1>3 DEF Ask
  <2>2. op' \in [Caller -> Op] /\ op'[c] = f /\ \A d \in Caller \ {c} : op'[d] = op[d]
    BY <2>1 DEF IInv, Typed, Op
  <2>3. served' \in -1..MaxTime /\ ServedBriefIsRecent'
    BY <2>1 DEF ServeNothing, NothingServed, ServedBriefIsRecent
  <2>4. \A d \in Caller \ {c} : (Exchange(d) /\ Loading(d) /\ Answered(d))'
    BY <1>1, <2>1, <2>2, SendStep, OthersStep DEF server
  <2>5. (Exchange(c) /\ Loading(c) /\ Answered(c))'
    BY <1>1, <2>1, <2>2, SendStep DEF server, Loading
  <2>6. \A d \in Caller : Sends(d) => Offers(d, token)
    BY <1>1, <2>1, <2>2, SendStep DEF Sends, server
  <2> QED
    BY <1>1, <2>1, <2>2, <2>3, <2>4, <2>5, <2>6, SendStep
       DEF server, cache, IInv, Typed, Dated, Known, Learned, OnlyAnOverlappingFetchHidesANote
<1> QED
  BY <1>2, <1>3

LEMMA ReceiveTokenStep ==
  ASSUME IInv, NEW c \in Caller, ReceiveToken(c)
  PROVE  /\ IInv'
         /\ \A d \in Caller : Sends(d) => Permitted(d)
<1> USE TimingAssumption, MemoryBoundsAssumption
<1>1. PICK issued \in (deadline[c] - Latency)..now :
        LET t == [id |-> minted + 1, until |-> now + Lifetime, expires |-> issued + Lifetime]
        IN token' = t /\ Await(c, "request", t)
  BY DEF ReceiveToken
<1> DEFINE t == [id |-> minted + 1, until |-> now + Lifetime, expires |-> issued + Lifetime]
<1>2. /\ pc[c] = "mint" /\ minted < MaxMints /\ minted' = minted + 1
      /\ token' = t /\ Await(c, "request", t) /\ ServeNothing
      /\ UNCHANGED <<bounds, clock, revoked, brief, op, snapshot, learned, refused>>
  BY <1>1 DEF ReceiveToken
<1>3. /\ now \in 0..MaxTime /\ clock \in Nat /\ minted \in Nat /\ minted' \in 0..MaxMints
      /\ deadline[c] \in Nat /\ issued \in Int /\ op[c] \in Op
      /\ deadline[c] - Latency <= now /\ now <= deadline[c]
      /\ snapshot[c] \in [cached : Brief, start : Nat]
  BY <1>2 DEF IInv, Typed, Exchange
<1>4. t \in Token
  BY <1>2, <1>3 DEF Token
<1>5. t.id \in (1..minted') \ refused' /\ t.until - t.expires <= Latency
  <2>1. t.id = minted + 1 /\ t.until = now + Lifetime /\ t.expires = issued + Lifetime
    OBVIOUS
  <2>2. now - issued <= Latency
    BY <1>3
  <2>3. refused \subseteq -1..minted /\ refused' = refused
    BY <1>2 DEF IInv, Typed
  <2> HIDE DEF t
  <2> QED
    BY <1>2, <1>3, <2>1, <2>2, <2>3
<1>6. /\ pc' = [pc EXCEPT ![c] = "request"] /\ bearer' = [bearer EXCEPT ![c] = t]
      /\ reply' = [reply EXCEPT ![c] = NoReply] /\ deadline' = [deadline EXCEPT ![c] = now + Latency]
  BY <1>2 DEF Await
<1> HIDE DEF t
<1>7. NoReply \in Reply
  BY DEF NoReply, Reply, ReplyType
<1>8. Typed'
  <2>1. pc' \in [Caller -> PC] /\ bearer' \in [Caller -> Bearer]
    BY <1>4, <1>6 DEF IInv, Typed, PC, Bearer
  <2>2. reply' \in [Caller -> Reply] /\ deadline' \in [Caller -> Nat]
    BY <1>3, <1>6, <1>7 DEF IInv, Typed
  <2>3. refused' \subseteq -1..minted' /\ served' \in -1..MaxTime
    BY <1>2, <1>3 DEF IInv, Typed, ServeNothing, NothingServed
  <2> QED
    BY <1>2, <1>3, <1>4, <2>1, <2>2, <2>3 DEF IInv, Typed, bounds
<1>9. /\ pc'[c] = "request" /\ bearer'[c] = t /\ reply'[c].type = "none"
      /\ deadline'[c] = now + Latency
      /\ \A d \in Caller \ {c} : UNCHANGED <<pc[d], bearer[d], reply[d], deadline[d]>>
  BY <1>6 DEF IInv, Typed, NoReply
<1>10. Exchange(c)'
  BY <1>2, <1>3, <1>9 DEF Exchange, bounds, t
<1>11. Loading(c)' /\ Answered(c)'
  <2>1. Loading(c)
    BY DEF IInv
  <2> QED
    BY <1>2, <1>3, <1>9, <2>1 DEF Loading, Answered, Dated, bounds
<1>12. \A d \in Caller \ {c} : (Exchange(d) /\ Loading(d) /\ Answered(d))'
  BY <1>2, <1>3, <1>9, OthersStep DEF bounds
<1>13. /\ Dated(brief)' /\ Learned' /\ OnlyAnOverlappingFetchHidesANote' /\ ServedBriefIsRecent'
  BY <1>2 DEF IInv, Dated, Learned, OnlyAnOverlappingFetchHidesANote, ServedBriefIsRecent, bounds,
     ServeNothing, NothingServed
<1>14. Known(token)'
  BY <1>2, <1>5 DEF Known
<1>15. \A d \in Caller : Sends(d) => Permitted(d)
  BY <1>2, <1>5, <1>9 DEF Sends, Permitted
<1> QED
  BY <1>8, <1>10, <1>11, <1>12, <1>13, <1>14, <1>15 DEF IInv

\* Minting failed, or the platform has answered.
LEMMA ReceiveStep ==
  ASSUME IInv, NEW c \in Caller, ReceiveNoToken(c) \/ Receive(c)
  PROVE  /\ IInv'
         /\ \A d \in Caller : Sends(d) => Permitted(d)
<1> USE TimingAssumption, MemoryBoundsAssumption
<1>1. CASE ReceiveNoToken(c)
  <2> DEFINE answer == [NoReply EXCEPT !.type = "failed"]
  <2>1. /\ pc[c] = "mint" /\ token' \in {token, NoToken} /\ Resume(c, answer, token')
        /\ UNCHANGED <<bounds, server, refused>>
    BY <1>1 DEF ReceiveNoToken
  <2>2. Own(c, answer)
    BY DEF Own, NoReply, Reply, ReplyType
  <2>3. token' \in Token /\ Known(token') /\ Known(token)' /\ refused' \subseteq -1..minted
    BY <2>1 DEF IInv, Typed, Known, server, NoToken, Token
  <2> HIDE DEF answer
  <2>4. IInv' /\ \A d \in Caller : Sends(d) => Offers(d, token')
    BY <2>1, <2>2, <2>3, ResumeStep
  <2> QED
    BY <2>1, <2>3, <2>4 DEF Known, Offers, Permitted
<1>2. CASE Receive(c)
  <2>1. /\ pc[c] = "request" /\ reply[c].type # "none" /\ DropRefused(c)
        /\ Resume(c, reply[c], token') /\ UNCHANGED <<bounds, server>>
    BY <1>2 DEF Receive
  <2>2. Own(c, reply[c])
    BY <2>1 DEF Own, IInv, Typed, Exchange, Answered
  <2>3. CASE reply[c].type = "refused"
    <3>1. token' = NoToken /\ refused' = refused \cup {bearer[c].id}
      BY <2>1, <2>3 DEF DropRefused
    <3>2. bearer[c].id \in -1..minted
      BY <2>1 DEF IInv, Exchange
    <3>3. token' \in Token /\ token'.id = 0
      BY <3>1 DEF NoToken, Token
    <3>4. refused' \subseteq -1..minted
      BY <3>1, <3>2 DEF IInv, Typed
    <3>5. Known(token') /\ Known(token)'
      BY <3>3 DEF Known
    <3>6. IInv' /\ \A d \in Caller : Sends(d) => bearer'[d] = StaticToken
      BY <2>1, <2>2, <3>3, <3>4, <3>5, ResumeStep DEF Offers
    <3> QED
      BY <3>6 DEF Permitted
  <2>4. CASE reply[c].type # "refused"
    <3>1. UNCHANGED <<token, refused>>
      BY <2>1, <2>4 DEF DropRefused
    <3>2. token' \in Token /\ Known(token') /\ Known(token)' /\ refused' \subseteq -1..minted
      BY <2>1, <3>1 DEF Known, IInv, Typed, server
    <3>3. IInv' /\ \A d \in Caller : Sends(d) => Offers(d, token')
      BY <2>1, <2>2, <3>2, ResumeStep
    <3> QED
      BY <3>1, <3>2, <3>3 DEF Known, Offers, Permitted
  <2> QED
    BY <2>3, <2>4
<1> QED
  BY <1>1, <1>2

\* The platform handles a request, or something breaks before or after it.
LEMMA ServerStep ==
  ASSUME IInv, NEW c \in Caller, Handle(c) \/ Break(c)
  PROVE  IInv' /\ UNCHANGED <<pc, op>>
<1> USE TimingAssumption, MemoryBoundsAssumption
<1>1. PICK type \in {"ok", "refused", "failed"}, value \in 0..MaxClock :
        /\ Answer(c, type, value)
        /\ pc[c] = "request" /\ ServeNothing /\ UNCHANGED <<minted, revoked, serving>>
        /\ clock' \in 0..MaxClock /\ clock <= clock'
        /\ type = "ok" => value <= clock' /\ (op[c] = "load" => value = clock)
  <2>1. now \in Nat /\ clock \in 0..MaxClock
    BY DEF IInv, Typed
  <2>2. CASE Break(c)
    BY <2>1, <2>2 DEF Break, server
  <2>3. CASE Handle(c)
    <3>1. CASE Answer(c, "refused", 0) /\ UNCHANGED clock
      BY <2>1, <2>3, <3>1 DEF Handle
    <3>2. CASE Answer(c, "ok", IF op[c] = "load" THEN clock ELSE 0) /\ UNCHANGED clock
      BY <2>1, <2>3, <3>2 DEF Handle
    <3>3. CASE op[c] = "remember" /\ clock < MaxClock /\ clock' = clock + 1 /\ Answer(c, "ok", clock + 1)
      BY <2>1, <2>3, <3>3 DEF Handle
    <3> QED
      BY <2>3, <3>1, <3>2, <3>3 DEF Handle
  <2> QED
    BY <2>2, <2>3
<1> USE DEF serving, bounds, cache
<1>2. now \in 0..MaxTime /\ clock \in Nat /\ minted \in Nat /\ learned.clock \in Nat
      /\ deadline[c] \in Nat
  BY DEF IInv, Typed
<1>3. reply' = [reply EXCEPT ![c] = [type |-> type, clock |-> value, at |-> now]]
  BY <1>1 DEF Answer
<1>4. reply' \in [Caller -> Reply]
  BY <1>2, <1>3 DEF IInv, Typed, Reply, ReplyType
<1>5. /\ reply'[c].type = type /\ reply'[c].clock = value /\ reply'[c].at = now
      /\ \A d \in Caller \ {c} : reply'[d] = reply[d]
  BY <1>3 DEF IInv, Typed
<1>6. Typed'
  BY <1>1, <1>4 DEF IInv, Typed, ServeNothing, NothingServed
<1>7. Exchange(c) /\ Loading(c) /\ Learned
  BY DEF IInv
<1>8. Exchange(c)'
  BY <1>1, <1>2, <1>5, <1>7 DEF Exchange
<1>9. Loading(c)'
  BY <1>1, <1>7 DEF Loading, Dated
<1>10. Answered(c)'
  BY <1>1, <1>2, <1>5, <1>7 DEF Answered, Learned
<1>11. \A d \in Caller \ {c} : (Exchange(d) /\ Loading(d) /\ Answered(d))'
  BY <1>1, <1>2, <1>5, OthersStep
<1>12. Dated(brief)' /\ Known(token)' /\ Learned' /\ OnlyAnOverlappingFetchHidesANote'
       /\ ServedBriefIsRecent'
  BY <1>1, <1>2 DEF IInv, Dated, Known, Learned, OnlyAnOverlappingFetchHidesANote,
     ServedBriefIsRecent, ServeNothing, NothingServed
<1> QED
  BY <1>1, <1>6, <1>8, <1>9, <1>10, <1>11, <1>12 DEF IInv

\* The store, the tokens' owner and the clock.
LEMMA WorldStep ==
  ASSUME IInv, StoreChanges \/ Revoke \/ Tick
  PROVE  IInv' /\ UNCHANGED <<pc, op>>
<1> USE TimingAssumption, MemoryBoundsAssumption DEF bounds, cache, coroutines, server
<1>1. /\ now \in 0..MaxTime /\ clock \in 0..MaxClock /\ minted \in 0..MaxMints
      /\ learned.clock \in Nat /\ learned.at \in Nat /\ token \in Token
  BY DEF IInv, Typed
<1>2. CASE StoreChanges
  <2>1. clock' = clock + 1 /\ clock' \in 0..MaxClock /\ ServeNothing
        /\ UNCHANGED <<bounds, minted, revoked, cache, coroutines, learned, refused>>
    BY <1>1, <1>2 DEF StoreChanges
  <2>2. \A d \in Caller : (Exchange(d) /\ Loading(d) /\ Answered(d))'
    BY <1>1, <2>1, OthersStep
  <2> QED
    BY <1>1, <2>1, <2>2 DEF IInv, Typed, Dated, Known, Learned, ServeNothing, NothingServed,
       ServedBriefIsRecent, OnlyAnOverlappingFetchHidesANote
<1>3. CASE Revoke
  <2> DEFINE inUse == IF static THEN StaticToken.id ELSE token.id
  <2>1. inUse \in -1..MaxMints
    BY <1>1, <1>3 DEF Revoke, Token, StaticToken
  <2>2. revoked' = revoked \cup {inUse} /\ ServeNothing
        /\ UNCHANGED <<bounds, clock, minted, cache, coroutines, learned, refused>>
    BY <1>3 DEF Revoke
  <2>3. \A d \in Caller : (Exchange(d) /\ Loading(d) /\ Answered(d))'
    BY <1>1, <2>2, OthersStep
  <2>4. revoked' \subseteq -1..MaxMints
    BY <2>1, <2>2 DEF IInv, Typed
  <2>5. Typed'
    BY <2>2, <2>4 DEF IInv, Typed, ServeNothing, NothingServed
  <2> QED
    BY <1>1, <2>2, <2>3, <2>5 DEF IInv, Dated, Known, Learned, ServeNothing, NothingServed,
       ServedBriefIsRecent, OnlyAnOverlappingFetchHidesANote
<1>4. CASE Tick
  <2>1. /\ now' = now + 1 /\ now' \in 0..MaxTime /\ ServeNothing
        /\ \A c \in Caller : pc[c] # "idle" => now < deadline[c]
        /\ UNCHANGED <<calls, static, server, cache, coroutines, learned, refused>>
    BY <1>1, <1>4 DEF Tick
  <2>2. ASSUME NEW d \in Caller
        PROVE  (Exchange(d) /\ Loading(d) /\ Answered(d))'
    <3>1. Exchange(d) /\ Loading(d) /\ Answered(d)
      BY DEF IInv
    <3>2. /\ deadline[d] \in Nat /\ reply[d].at \in Nat
          /\ snapshot[d].cached.fetchedAt \in Nat
      BY DEF IInv, Typed, Reply, Brief
    <3>3. Exchange(d)'
      BY <1>1, <2>1, <3>1, <3>2 DEF Exchange
    <3>4. Loading(d)'
      BY <1>1, <2>1, <3>1, <3>2 DEF Loading, Dated
    <3>5. Answered(d)'
      BY <2>1, <3>1 DEF Answered
    <3> QED
      BY <3>3, <3>4, <3>5
  <2>3. brief.fetchedAt \in Nat
    BY DEF IInv, Typed, Brief
  <2>4. Typed' /\ Known(token)'
    BY <2>1 DEF IInv, Typed, Known, ServeNothing, NothingServed
  <2>5. Dated(brief)' /\ Learned' /\ OnlyAnOverlappingFetchHidesANote' /\ ServedBriefIsRecent'
    BY <1>1, <2>1, <2>3 DEF IInv, Dated, Learned, OnlyAnOverlappingFetchHidesANote,
       ServedBriefIsRecent, ServeNothing, NothingServed
  <2> QED
    BY <2>1, <2>2, <2>4, <2>5 DEF IInv
<1> QED
  BY <1>2, <1>3, <1>4

\* Every step keeps the invariant and offers no token that was refused.
LEMMA InvariantStep ==
  ASSUME IInv, [Next]_vars
  PROVE  /\ IInv'
         /\ \A d \in Caller : Sends(d) => Permitted(d)
<1>1. ASSUME NEW c \in Caller, Load(c) \/ Ask(c, "remember") \/ Ask(c, "recall")
      PROVE  /\ IInv'
             /\ \A d \in Caller : Sends(d) => Permitted(d)
  <2>1. UNCHANGED refused
    BY <1>1 DEF Load, Ask
  <2>2. Known(token)
    BY DEF IInv
  <2> QED
    BY <1>1, <2>1, <2>2, CallStep DEF Known, Offers, Permitted
<1>2. CASE UNCHANGED vars
  <2>1. \A d \in Caller : ~Sends(d)
    BY <1>2 DEF vars, coroutines, Sends
  <2>2. IInv'
    BY <1>2 DEF vars, bounds, server, cache, coroutines, IInv, Typed, Dated, Known, Learned, Exchange,
       Loading, Answered, ServedBriefIsRecent, OnlyAnOverlappingFetchHidesANote
  <2> QED
    BY <2>1, <2>2
<1>3. ASSUME UNCHANGED <<pc, op>>
      PROVE  \A d \in Caller : ~Sends(d)
  BY <1>3 DEF Sends
<1> QED
  BY <1>1, <1>2, <1>3, ReceiveTokenStep, ReceiveStep, ServerStep, WorldStep DEF Next

LEMMA Invariant == Spec => []IInv
<1>1. Init => IInv
  BY InvariantInit
<1>2. IInv /\ [Next]_vars => IInv'
  BY InvariantStep
<1> QED
  BY <1>1, <1>2, PTL DEF Spec

\* Every reachable state of the caches and of the coroutines is well typed.
THEOREM TypeCorrect == Spec => []TypeOK
<1>1. IInv => TypeOK
  BY MemoryBoundsAssumption DEF IInv, Typed, TypeOK, Brief, Token, Bearer, StaticToken, Reply
<1> QED
  BY <1>1, Invariant, PTL

\* A brief that is served was written at most MaxStale and three exchanges ago
\* (load).
THEOREM BriefRecent == Spec => []ServedBriefIsRecent
<1>1. IInv => ServedBriefIsRecent
  BY DEF IInv
<1> QED
  BY <1>1, Invariant, PTL

\* A stored note is hidden only by a fetch that was under way (remember, forget).
THEOREM NoteVisible == Spec => []OnlyAnOverlappingFetchHidesANote
<1>1. IInv => OnlyAnOverlappingFetchHidesANote
  BY DEF IInv
<1> QED
  BY <1>1, Invariant, PTL

\* No request carries a minted token that expires before it is answered (_Token.valid).
THEOREM TokenOutlivesRequest == Spec => []NoTokenExpiresInFlight
<1>1. IInv => NoTokenExpiresInFlight
  <2> SUFFICES ASSUME IInv, NEW c \in Caller, pc[c] = "request", reply[c].type = "none",
                      bearer[c] # StaticToken
               PROVE  now < bearer[c].expires
    BY DEF NoTokenExpiresInFlight
  <2>1. now <= deadline[c] /\ deadline[c] < bearer[c].expires
    BY DEF IInv, Exchange
  <2>2. now \in Nat /\ deadline[c] \in Nat /\ bearer[c].expires \in Nat
    BY MemoryBoundsAssumption DEF IInv, Typed, Token, Bearer
  <2> QED
    BY <2>1, <2>2
<1> QED
  BY <1>1, Invariant, PTL

\* A minted token that the platform refused is not offered to it again, whatever
\* the other coroutines do meanwhile (_request, _bearer).
THEOREM RefusedTokenDropped == Spec => RefusedTokenIsNotOffered
<1>1. IInv /\ [Next]_vars => [\A c \in Caller :
            Sends(c) /\ bearer'[c] # StaticToken => bearer'[c].id \notin refused']_vars
  BY InvariantStep DEF Permitted
<1> QED
  BY <1>1, Invariant, PTL DEF Spec, RefusedTokenIsNotOffered
=============================================================================
