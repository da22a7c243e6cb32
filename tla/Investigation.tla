---------------------------- MODULE Investigation ----------------------------
(***************************************************************************)
(* One run of the agent (agent/openai_runner.py run): routing, at most two *)
(* specialists that share one turn budget (agent/turns.py), their tool     *)
(* calls with the ledger of what the tools observed (RunState), and the    *)
(* mapping of the model's last word to a result that the ledger supports.  *)
(* The model may answer anything at any turn; the replica may become       *)
(* another one between two calls.                                          *)
(***************************************************************************)
EXTENDS Evidence

CONSTANTS
  World,          \* the replicas considered: its eligible receivables and known
                  \* customers, their profiles, links of sources
  Source,         \* records that exploratory SQL can register
  ClueSet,        \* the combinations of clues the model passes to a tool
  MaxTurns,       \* config.max_agent_turns
  MaxRows,        \* rows a search returns before it is truncated
  MaxMoves,       \* bound: changes of the replica during the run
  NoKey

ASSUME TurnsAssumption == MaxTurns \in Nat \ {0} /\ MaxMoves \in Nat
ASSUME WorldAssumption ==
  World \subseteq [rows : SUBSET Key, profile : [Key -> Profile], link : [Source -> Order]]

VARIABLES
  phase,          \* where the run is
  route,          \* the specialist that is running or ran last
  attempt,        \* 1 after the route correction
  used,           \* SpecialistTurns.used
  evidence,       \* RunState.evidence
  verified,       \* keys of RunState.verified_candidates
  found,          \* candidate_search_count; -1 before the first search
  conclusive,     \* candidate_search_conclusive
  sources,        \* RunState.source_records
  calls,          \* RunState.calls: tool and status, in order
  result,         \* what run returns or raises
  world,          \* the replica
  moves,
  asked,          \* history: model calls made for specialists
  ran,            \* history: tools that were executed
  searched,       \* history: the searches, what they met and what they showed
  notes           \* history: the specialists that stored a note

ledger == <<evidence, verified, found, conclusive, sources>>
vars == <<phase, route, attempt, used, ledger, calls, result, world, moves, asked, ran, searched,
          notes>>

Route == {"general", "payment_identification"}
Phase == {"route", "model", "tool", "done"}

\* A result, or the failure that carries the audit.  "by" is the route the
\* result is reported under.
NoResult == [type |-> "none", by |-> "none", reason |-> "none", outcome |-> "none",
             customer |-> NoKey, confidence |-> "none", alternatives |-> {}, audited |-> 0]

\* What the model proposes: a key and the evidence it cites for it.
Proposal(cited) == [key : Key, cited : cited]

Init ==
  /\ phase = "route"
  /\ route = "payment_identification"
  /\ attempt = 0
  /\ used = 0
  /\ evidence = {} /\ verified = {} /\ found = -1 /\ conclusive = FALSE /\ sources = {}
  /\ calls = 0
  /\ result = NoResult
  /\ world \in World
  /\ moves = 0
  /\ asked = 0 /\ ran = 0 /\ searched = {} /\ notes = {}

-----------------------------------------------------------------------------
(* Results.                                                                *)

Unknown(reason) ==
  [NoResult EXCEPT !.type = "answer", !.by = "payment_identification", !.reason = reason,
                   !.outcome = "ambiguous", !.confidence = "unknown"]

General(reason) ==
  [NoResult EXCEPT !.type = "answer", !.by = "general", !.reason = reason]

\* Mutant: a failed run loses its audit.
ReturnWithoutAudit(value) ==
  /\ result' = [value EXCEPT !.audited = IF value.type = "failure" THEN 0 ELSE calls]
  /\ phase' = "done"

\* The last lines of run: every outcome carries the audited calls.
Return(value) ==
  /\ result' = [value EXCEPT !.audited = calls]
  /\ phase' = "done"

\* AgentRunFailure.
Failure == [NoResult EXCEPT !.type = "failure", !.by = route]

\* _resolve_candidate: an order without a receivable stands for its only
\* verified receivable.
Resolve(proposal) ==
  LET sameOrder == {k \in verified : k[1] = proposal.key[1]} IN
  CASE proposal.key \in verified -> proposal.key
    [] /\ proposal.key \notin verified
       /\ proposal.key[2] = NoReceivable
       /\ Cardinality(sameOrder) = 1 -> CHOOSE k \in sameOrder : TRUE
    [] OTHER -> NoKey

\* _selected_signals: every cited id exists and is the candidate's own, and one
\* of them supports it.
Cites(proposal, key) ==
  /\ proposal.cited # {}
  /\ proposal.cited \subseteq SignalsFor(evidence, key)
  /\ Supporting(proposal.cited) # {}

\* Mutant: the contradictions nobody cited are left out.
GroundedCited(proposal, key) == proposal.cited

\* The cited signals with every contradiction of the candidate.
Grounded(proposal, key) ==
  proposal.cited \cup Contradicting(SignalsFor(evidence, key))

\* Mutant: a competitor of equal rank is tolerated.
CompetesAbove(key, other) ==
  other # key /\ Precedes(Rank(SignalsFor(evidence, key)), Rank(SignalsFor(evidence, other)))

Competes(key, other) ==
  other # key /\ AtLeast(Rank(SignalsFor(evidence, other)), Rank(SignalsFor(evidence, key)))

\* The conditions under which _map_output keeps the model's recommendation.
Accepted(proposal) ==
  LET key == Resolve(proposal) IN
  /\ key # NoKey
  /\ Cites(proposal, key)
  /\ Confidence(Grounded(proposal, key)) # "unknown"
  /\ \A other \in verified : ~Competes(key, other)

\* _alternatives: verified, cited and more than a coincidence.  At most three
\* keys are proposed in an instance, so the cut after the third is left out.
Alternatives(proposals) ==
  {Resolve(p) : p \in {q \in proposals :
     /\ Resolve(q) # NoKey
     /\ Cites(q, Resolve(q))
     /\ \/ Confidence(q.cited) # "unknown"
        \/ Supporting(q.cited) \cap
             {"exact_outstanding", "exact_address", "partial_address"} # {}}}

Ambiguous(proposals) ==
  [Unknown("completed") EXCEPT !.alternatives = Alternatives(proposals)]

NotFound == found = 0 /\ conclusive

\* _map_output.
MapOutput(outcome, proposal, others) ==
  CASE outcome = "matched" /\ Accepted(proposal) ->
         [Unknown("completed") EXCEPT
            !.outcome = "matched",
            !.customer = Resolve(proposal),
            !.confidence = Confidence(Grounded(proposal, Resolve(proposal)))]
    [] outcome = "matched" /\ ~Accepted(proposal) -> Ambiguous(others \cup {proposal})
    [] outcome = "no_customer_found" /\ NotFound ->
         [Unknown("completed") EXCEPT !.outcome = "no_customer_found"]
    [] OTHER -> Ambiguous(others)

-----------------------------------------------------------------------------
(* Tools.                                                                  *)

\* invoke: the call is audited whether it succeeds or raises.
Audit ==
  /\ phase = "tool"
  /\ calls' = calls + 1
  /\ ran' = ran + 1
  /\ phase' = "model"
  /\ UNCHANGED <<route, attempt, used, result, world, moves, asked>>

\* _register_signal for the rows a tool returned.
Signals(keys, clues) ==
  UNION {{[call |-> calls + 1, kind |-> kind, key |-> k] :
            kind \in KindsOf(k, world.profile[k], clues)} : k \in keys}

\* Mutant: only the last search counts.
CountLast(n) == found' = n

CountSearch(n) == found' = IF n > found THEN n ELSE found

\* What a bounded query shows of the rows that match: all of them, or MaxRows.
Shown(rows) ==
  IF Cardinality(rows) <= MaxRows THEN {rows}
  ELSE {some \in SUBSET rows : Cardinality(some) = MaxRows}

\* search_payment_candidates, and _register_observation for it.  Customers
\* without an eligible receivable are added by their identity.
Search(clues) ==
  LET p == world.profile
      useful(keys) == {k \in keys : Meaningful(KindsOf(k, p[k], clues))}
      rows == {k \in world.rows : k[2] # NoReceivable /\ ReceivableFoundBy(p[k], clues)}
      identities == {k \in world.rows : k[2] = NoReceivable /\ IdentityFoundBy(p[k], clues)}
  IN /\ route = "payment_identification"
     /\ Audit
     /\ \E shown \in Shown(rows), others \in Shown(identities) :
          LET eligible == useful(shown)
              candidates == eligible \cup
                {k \in useful(others) : \A e \in eligible : e[1] # k[1]}
              complete == clues \cap Precise # {} /\ rows = {} /\ identities = {}
          IN /\ evidence' = evidence \cup Signals(candidates, clues)
             /\ CountSearch(Cardinality(candidates))
             /\ conclusive' = (conclusive \/ complete)
             /\ searched' = searched \cup
                  {[clues |-> clues, met |-> rows \cup identities, shown |-> candidates]}
     /\ UNCHANGED <<verified, sources, notes>>

\* What verification reads: the order's eligible rows, or else its identity.
VerifiedRows(order, receivable) ==
  LET rows == {k \in world.rows : /\ k[1] = order /\ k[2] # NoReceivable
                                  /\ receivable \in {NoReceivable, k[2]}}
  IN IF rows = {} /\ receivable = NoReceivable THEN world.rows \cap {<<order, NoReceivable>>}
     ELSE rows

\* Mutant: verification is remembered for the order, not for its receivable.
RememberOrders(keys) == verified' = verified \cup {k[1] : k \in keys}

RememberVerified(keys) == verified' = verified \cup keys

\* verify_payment_candidate, alone or with links to registered records
\* (verify_payment_sources), which add no more than a fragment of a name.  An
\* unknown reference makes the whole observation unavailable.
Verify(order, receivable, clues, links) ==
  LET keys == VerifiedRows(order, receivable)
      linked == {s \in links : world.link[s] = order}
      fragments == IF linked # {} /\ clues \cap {"glosa", "transferor"} # {}
                   THEN {[call |-> calls + 1, kind |-> "name_fragment", key |-> k] : k \in keys}
                   ELSE {}
  IN /\ route = "payment_identification"
     /\ links \subseteq sources
     /\ Audit
     /\ evidence' = evidence \cup Signals(keys, clues \cap {"glosa", "transferor", "amount"})
                             \cup fragments
     /\ RememberVerified(keys)
     /\ UNCHANGED <<found, conclusive, sources, searched, notes>>

\* search_vambe_messages: a mention, whatever receivable is meant.
Vambe(order) ==
  /\ route = "payment_identification"
  /\ Audit
  /\ evidence' = evidence \cup
       {[call |-> calls + 1, kind |-> "vambe_mention", key |-> <<order, NoReceivable>>]}
  /\ UNCHANGED <<verified, found, conclusive, sources, searched, notes>>

\* run_readonly_sql with the records it is asked to register.
RunSql(records) ==
  /\ Audit
  /\ sources' = sources \cup records
  /\ UNCHANGED <<evidence, verified, found, conclusive, searched, notes>>

\* remember_shared_memory, a tool of the general specialist alone.
Remember ==
  /\ route = "general"
  /\ Audit
  /\ notes' = notes \cup {route}
  /\ UNCHANGED <<ledger, searched>>

\* A tool that raises, is unavailable, or adds nothing to the ledger.
Uninformative ==
  /\ Audit
  /\ UNCHANGED <<ledger, searched, notes>>

UseTool ==
  \/ \E clues \in ClueSet : Search(clues)
  \/ \E order \in Order, receivable \in Receivable \cup {NoReceivable},
        clues \in ClueSet, links \in SUBSET Source : Verify(order, receivable, clues, links)
  \/ \E order \in Order : Vambe(order)
  \/ \E record \in Source : RunSql({record})
  \/ Remember
  \/ Uninformative

-----------------------------------------------------------------------------
(* The run.                                                                *)

quiet == <<ledger, calls, world, moves, ran, searched, notes>>

\* _route: the router is sure, or the user is asked (also when it fails in one
\* of the ways the code catches), or the exception ends the run.
RouteTo(kind) ==
  /\ phase = "route"
  /\ route' = kind
  /\ phase' = "model"
  /\ UNCHANGED <<attempt, used, result, quiet, asked>>

Clarify ==
  /\ phase = "route"
  /\ route' = "general"
  /\ Return(General("completed"))
  /\ UNCHANGED <<attempt, used, quiet, asked>>

RouterRaises ==
  /\ phase = "route"
  /\ Return(Failure)
  /\ UNCHANGED <<route, attempt, used, quiet, asked>>

\* Mutant: the second specialist starts from a budget of its own.
TurnRefilled ==
  /\ phase = "model"
  /\ used < MaxTurns \/ attempt = 1
  /\ used' = IF used < MaxTurns THEN used + 1 ELSE used
  /\ asked' = IF asked > MaxTurns THEN asked ELSE asked + 1

\* TurnLimitedModel._prepare.  The SDK's own limit, max_turns, is what is left
\* of the budget when the specialist starts, so both run out together.
Turn ==
  /\ phase = "model"
  /\ used < MaxTurns
  /\ used' = used + 1
  /\ asked' = asked + 1

\* Mutant: the tools are withdrawn one turn too late.
AskToolInLastTurn ==
  /\ Turn
  /\ phase' = "tool"
  /\ UNCHANGED <<route, attempt, result, quiet>>

\* The model asks for a tool; the last turn has none to offer.
AskTool ==
  /\ Turn
  /\ used' # MaxTurns
  /\ phase' = "tool"
  /\ UNCHANGED <<route, attempt, result, quiet>>

\* A response without a tool call and without a result: the SDK asks again.
AskNothing ==
  /\ Turn
  /\ UNCHANGED <<phase, route, attempt, result, quiet>>

Fallback(reason) ==
  IF route = "general" THEN General(reason) ELSE Unknown(reason)

\* Timeout, refusal and malformed output are answers of a kind, also a tool
\* call in the last turn.
GiveUp(reason) ==
  /\ Turn
  /\ Return(Fallback(reason))
  /\ UNCHANGED <<route, attempt, quiet>>

\* Mutant: the budget may be overdrawn by one.
ExhaustedLate ==
  /\ phase = "model" /\ used > MaxTurns
  /\ Return(Fallback("turn_limit"))
  /\ UNCHANGED <<route, attempt, used, asked, quiet>>

\* MaxTurnsExceeded.
Exhausted ==
  /\ phase = "model" /\ used >= MaxTurns
  /\ Return(Fallback("turn_limit"))
  /\ UNCHANGED <<route, attempt, used, asked, quiet>>

\* Any other exception, with the calls made so far.
ProviderRaises ==
  /\ Turn
  /\ Return(Failure)
  /\ UNCHANGED <<route, attempt, quiet>>

\* The end of one round of the loop in run: the specialist's value is returned
\* unless it asks for the other route; once, and only with turns to spend, the
\* request is granted.
Conclude(value, target) ==
  /\ \/ /\ target = route
        /\ Return(value)
        /\ UNCHANGED <<route, attempt>>
     \/ /\ target # route
        /\ attempt = 1 \/ used' >= MaxTurns
        /\ Return(Unknown("turn_limit"))
        /\ UNCHANGED <<route, attempt>>
     \/ /\ target # route
        /\ attempt = 0 /\ used' < MaxTurns
        /\ route' = target
        /\ attempt' = 1
        /\ phase' = "model"
        /\ UNCHANGED result
  /\ UNCHANGED quiet

\* _run_general.
AnswerGeneral(target) ==
  /\ route = "general"
  /\ Turn
  /\ Conclude(General("completed"), target)

\* Bound: the model cites one signal or all of a candidate, its own or another's.
Citations == {{s} : s \in evidence} \cup {SignalsFor(evidence, k) : k \in Key}

\* Bound: the alternatives cite all they can.
Others == {[key |-> k, cited |-> SignalsFor(evidence, k)] : k \in verified}

\* _run_payment: the model's structured output, mapped by the application.
AnswerPayment(target) ==
  /\ route = "payment_identification"
  /\ Turn
  /\ \E others \in SUBSET Others :
       \/ \E outcome \in {"ambiguous", "no_customer_found"} :
            Conclude(MapOutput(outcome, [key |-> NoKey, cited |-> {}], others), target)
       \/ \E key \in Key, cited \in Citations :
            Conclude(MapOutput("matched", [key |-> key, cited |-> cited], others), target)

\* The replica follows its source while the run is going on: receivables and
\* customers come and go, and amounts change.
ReplicaMoves ==
  /\ phase # "done" /\ moves < MaxMoves
  /\ moves' = moves + 1
  /\ world' \in World
  /\ UNCHANGED <<phase, route, attempt, used, ledger, calls, result, asked, ran, searched, notes>>

Proceed ==
  \/ \E kind \in Route : RouteTo(kind)
  \/ Clarify \/ RouterRaises
  \/ AskTool \/ AskNothing \/ UseTool
  \/ \E reason \in {"timeout", "refusal", "invalid_output"} : GiveUp(reason)
  \/ Exhausted \/ ProviderRaises
  \/ \E target \in Route : AnswerGeneral(target) \/ AnswerPayment(target)

Next == Proceed \/ ReplicaMoves

Spec == Init /\ [][Next]_vars

\* Every provider call has a timeout and the loop is one coroutine.
FairSpec == Spec /\ WF_vars(Proceed)

-----------------------------------------------------------------------------
(* Properties.                                                             *)

\* Every variable has its type.
TypeOK ==
  /\ phase \in Phase
  /\ route \in Route
  /\ attempt \in 0..1
  /\ used \in 0..MaxTurns
  /\ evidence \subseteq Signal
  /\ verified \subseteq Key
  /\ found \in -1..Cardinality(Key)
  /\ conclusive \in BOOLEAN
  /\ sources \subseteq Source
  /\ calls \in Nat /\ ran \in Nat /\ asked \in Nat
  /\ world \in World /\ moves \in 0..MaxMoves
  /\ searched \subseteq [clues : ClueSet, met : SUBSET Key, shown : SUBSET Key]
  /\ notes \subseteq Route

\* Both specialists together are asked at most MaxTurns times, through the route
\* correction, and a tool is only run while the model can still be asked about
\* what it returned (docs/agent-behavior.md, "Read scope and budgets").
BudgetIsShared == asked <= MaxTurns /\ (phase = "tool" => asked < MaxTurns)

\* However tools were repeated, mixed and interrupted, and whatever the model
\* chose to cite, a recommended customer was verified in this run, and the
\* confidence stated is backed by all that the run observed about them: leaving
\* signals out gains nothing.
MatchIsGrounded ==
  result.outcome = "matched" =>
    LET seen == SignalsFor(evidence, result.customer) IN
    /\ result.customer \in verified
    /\ result.confidence # "unknown"
    /\ Level[result.confidence] <= Level[Confidence(seen)]

\* The ledger alone decides who can be recommended: no two models, citing what
\* they like, can get two different customers accepted on the same evidence.
MatchIsUnique ==
  phase = "model" =>
    LET accepted == {p \in Proposal(Citations) : Accepted(p)} IN
    \A p1, p2 \in accepted : Resolve(p1) = Resolve(p2)

\* "No customer" is never said when any search of the run, in either attempt and
\* before or after the replica changed, has shown a candidate, nor unless some
\* search for a precise clue met no row at all, neither shown nor cut off.
NobodyWasFound ==
  result.outcome = "no_customer_found" =>
    /\ \A s \in searched : s.shown = {}
    /\ \E s \in searched : s.clues \cap Precise # {} /\ s.met = {}

\* Every tool that ran is in the audit of the run, in both attempts and also
\* when the run fails.
AuditIsComplete == phase = "done" => result.audited = ran

\* The budget ends every investigation, whatever the model asks for.
EveryInvestigationEnds == <>(phase = "done")
=============================================================================
