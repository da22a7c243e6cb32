------------------------- MODULE InvestigationProofs -------------------------
(***************************************************************************)
(* One investigation keeps its type, its turn budget and its audit, and    *)
(* recommends only what its ledger supports, for every replica, every      *)
(* model and every budget.                                                 *)
(***************************************************************************)
EXTENDS Investigation, EvidenceProofs

\* A result has the fields of NoResult and no others.
IsResult(v) ==
  DOMAIN v = {"type", "by", "reason", "outcome", "customer", "confidence",
              "alternatives", "audited"}

\* What the ledger must say for a value to be returned.
Supported(key, confidence) ==
  /\ key \in verified
  /\ confidence # "unknown"
  /\ Level[confidence] <= Level[Confidence(SignalsFor(evidence, key))]

NothingShown == \A s \in searched : s.shown = {}
NothingMet == \E s \in searched : s.clues \cap Precise # {} /\ s.met = {}

Sound(v) ==
  /\ IsResult(v)
  /\ v.outcome = "matched" => Supported(v.customer, v.confidence)
  /\ v.outcome = "no_customer_found" => NothingShown /\ NothingMet

\* A search that showed a candidate leaves a positive count, whatever came later.
FoundIsKept == found > 0 \/ NothingShown

\* One search that met no row is behind the conclusion.
ConclusiveIsBacked == conclusive => NothingMet

Typed ==
  /\ phase \in Phase /\ route \in Route /\ attempt \in 0..1
  /\ evidence \subseteq Signal /\ IsFiniteSet(evidence) /\ verified \subseteq Key
  /\ found \in -1..Cardinality(Key) /\ conclusive \in BOOLEAN /\ sources \subseteq Source
  /\ moves \in 0..MaxMoves /\ notes \subseteq Route
  /\ world \in World
  /\ searched \subseteq [clues : ClueSet, met : SUBSET Key, shown : SUBSET Key]

\* Turns are counted once, and a tool runs before the last one.
Budgeted ==
  /\ used \in 0..MaxTurns /\ asked = used
  /\ phase = "tool" => used < MaxTurns

\* Every tool that ran is a call; the end takes the calls along.
Audited ==
  /\ calls \in Nat /\ ran = calls
  /\ phase = "done" => result.audited = calls

\* Until the end there is no result, and the end has one the ledger supports.
Resulting ==
  /\ phase # "done" => result = NoResult
  /\ Sound(result)

IInv == Typed /\ Budgeted /\ Audited /\ FoundIsKept /\ ConclusiveIsBacked /\ Resulting

-----------------------------------------------------------------------------
(* Evidence.                                                               *)

\* The signals that one call can register.
SignalsOf(n) == {[call |-> n, kind |-> kind, key |-> key] : kind \in Kind, key \in Key}

LEMMA SignalsOfOneCall ==
  ASSUME NEW n
  PROVE  IsFiniteSet(SignalsOf(n))
<1> DEFINE T == SignalsOf(n)
           f == [x \in Kind \X Key |-> [call |-> n, kind |-> x[1], key |-> x[2]]]
<1>1. IsFiniteSet(Kind \X Key)
  BY KindFinite, KeyFinite, FS_Product
<1>2. f \in [Kind \X Key -> T]
  BY DEF SignalsOf
<1>3. \A t \in T : \E x \in Kind \X Key : f[x] = t
  <2>1. TAKE t \in T
  <2>2. PICK kind \in Kind, key \in Key : t = [call |-> n, kind |-> kind, key |-> key]
    BY DEF SignalsOf
  <2>3. <<kind, key>> \in Kind \X Key /\ f[<<kind, key>>] = t
    BY <2>2
  <2> QED
    BY <2>3
<1>4. f \in Surjection(Kind \X Key, T)
  BY <1>2, <1>3 DEF Surjection
<1> QED
  BY <1>1, <1>4, FS_Surjection

\* The signals a tool registers belong to this call and to the rows it showed.
LEMMA SignalsTyped ==
  ASSUME Typed, calls \in Nat, NEW keys \in SUBSET Key, NEW clues
  PROVE  /\ Signals(keys, clues) \subseteq Signal
         /\ \A s \in Signals(keys, clues) : s.key \in keys
         /\ IsFiniteSet(Signals(keys, clues))
<1>1. \A k \in keys : KindsOf(k, world.profile[k], clues) \subseteq Kind
  BY KindsKnown, WorldAssumption DEF Typed
<1>2. Signals(keys, clues) \subseteq Signal /\ \A s \in Signals(keys, clues) : s.key \in keys
  BY <1>1 DEF Signals, Signal
<1>3. IsFiniteSet(SignalsOf(calls + 1))
  BY SignalsOfOneCall
<1>4. Signals(keys, clues) \subseteq SignalsOf(calls + 1)
  BY <1>1 DEF Signals, SignalsOf
<1> QED
  BY <1>2, <1>3, <1>4, FS_Subset

-----------------------------------------------------------------------------
(* The mapping of the model's word.                                        *)

\* An accepted proposal resolves to a key that was verified.
LEMMA ResolvedIsVerified ==
  ASSUME NEW proposal, Resolve(proposal) # NoKey
  PROVE  Resolve(proposal) \in verified
<1> DEFINE same == {k \in verified : k[1] = proposal.key[1]}
<1>1. CASE proposal.key \in verified
  BY <1>1 DEF Resolve
<1>2. CASE /\ proposal.key \notin verified
           /\ proposal.key[2] = NoReceivable /\ Cardinality(same) = 1
  <2>1. same # {}
    BY <1>2, FS_EmptySet
  <2>2. (CHOOSE k \in same : TRUE) \in same
    BY <2>1
  <2> QED
    BY <1>2, <2>2 DEF Resolve
<1>3. CASE /\ proposal.key \notin verified
           /\ ~(proposal.key[2] = NoReceivable /\ Cardinality(same) = 1)
  BY <1>3 DEF Resolve
<1> QED
  BY <1>1, <1>2, <1>3

\* Citing less than was seen hides no contradiction and invents no support.
LEMMA GroundedIsSupported ==
  ASSUME NEW proposal, NEW key \in verified, Cites(proposal, key),
         Confidence(Grounded(proposal, key)) # "unknown"
  PROVE  Supported(key, Confidence(Grounded(proposal, key)))
<1> DEFINE seen == SignalsFor(evidence, key)
           grounded == Grounded(proposal, key)
<1>1. grounded \subseteq seen /\ Contradicting(seen) \subseteq grounded
  BY DEF Grounded, Contradicting, Cites
<1> HIDE DEF seen, grounded
<1>2. Level[Confidence(grounded)] <= Level[Confidence(seen)]
  BY <1>1, CitingLessGainsNothing
<1> QED
  BY <1>2 DEF Supported, seen, grounded

\* The values that name nobody need no support.
LEMMA PlainResultsSound ==
  ASSUME NEW reason, NEW proposals
  PROVE  /\ Sound(General(reason)) /\ Sound(Unknown(reason)) /\ Sound(Ambiguous(proposals))
         /\ Sound(Failure) /\ Sound(NoResult)
<1> USE DEF NoResult, Sound, IsResult
<1>1. Sound(General(reason))
  BY DEF General
<1>2. Sound(Unknown(reason))
  BY DEF Unknown
<1>3. Sound(Ambiguous(proposals))
  BY DEF Ambiguous, Unknown
<1>4. Sound(Failure)
  BY DEF Failure
<1>5. Sound(NoResult)
  OBVIOUS
<1> QED
  BY <1>1, <1>2, <1>3, <1>4, <1>5

\* Whatever the model says, the mapped result is one the ledger supports.
LEMMA MapOutputSound ==
  ASSUME FoundIsKept, ConclusiveIsBacked, NEW outcome, NEW proposal, NEW others
  PROVE  Sound(MapOutput(outcome, proposal, others))
<1>3. CASE outcome = "matched" /\ Accepted(proposal)
  <2> DEFINE key == Resolve(proposal)
             v == MapOutput(outcome, proposal, others)
  <2>1. v = [Unknown("completed") EXCEPT
               !.outcome = "matched", !.customer = key,
               !.confidence = Confidence(Grounded(proposal, key))]
    BY <1>3 DEF MapOutput
  <2>2. /\ IsResult(v) /\ v.outcome = "matched" /\ v.customer = key
        /\ v.confidence = Confidence(Grounded(proposal, key))
    BY <2>1 DEF Unknown, IsResult, NoResult
  <2>3. key \in verified
    BY <1>3, ResolvedIsVerified DEF Accepted
  <2>4. Supported(key, Confidence(Grounded(proposal, key)))
    BY <1>3, <2>3, GroundedIsSupported DEF Accepted
  <2> QED
    BY <2>2, <2>4 DEF Sound
<1>4. CASE outcome = "matched" /\ ~Accepted(proposal)
  <2>1. MapOutput(outcome, proposal, others) = Ambiguous(others \cup {proposal})
    BY <1>4 DEF MapOutput
  <2> QED
    BY <2>1, PlainResultsSound
<1>5. CASE outcome = "no_customer_found" /\ NotFound
  <2>1. MapOutput(outcome, proposal, others)
          = [Unknown("completed") EXCEPT !.outcome = "no_customer_found"]
    BY <1>5 DEF MapOutput
  <2>2. NothingShown /\ NothingMet
    BY <1>5 DEF FoundIsKept, ConclusiveIsBacked, NotFound
  <2> QED
    BY <2>1, <2>2 DEF Sound, Unknown, IsResult, NoResult
<1>6. CASE outcome # "matched" /\ ~(outcome = "no_customer_found" /\ NotFound)
  <2>1. MapOutput(outcome, proposal, others) = Ambiguous(others)
    BY <1>6 DEF MapOutput
  <2> QED
    BY <2>1, PlainResultsSound
<1> QED
  BY <1>3, <1>4, <1>5, <1>6

-----------------------------------------------------------------------------
(* Tools.                                                                  *)

\* What all tools do besides their entries in the ledger.
LEMMA AuditStep ==
  ASSUME IInv, Audit
  PROVE  /\ Budgeted' /\ Audited' /\ Resulting'
         /\ phase' \in Phase /\ route' \in Route /\ attempt' \in 0..1 /\ moves' \in 0..MaxMoves
         /\ world' = world
<1> USE DEF IInv, Audit
<1>1. Budgeted'
  BY TurnsAssumption DEF Budgeted
<1>2. Audited'
  BY DEF Audited
<1>3. result = NoResult /\ result' = NoResult
  BY DEF Resulting
<1>4. Sound(result)'
  BY <1>3 DEF Sound, IsResult, NoResult
<1> QED
  BY <1>1, <1>2, <1>3, <1>4 DEF Resulting, Typed, Phase

\* The searches of a run are remembered, and so is what they were.
LEMMA LedgerKept ==
  ASSUME IInv, UNCHANGED <<found, conclusive, searched>>
  PROVE  FoundIsKept' /\ ConclusiveIsBacked'
BY DEF IInv, FoundIsKept, ConclusiveIsBacked, NothingShown, NothingMet

LEMMA SearchStep ==
  ASSUME IInv, NEW clues \in ClueSet, Search(clues)
  PROVE  IInv'
<1> DEFINE p == world.profile
           useful(keys) == {k \in keys : Meaningful(KindsOf(k, p[k], clues))}
           rows == {k \in world.rows : k[2] # NoReceivable /\ ReceivableFoundBy(p[k], clues)}
           identities == {k \in world.rows : k[2] = NoReceivable /\ IdentityFoundBy(p[k], clues)}
<1>1. Audit /\ UNCHANGED <<verified, sources, notes>>
  BY DEF Search
<1>2. PICK shown \in Shown(rows), others \in Shown(identities) :
        LET eligible == useful(shown)
            candidates == eligible \cup
              {k \in useful(others) : \A e \in eligible : e[1] # k[1]}
            complete == clues \cap Precise # {} /\ rows = {} /\ identities = {}
        IN /\ evidence' = evidence \cup Signals(candidates, clues)
           /\ CountSearch(Cardinality(candidates))
           /\ conclusive' = (conclusive \/ complete)
           /\ searched' = searched \cup
                {[clues |-> clues, met |-> rows \cup identities, shown |-> candidates]}
  BY DEF Search
<1> DEFINE eligible == useful(shown)
           candidates == eligible \cup
             {k \in useful(others) : \A e \in eligible : e[1] # k[1]}
           this == [clues |-> clues, met |-> rows \cup identities, shown |-> candidates]
<1>3. rows \subseteq Key /\ identities \subseteq Key
  BY WorldAssumption DEF IInv, Typed
<1>4. shown \subseteq rows /\ others \subseteq identities
  BY DEF Shown
<1>5. candidates \subseteq Key
  BY <1>3, <1>4
<1>6. /\ evidence' = evidence \cup Signals(candidates, clues)
      /\ CountSearch(Cardinality(candidates))
      /\ conclusive' \in BOOLEAN
      /\ conclusive' =>
           conclusive \/ (clues \cap Precise # {} /\ rows = {} /\ identities = {})
      /\ searched' = searched \cup {this}
  BY <1>2 DEF IInv, Typed
<1>12. /\ this \in [clues : ClueSet, met : SUBSET Key, shown : SUBSET Key]
       /\ this.clues = clues /\ this.shown = candidates /\ this.met = rows \cup identities
  BY <1>3, <1>5
<1> HIDE DEF candidates, eligible, rows, identities, this
<1>7. Signals(candidates, clues) \subseteq Signal /\ IsFiniteSet(Signals(candidates, clues))
  BY <1>5, SignalsTyped DEF IInv, Audited
<1>8. /\ Cardinality(candidates) \in 0..Cardinality(Key)
      /\ Cardinality(candidates) = 0 <=> candidates = {}
      /\ Cardinality(Key) \in Nat
  BY <1>5, KeyFinite, FS_Subset, FS_CardinalityType, FS_EmptySet
<1>9. found' \in -1..Cardinality(Key) /\ found' >= found /\ found' >= Cardinality(candidates)
  BY <1>6, <1>8 DEF CountSearch, IInv, Typed
<1>10. Typed'
  <2>1. IsFiniteSet(evidence')
    BY <1>6, <1>7, FS_Union DEF IInv, Typed
  <2> QED
    BY <2>1, <1>1, <1>6, <1>7, <1>9, <1>12, AuditStep DEF IInv, Typed
<1>11. FoundIsKept'
  <2>1. CASE candidates = {}
    BY <2>1, <1>6, <1>8, <1>9, <1>12 DEF IInv, Typed, FoundIsKept, NothingShown
  <2>2. CASE candidates # {}
    BY <2>2, <1>8, <1>9 DEF FoundIsKept
  <2> QED
    BY <2>1, <2>2
<1>13. ConclusiveIsBacked'
  BY <1>6, <1>12 DEF IInv, ConclusiveIsBacked, NothingMet
<1> QED
  BY <1>1, <1>10, <1>11, <1>13, AuditStep DEF IInv

LEMMA VerifyStep ==
  ASSUME IInv, NEW order \in Order, NEW receivable \in Receivable \cup {NoReceivable},
         NEW clues, NEW links, Verify(order, receivable, clues, links)
  PROVE  IInv'
<1> DEFINE keys == VerifiedRows(order, receivable)
           linked == {s \in links : world.link[s] = order}
           fragments == IF linked # {} /\ clues \cap {"glosa", "transferor"} # {}
                        THEN {[call |-> calls + 1, kind |-> "name_fragment", key |-> k] : k \in keys}
                        ELSE {}
           added == Signals(keys, clues \cap {"glosa", "transferor", "amount"}) \cup fragments
<1>1. /\ Audit
      /\ evidence' = evidence \cup added
      /\ verified' = verified \cup keys
      /\ UNCHANGED <<found, conclusive, sources, searched, notes>>
  BY DEF Verify, RememberVerified
<1>2. keys \subseteq Key
  BY WorldAssumption DEF VerifiedRows, IInv, Typed
<1>3. added \subseteq Signal /\ IsFiniteSet(added) /\ \A s \in added : s.key \in keys
  <2>1. /\ Signals(keys, clues \cap {"glosa", "transferor", "amount"}) \subseteq Signal
        /\ \A s \in Signals(keys, clues \cap {"glosa", "transferor", "amount"}) : s.key \in keys
        /\ IsFiniteSet(Signals(keys, clues \cap {"glosa", "transferor", "amount"}))
    BY <1>2, SignalsTyped DEF IInv, Audited
  <2>2. fragments \subseteq Signal /\ \A s \in fragments : s.key \in keys
    BY <1>2 DEF Signal, Kind, Support, IInv, Audited
  <2>3. IsFiniteSet(fragments)
    <3>1. fragments \subseteq SignalsOf(calls + 1)
      BY <1>2 DEF SignalsOf, Kind, Support
    <3>2. IsFiniteSet(SignalsOf(calls + 1))
      BY SignalsOfOneCall
    <3> QED
      BY <3>1, <3>2, FS_Subset
  <2> QED
    BY <2>1, <2>2, <2>3, FS_Union
<1> HIDE DEF keys, added
<1>4. Typed'
  <2>1. IsFiniteSet(evidence')
    BY <1>1, <1>3, FS_Union DEF IInv, Typed
  <2> QED
    BY <2>1, <1>1, <1>2, <1>3, AuditStep DEF IInv, Typed
<1> QED
  BY <1>1, <1>4, AuditStep, LedgerKept DEF IInv

LEMMA ToolStep ==
  ASSUME IInv, UseTool
  PROVE  IInv'
<1>1. CASE \E order \in Order : Vambe(order)
  <2>1. PICK order \in Order : Vambe(order)
    BY <1>1
  <2> DEFINE mention == [call |-> calls + 1, kind |-> "vambe_mention", key |-> <<order, NoReceivable>>]
  <2>2. mention \in Signal
    BY DEF Signal, Kind, Support, Key, IInv, Audited
  <2>3. Audit /\ evidence' = evidence \cup {mention} /\ UNCHANGED <<verified, found, conclusive, sources, searched, notes>>
    BY <2>1 DEF Vambe
  <2>4. Typed'
    <3>1. IsFiniteSet(evidence')
      BY <2>3, FS_AddElement DEF IInv, Typed
    <3> QED
      BY <3>1, <2>2, <2>3, AuditStep DEF IInv, Typed
  <2> QED
    BY <2>3, <2>4, AuditStep, LedgerKept DEF IInv
<1>2. CASE \E record \in Source : RunSql({record})
  <2>1. /\ Audit /\ sources' \subseteq Source
        /\ UNCHANGED <<evidence, verified, found, conclusive, searched, notes>>
    BY <1>2 DEF RunSql, IInv, Typed
  <2> QED
    BY <2>1, AuditStep, LedgerKept DEF IInv, Typed
<1>3. CASE Remember \/ Uninformative
  <2>1. Audit /\ notes' \subseteq Route /\ UNCHANGED <<ledger, searched>>
    BY <1>3 DEF Remember, Uninformative, IInv, Typed
  <2> QED
    BY <2>1, AuditStep, LedgerKept DEF IInv, Typed, ledger
<1> QED
  BY <1>1, <1>2, <1>3, SearchStep, VerifyStep DEF UseTool

-----------------------------------------------------------------------------
(* The run.                                                                *)

\* The last step of a run, with a value the ledger supports.
LEMMA ReturnStep ==
  ASSUME IInv, NEW value, Sound(value), Return(value), UNCHANGED <<quiet, attempt>>,
         route' \in Route, used' \in 0..MaxTurns, asked' = used'
  PROVE  IInv'
<1> USE DEF quiet, ledger, Return
<1>1. /\ result'.outcome = value.outcome /\ result'.customer = value.customer
      /\ result'.confidence = value.confidence /\ result'.audited = calls
      /\ IsResult(result')
  BY DEF Sound, IsResult
<1>2. Sound(result)'
  BY <1>1 DEF IInv, Sound, Supported, NothingShown, NothingMet, IsResult
<1>3. Audited'
  BY <1>1 DEF IInv, Audited
<1>4. Typed' /\ FoundIsKept' /\ ConclusiveIsBacked'
  BY LedgerKept DEF IInv, Typed, Phase
<1> QED
  BY <1>2, <1>3, <1>4 DEF IInv, Budgeted, Resulting

\* A step that leaves the ledger and the result alone.
LEMMA QuietStep ==
  ASSUME IInv, UNCHANGED <<quiet, result>>, phase # "done",
         phase' \in {"model", "tool"}, route' \in Route, attempt' \in 0..1,
         used' \in 0..MaxTurns, asked' = used', phase' = "tool" => used' < MaxTurns
  PROVE  IInv'
<1> USE DEF quiet, ledger
<1>1. Typed' /\ FoundIsKept' /\ ConclusiveIsBacked'
  BY LedgerKept DEF IInv, Typed, Phase
<1>2. result = NoResult /\ Sound(result)'
  BY DEF IInv, Resulting, Sound, IsResult, NoResult
<1> QED
  BY <1>1, <1>2 DEF IInv, Budgeted, Audited, Resulting

LEMMA TurnStep ==
  ASSUME IInv, Turn
  PROVE  used' \in 0..MaxTurns /\ asked' = used' /\ phase = "model"
BY TurnsAssumption DEF IInv, Budgeted, Turn

LEMMA ConcludeStep ==
  ASSUME IInv, Turn, NEW value, Sound(value), NEW target \in Route, Conclude(value, target)
  PROVE  IInv'
<1> USE TurnStep
<1>1. CASE Return(value) /\ UNCHANGED <<route, attempt>>
  BY <1>1, ReturnStep DEF Conclude, IInv, Typed
<1>2. CASE Return(Unknown("turn_limit")) /\ UNCHANGED <<route, attempt>>
  BY <1>2, ReturnStep, PlainResultsSound DEF Conclude, IInv, Typed
<1>3. CASE route' = target /\ attempt' = 1 /\ phase' = "model" /\ UNCHANGED result
  BY <1>3, QuietStep DEF Conclude
<1> QED
  BY <1>1, <1>2, <1>3 DEF Conclude

LEMMA InvariantInit == Init => IInv
<1> SUFFICES ASSUME Init PROVE IInv
  OBVIOUS
<1> USE DEF Init
<1>1. Cardinality(Key) \in Nat
  BY KeyFinite, FS_CardinalityType
<1>2. Typed
  <2>2. found \in -1..Cardinality(Key) /\ moves \in 0..MaxMoves
    BY <1>1, TurnsAssumption
  <2>3. phase \in Phase /\ route \in Route /\ attempt \in 0..1
    BY DEF Phase, Route
  <2>4. evidence \subseteq Signal /\ IsFiniteSet(evidence) /\ verified \subseteq Key
    BY FS_EmptySet
  <2>5. conclusive \in BOOLEAN /\ sources \subseteq Source /\ notes \subseteq Route
    OBVIOUS
  <2> QED
    BY <2>2, <2>3, <2>4, <2>5 DEF Typed
<1>3. Sound(result)
  BY PlainResultsSound
<1> QED
  BY <1>2, <1>3, TurnsAssumption
     DEF IInv, Budgeted, Audited, FoundIsKept, NothingShown, ConclusiveIsBacked, Resulting

LEMMA InvariantStep ==
  ASSUME IInv, [Next]_vars
  PROVE  IInv'
<1>1. ASSUME NEW kind \in Route, RouteTo(kind) PROVE IInv'
  BY <1>1, QuietStep DEF RouteTo, IInv, Budgeted, Typed
<1>2. CASE Clarify
  BY <1>2, ReturnStep, PlainResultsSound DEF Clarify, IInv, Budgeted, Route
<1>3. CASE RouterRaises
  BY <1>3, ReturnStep, PlainResultsSound DEF RouterRaises, IInv, Budgeted, Typed
<1>4. CASE AskTool
  <2>1. used' < MaxTurns
    BY <1>4, TurnStep, TurnsAssumption DEF AskTool
  <2> QED
    BY <1>4, <2>1, TurnStep, QuietStep DEF AskTool, IInv, Typed
<1>5. CASE AskNothing
  BY <1>5, TurnStep, QuietStep DEF AskNothing, IInv, Typed
<1>6. CASE UseTool
  BY <1>6, ToolStep
<1>7. ASSUME NEW reason \in {"timeout", "refusal", "invalid_output"}, GiveUp(reason) PROVE IInv'
  <2>1. Sound(Fallback(reason))
    BY PlainResultsSound DEF Fallback
  <2> QED
    BY <1>7, <2>1, TurnStep, ReturnStep DEF GiveUp, IInv, Typed
<1>8. CASE Exhausted
  <2>1. Sound(Fallback("turn_limit"))
    BY PlainResultsSound DEF Fallback
  <2> QED
    BY <1>8, <2>1, ReturnStep DEF Exhausted, IInv, Typed, Budgeted
<1>9. CASE ProviderRaises
  BY <1>9, TurnStep, ReturnStep, PlainResultsSound DEF ProviderRaises, IInv, Typed
<1>10. ASSUME NEW target \in Route, AnswerGeneral(target) PROVE IInv'
  BY <1>10, ConcludeStep, PlainResultsSound DEF AnswerGeneral
<1>11. ASSUME NEW target \in Route, AnswerPayment(target) PROVE IInv'
  <2>1. \A outcome, proposal, others : Sound(MapOutput(outcome, proposal, others))
    BY MapOutputSound DEF IInv
  <2>2. PICK outcome, proposal, others : Turn /\ Conclude(MapOutput(outcome, proposal, others), target)
    BY <1>11 DEF AnswerPayment
  <2> QED
    BY <2>1, <2>2, ConcludeStep
<1>12. CASE ReplicaMoves
  <2>2. Typed' /\ FoundIsKept' /\ ConclusiveIsBacked'
    BY <1>12, LedgerKept, TurnsAssumption DEF ReplicaMoves, IInv, Typed, ledger
  <2>3. result = NoResult /\ Sound(result)'
    BY <1>12 DEF ReplicaMoves, IInv, Resulting, Sound, IsResult, NoResult
  <2> QED
    BY <1>12, <2>2, <2>3 DEF ReplicaMoves, ledger, IInv, Budgeted, Audited, Resulting
<1>13. CASE UNCHANGED vars
  BY <1>13, LedgerKept
     DEF vars, ledger, IInv, Typed, Budgeted, Audited, Resulting, Sound, Supported, NothingShown,
         NothingMet
<1> QED
  BY <1>1, <1>2, <1>3, <1>4, <1>5, <1>6, <1>7, <1>8, <1>9, <1>10, <1>11, <1>12, <1>13
     DEF Next, Proceed

LEMMA Invariant == Spec => []IInv
<1>1. Init => IInv
  BY InvariantInit
<1>2. IInv /\ [Next]_vars => IInv'
  BY InvariantStep
<1> QED
  BY <1>1, <1>2, PTL DEF Spec

\* Every reachable state of an investigation is well typed.
THEOREM TypeCorrect == Spec => []TypeOK
<1>1. IInv => TypeOK
  BY DEF IInv, Typed, Budgeted, Audited, TypeOK
<1> QED
  BY <1>1, Invariant, PTL

\* Both specialists together ask at most MaxTurns times, and a tool is run only
\* while a turn is left to use what it returns (agent/turns.py).
THEOREM BudgetKept == Spec => []BudgetIsShared
<1>1. IInv => BudgetIsShared
  BY DEF IInv, Budgeted, BudgetIsShared
<1> QED
  BY <1>1, Invariant, PTL

\* A recommended customer was verified, and the confidence stated is backed by all
\* that the run observed, whatever the model cites (_map_output).
THEOREM Grounding == Spec => []MatchIsGrounded
<1>1. IInv => MatchIsGrounded
  BY DEF IInv, Resulting, Sound, Supported, MatchIsGrounded
<1> QED
  BY <1>1, Invariant, PTL

\* A run says "no customer" only if no search of it has ever shown a candidate and
\* one for a precise clue met no row, however the replica changes meanwhile
\* (agent/openai_runner.py _register_observation, _map_output).
THEOREM NobodyHidden == Spec => []NobodyWasFound
<1>1. IInv => NobodyWasFound
  BY DEF IInv, Resulting, Sound, NothingShown, NothingMet, NobodyWasFound
<1> QED
  BY <1>1, Invariant, PTL

\* The audit of a finished or failed run holds every tool that ran (run).
THEOREM AuditKept == Spec => []AuditIsComplete
<1>1. IInv => AuditIsComplete
  BY DEF IInv, Audited, AuditIsComplete
<1> QED
  BY <1>1, Invariant, PTL

\* On one ledger no two proposals for different customers are accepted, for
\* precedence is total and each would have to come strictly first (_map_output).
THEOREM Uniqueness == Spec => []MatchIsUnique
<1>1. IInv => MatchIsUnique
  <2> SUFFICES ASSUME IInv, NEW p1, NEW p2, Accepted(p1), Accepted(p2),
                      Resolve(p1) # Resolve(p2)
               PROVE  FALSE
    BY DEF MatchIsUnique
  <2> DEFINE k1 == Resolve(p1)
             k2 == Resolve(p2)
             r1 == Rank(SignalsFor(evidence, k1))
             r2 == Rank(SignalsFor(evidence, k2))
  <2>1. k1 \in verified /\ k2 \in verified
    BY ResolvedIsVerified DEF Accepted
  <2>2. ~AtLeast(r2, r1) /\ ~AtLeast(r1, r2)
    BY <2>1 DEF Accepted, Competes
  <2>3. \A k : IsFiniteSet(SignalsFor(evidence, k))
    BY FS_Subset DEF SignalsFor, IInv, Typed
  <2>4. r1 \in [1..8 -> Int] /\ r2 \in [1..8 -> Int]
    BY <2>3, RankTyped
  <2> QED
    BY <2>2, <2>4, PrecedenceTotal
<1> QED
  BY <1>1, Invariant, PTL
=============================================================================
