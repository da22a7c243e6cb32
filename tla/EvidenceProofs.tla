--------------------------- MODULE EvidenceProofs ---------------------------
(***************************************************************************)
(* What holds of the signals, the confidence and the precedence of         *)
(* Evidence for every row, every combination of clues and every set of     *)
(* signals.                                                                *)
(***************************************************************************)
EXTENDS Evidence, FiniteSetTheorems, TLAPS

-----------------------------------------------------------------------------
(* Finitely many orders have finitely many keys, kinds and ranks.          *)

LEMMA KeyFinite == IsFiniteSet(Key)
<1>1. IsFiniteSet({NoReceivable})
  BY FS_Singleton
<1>2. IsFiniteSet(Receivable \cup {NoReceivable})
  BY <1>1, FS_Union, KeyAssumption
<1> QED
  BY <1>2, FS_Product, KeyAssumption DEF Key

\* A run has finitely many kinds of evidence.
LEMMA SmallSetsFinite ==
  \A a, b, c : IsFiniteSet({a, b, c}) /\ IsFiniteSet({a, b}) /\ IsFiniteSet({a})
<1> SUFFICES ASSUME NEW a, NEW b, NEW c
             PROVE  IsFiniteSet({a, b, c}) /\ IsFiniteSet({a, b}) /\ IsFiniteSet({a})
  OBVIOUS
<1>1. IsFiniteSet({a})
  BY FS_Singleton
<1>2. IsFiniteSet({a} \cup {b})
  BY <1>1, FS_AddElement
<1>3. IsFiniteSet(({a} \cup {b}) \cup {c})
  BY <1>2, FS_AddElement
<1>4. {a} \cup {b} = {a, b} /\ ({a} \cup {b}) \cup {c} = {a, b, c}
  OBVIOUS
<1> QED
  BY <1>1, <1>2, <1>3, <1>4

LEMMA KindFinite == IsFiniteSet(Kind) /\ IsFiniteSet(DirectIdentity)
<1>1. IsFiniteSet(DirectIdentity)
  BY SmallSetsFinite, FS_Union DEF DirectIdentity, Identifier
<1>2. IsFiniteSet(Contradiction)
  BY SmallSetsFinite, FS_Union DEF Contradiction, HardContradiction
<1> DEFINE rest == ({"exact_address", "partial_address", "name_fragment"}
                    \cup {"exact_outstanding", "partial_payment", "vambe_context"}) \cup {"vambe_mention"}
<1>3. IsFiniteSet({"exact_address", "partial_address", "name_fragment"}
                  \cup {"exact_outstanding", "partial_payment", "vambe_context"})
  BY SmallSetsFinite, FS_Union
<1>4. IsFiniteSet(rest)
  BY <1>3, FS_AddElement
<1>5. IsFiniteSet(DirectIdentity \cup BankIdentity)
  BY <1>1, SmallSetsFinite, FS_Union DEF BankIdentity
<1>6. IsFiniteSet((DirectIdentity \cup BankIdentity) \cup rest)
  BY <1>4, <1>5, FS_Union
<1>7. Support = (DirectIdentity \cup BankIdentity) \cup rest
  BY DEF Support
<1> HIDE DEF rest
<1>8. IsFiniteSet(Support \cup Contradiction)
  BY <1>2, <1>6, <1>7, FS_Union
<1> QED
  BY <1>1, <1>8 DEF Kind

\* A row yields signals of the known kinds only.
LEMMA KindsKnown ==
  ASSUME NEW p \in Profile, NEW key, NEW clues
  PROVE  KindsOf(key, p, clues) \subseteq Kind
<1> USE DEF Profile, Kind, Support, Contradiction, HardContradiction, DirectIdentity,
        Identifier, BankIdentity
<1>1. NameKind(p.name) \subseteq Kind /\ NameKind(p.glosa) \subseteq Kind
  BY DEF NameKind
<1>2. AddressKind(p) \subseteq Kind
  BY <1>1 DEF AddressKind
<1>3. TransferorKind(p) \subseteq Kind
  <2>1. CASE p.name \in {"customer", "signee"}
    BY <2>1, <1>1 DEF TransferorKind
  <2>2. CASE p.name \notin {"customer", "signee"} /\ p.bank
    BY <2>2 DEF TransferorKind
  <2>3. CASE p.name = "fragment" /\ ~p.bank
    BY <2>3 DEF TransferorKind
  <2>4. CASE p.name = "none" /\ ~p.bank
    BY <2>4 DEF TransferorKind
  <2> QED
    BY <2>1, <2>2, <2>3, <2>4
<1>4. AmountKind(p) \subseteq Kind
  BY DEF AmountKind
<1>5. IdentifierKind(p, clues) \subseteq Kind
  BY DEF IdentifierKind
<1>6. CandidateKinds(p, clues) \subseteq Kind
  BY <1>2, <1>3, <1>4, <1>5 DEF CandidateKinds
<1>7. IdentityKinds(p, clues) \subseteq Kind
  BY <1>1, <1>2 DEF IdentityKinds
<1> QED
  BY <1>6, <1>7 DEF KindsOf

-----------------------------------------------------------------------------
(* The precedence of evidence.                                             *)

\* Precedence is total: of two different rankings one comes first.
LEMMA PrecedenceTotal ==
  ASSUME NEW r \in [1..8 -> Int], NEW s \in [1..8 -> Int]
  PROVE  AtLeast(r, s) \/ AtLeast(s, r)
<1> SUFFICES ASSUME ~Precedes(r, s), ~Precedes(s, r)
             PROVE  r = s
  BY DEF AtLeast
<1>0. \A i \in 1..8 : (\A j \in 1..8 : j < i => r[j] = s[j]) => r[i] = s[i]
  BY DEF Precedes
<1>1. r[1] = s[1]
  BY <1>0
<1>2. r[2] = s[2]
  BY <1>0, <1>1
<1>3. r[3] = s[3]
  BY <1>0, <1>1, <1>2
<1>4. r[4] = s[4]
  BY <1>0, <1>1, <1>2, <1>3
<1>5. r[5] = s[5]
  BY <1>0, <1>1, <1>2, <1>3, <1>4
<1>6. r[6] = s[6]
  BY <1>0, <1>1, <1>2, <1>3, <1>4, <1>5
<1>7. r[7] = s[7]
  BY <1>0, <1>1, <1>2, <1>3, <1>4, <1>5, <1>6
<1>8. r[8] = s[8]
  BY <1>0, <1>1, <1>2, <1>3, <1>4, <1>5, <1>6, <1>7
<1>9. \A i \in 1..8 : r[i] = s[i]
  BY <1>1, <1>2, <1>3, <1>4, <1>5, <1>6, <1>7, <1>8
<1> QED
  BY <1>9

\* The rank of finitely many signals consists of integers.
LEMMA RankTyped ==
  ASSUME NEW signals, IsFiniteSet(signals)
  PROVE  Rank(signals) \in [1..8 -> Int]
<1> DEFINE direct == Supporting(signals) \cap DirectIdentity
<1>1. Cardinality(direct) \in Nat
  BY KindFinite, FS_Subset, FS_CardinalityType
<1>2. Cardinality(Contradicting(signals)) \in Nat
  BY FS_Subset, FS_CardinalityType DEF Contradicting
<1>3. \A p : Holds(p) \in Int
  BY DEF Holds
<1> HIDE DEF direct
<1>4. 0 - Cardinality(Contradicting(signals)) \in Int /\ Cardinality(direct) \in Int
  BY <1>1, <1>2
<1> QED
  BY <1>3, <1>4 DEF Rank, direct

\* Precedence is a strict order.
LEMMA PrecedenceStrict ==
  ASSUME NEW r \in [1..8 -> Int], NEW s \in [1..8 -> Int], NEW t \in [1..8 -> Int]
  PROVE  /\ ~Precedes(r, r)
         /\ Precedes(r, s) /\ Precedes(s, t) => Precedes(r, t)
<1>1. ~Precedes(r, r)
  BY DEF Precedes
<1>2. ASSUME Precedes(r, s), Precedes(s, t)
      PROVE  Precedes(r, t)
  <2>1. PICK i \in 1..8 : r[i] < s[i] /\ \A k \in 1..8 : k < i => r[k] = s[k]
    BY <1>2 DEF Precedes
  <2>2. PICK j \in 1..8 : s[j] < t[j] /\ \A k \in 1..8 : k < j => s[k] = t[k]
    BY <1>2 DEF Precedes
  <2>3. CASE i < j
    <3>1. r[i] < t[i] /\ \A k \in 1..8 : k < i => r[k] = t[k]
      BY <2>1, <2>2, <2>3
    <3> QED
      BY <3>1 DEF Precedes
  <2>4. CASE j <= i
    <3>1. r[j] <= s[j]
      BY <2>1, <2>4
    <3>2. r[j] < t[j] /\ \A k \in 1..8 : k < j => r[k] = t[k]
      BY <2>1, <2>2, <2>4, <3>1
    <3> QED
      BY <3>2 DEF Precedes
  <2> QED
    BY <2>3, <2>4
<1> QED
  BY <1>1, <1>2

\* "Comes first" is a total order on what signals can be ranked: the comparison of
\* candidates has a result for any two, and no cycle (agent/openai_runner.py _rank).
THEOREM PrecedenceIsTotalOrder ==
  ASSUME NEW a, NEW b, NEW c,
         IsFiniteSet(a), IsFiniteSet(b), IsFiniteSet(c)
  PROVE  /\ AtLeast(Rank(a), Rank(b)) \/ AtLeast(Rank(b), Rank(a))
         /\ AtLeast(Rank(a), Rank(b)) /\ AtLeast(Rank(b), Rank(a)) => Rank(a) = Rank(b)
         /\ AtLeast(Rank(a), Rank(b)) /\ AtLeast(Rank(b), Rank(c)) => AtLeast(Rank(a), Rank(c))
<1>1. Rank(a) \in [1..8 -> Int] /\ Rank(b) \in [1..8 -> Int] /\ Rank(c) \in [1..8 -> Int]
  BY RankTyped
<1>2. AtLeast(Rank(a), Rank(b)) \/ AtLeast(Rank(b), Rank(a))
  BY <1>1, PrecedenceTotal
<1>3. ~(Precedes(Rank(a), Rank(b)) /\ Precedes(Rank(b), Rank(a)))
  BY <1>1, PrecedenceStrict
<1>4. Precedes(Rank(c), Rank(b)) /\ Precedes(Rank(b), Rank(a)) => Precedes(Rank(c), Rank(a))
  BY <1>1, PrecedenceStrict
<1> QED
  BY <1>2, <1>3, <1>4 DEF AtLeast

-----------------------------------------------------------------------------
(* Confidence.                                                             *)

LEMMA ConfidenceLevels ==
  ASSUME NEW signals
  PROVE  /\ MaterialContradiction(signals) => Level[Confidence(signals)] = 0
         /\ Level[Confidence(signals)] \in 0..2
BY DEF Confidence, Level

\* Whoever cites all contradictions gains nothing by leaving other signals out:
\* confidence grows with the support (agent/openai_runner.py _confidence).
THEOREM CitingLessGainsNothing ==
  ASSUME NEW seen, NEW cited, cited \subseteq seen, Contradicting(seen) \subseteq cited
  PROVE  Level[Confidence(cited)] <= Level[Confidence(seen)]
<1>1. CASE MaterialContradiction(cited)
  BY <1>1, ConfidenceLevels
<1>2. CASE ~MaterialContradiction(cited)
  <2>1. Supporting(cited) \subseteq Supporting(seen)
    BY DEF Supporting
  <2>2. ~MaterialContradiction(seen)
    <3>1. \A s \in seen : s.kind \in Contradiction => s \in cited
      BY DEF Contradicting
    <3>2. \A s \in seen : s.kind \notin HardContradiction
      BY <1>2, <3>1 DEF MaterialContradiction, Contradiction
    <3>3. (\E s \in seen : s.kind = "identity_conflict")
            => \E s \in cited : s.kind = "identity_conflict"
      BY <3>1 DEF Contradiction
    <3> QED
      BY <1>2, <3>2, <3>3 DEF MaterialContradiction
  <2>3. CASE "exact_address" \in Supporting(seen)
    <3>1. Confidence(seen) = "high"
      BY <2>2, <2>3 DEF Confidence
    <3> QED
      BY <3>1, ConfidenceLevels DEF Level
  <2>4. CASE "exact_address" \notin Supporting(seen)
    BY <1>2, <2>1, <2>2, <2>4 DEF Confidence, Level
  <2> QED
    BY <2>3, <2>4
<1> QED
  BY <1>1, <1>2

\* More contradictions raise neither the confidence in a candidate nor its
\* precedence (agent/openai_runner.py _confidence, _rank).
THEOREM ContradictionsNeverHelp ==
  ASSUME NEW some, NEW more, some \subseteq more, Supporting(more) = Supporting(some),
         IsFiniteSet(more)
  PROVE  /\ Level[Confidence(more)] <= Level[Confidence(some)]
         /\ AtLeast(Rank(some), Rank(more))
<1>1. MaterialContradiction(some) => MaterialContradiction(more)
  <2> SUFFICES ASSUME MaterialContradiction(some) PROVE MaterialContradiction(more)
    OBVIOUS
  <2> DEFINE kindsOf(signals) == {s.kind : s \in signals}
  <2>1. kindsOf(some) \subseteq kindsOf(more)
    OBVIOUS
  <2>2. \A kind \in Support : kind \in kindsOf(some) <=> kind \in kindsOf(more)
    BY DEF Supporting
  <2> QED
    BY <2>1, <2>2 DEF MaterialContradiction, Support
<1>2. Level[Confidence(more)] <= Level[Confidence(some)]
  <2>1. CASE MaterialContradiction(more)
    BY <2>1, ConfidenceLevels
  <2>2. CASE ~MaterialContradiction(more)
    <3>1. Confidence(more) = Confidence(some)
      BY <1>1, <2>2 DEF Confidence
    <3> QED
      BY <3>1, ConfidenceLevels
  <2> QED
    BY <2>1, <2>2
<1>3. AtLeast(Rank(some), Rank(more))
  <2>1. IsFiniteSet(Contradicting(more)) /\ Contradicting(some) \subseteq Contradicting(more)
    BY FS_Subset DEF Contradicting
  <2>2. /\ Cardinality(Contradicting(some)) \in Nat /\ Cardinality(Contradicting(more)) \in Nat
        /\ Cardinality(Contradicting(some)) <= Cardinality(Contradicting(more))
    BY <2>1, FS_Subset, FS_CardinalityType
  <2>3. IsFiniteSet(some)
    BY FS_Subset
  <2>4. Rank(some) \in [1..8 -> Int] /\ Rank(more) \in [1..8 -> Int]
    BY <2>3, RankTyped
  <2>5. /\ \A i \in 1..7 : Rank(some)[i] = Rank(more)[i]
        /\ Rank(some)[8] = 0 - Cardinality(Contradicting(some))
        /\ Rank(more)[8] = 0 - Cardinality(Contradicting(more))
    BY DEF Rank
  <2>6. CASE Rank(some)[8] = Rank(more)[8]
    BY <2>4, <2>5, <2>6 DEF AtLeast
  <2>7. CASE Rank(some)[8] # Rank(more)[8]
    <3>1. Rank(more)[8] < Rank(some)[8]
      BY <2>2, <2>5, <2>7
    <3> QED
      BY <2>5, <3>1 DEF AtLeast, Precedes
  <2> QED
    BY <2>6, <2>7
<1> QED
  BY <1>2, <1>3
=============================================================================
