------------------------------ MODULE Evidence ------------------------------
(***************************************************************************)
(* What the replica says about a deposit and what follows from it: the     *)
(* signals of a candidate (replica/investigation.py), their confidence and *)
(* their precedence (agent/openai_runner.py).  Names, addresses and        *)
(* amounts are abstracted to how a row relates to the clues of the         *)
(* deposit; the order in which the code tries the relations is kept.       *)
(***************************************************************************)
EXTENDS Integers, FiniteSets

CONSTANTS
  Order,          \* orders of the replica
  Receivable,     \* accounts receivable
  NoReceivable    \* a customer's identity without an eligible receivable

ASSUME KeyAssumption ==
  IsFiniteSet(Order) /\ IsFiniteSet(Receivable) /\ NoReceivable \notin Receivable

Key == Order \X (Receivable \cup {NoReceivable})

\* The clues a request may carry; the precise ones identify a person.
Clue == {"glosa", "transferor", "amount", "rut", "account", "email", "phone"}
Precise == {"rut", "email", "phone"}
IdentityClue == {"glosa", "transferor"} \cup Precise

TextClue == Clue \ {"amount"}

\* How a row relates to the clues of the deposit: by the relations the code tries
\* on a row it has read, and ("like") by the conditions of the search's SQL, which
\* compare texts in their own way (substrings, tokens, delimiters, punctuation).
\* Neither implies the other, but for numbers.
Profile == [address : {"exact", "partial", "none"},
            glosa   : {"customer", "signee", "fragment", "none"},
            name    : {"customer", "signee", "fragment", "none"},
            bank    : BOOLEAN,
            amount  : {"currency", "exact", "less", "more"},
            ids     : SUBSET {"rut", "bank_rut", "account", "email", "phone"},
            like    : SUBSET TextClue]

Identifier == {"rut", "email", "phone"}
DirectIdentity == {"customer_name", "signee_name"} \cup Identifier
BankIdentity == {"bank_name", "bank_account"}
HardContradiction == {"amount_exceeds_outstanding", "currency_mismatch"}
Contradiction == HardContradiction \cup {"identity_conflict"}
Support == DirectIdentity \cup BankIdentity \cup
  {"exact_address", "partial_address", "name_fragment", "exact_outstanding",
   "partial_payment", "vambe_context", "vambe_mention"}
Kind == Support \cup Contradiction

-----------------------------------------------------------------------------
(* The signals of one row.                                                 *)

NameKind(level) ==
  CASE level = "customer" -> {"customer_name"}
    [] level = "signee"   -> {"signee_name"}
    [] level = "fragment" -> {"name_fragment"}
    [] level = "none"     -> {}

AddressKind(p) ==
  CASE p.address = "exact"   -> {"exact_address"}
    [] p.address = "partial" -> {"partial_address"}
    [] p.address = "none"    -> NameKind(p.glosa)

\* A transferor who is neither the customer, nor a signee, nor the owner of the
\* stored bank account, nor shares a name with them, contradicts the row.
TransferorKind(p) ==
  CASE p.name \in {"customer", "signee"}          -> NameKind(p.name)
    [] p.name \notin {"customer", "signee"} /\ p.bank -> {"bank_name"}
    [] p.name = "fragment" /\ ~p.bank             -> {"name_fragment"}
    [] p.name = "none" /\ ~p.bank                 -> {"identity_conflict"}

AmountKind(p) ==
  CASE p.amount = "currency" -> {"currency_mismatch"}
    [] p.amount = "exact"    -> {"exact_outstanding"}
    [] p.amount = "less"     -> {"partial_payment"}
    [] p.amount = "more"     -> {"amount_exceeds_outstanding"}

\* The RUT of a stored bank account counts like the customer's own.
IdentifierKind(p, clues) ==
  (p.ids \cap clues \cap Identifier)
    \cup (IF "bank_rut" \in p.ids /\ "rut" \in clues THEN {"rut"} ELSE {})
    \cup (IF "account" \in p.ids \cap clues THEN {"bank_account"} ELSE {})

\* _candidate: a row with an eligible receivable.
CandidateKinds(p, clues) ==
  (IF "glosa" \in clues THEN AddressKind(p) ELSE {})
    \cup (IF "transferor" \in clues THEN TransferorKind(p) ELSE {})
    \cup (IF "amount" \in clues THEN AmountKind(p) ELSE {})
    \cup IdentifierKind(p, clues)

\* _identity_candidate: neither banks nor amounts, no fragment of the glosa,
\* and never a contradiction.
IdentityKinds(p, clues) ==
  (IF "transferor" \in clues THEN NameKind(p.name) ELSE {})
    \cup (IF "glosa" \in clues
          THEN IF p.address = "none" THEN NameKind(p.glosa) \ {"name_fragment"}
               ELSE AddressKind(p)
          ELSE {})
    \cup (p.ids \cap clues \cap Identifier)

KindsOf(key, p, clues) ==
  IF key[2] = NoReceivable THEN IdentityKinds(p, clues) ELSE CandidateKinds(p, clues)

\* _is_meaningful_candidate.
Meaningful(kinds) ==
  kinds \cap ((Support \ {"name_fragment", "partial_payment", "vambe_mention"})) # {}

\* The rows with an eligible receivable that the search's SQL finds: by an equal
\* amount, by digits that contain the clue's, or by a text of its own comparison.
ReceivableFoundBy(p, clues) ==
  \/ "amount" \in clues /\ p.amount = "exact"
  \/ p.ids \cap clues \cap {"rut", "account", "phone"} # {}
  \/ "bank_rut" \in p.ids /\ "rut" \in clues
  \/ p.like \cap clues # {}

\* The customers that the identity search finds, which knows no banks and no amounts.
IdentityFoundBy(p, clues) ==
  \/ p.ids \cap clues \cap {"rut", "phone"} # {}
  \/ p.like \cap clues \cap IdentityClue # {}

-----------------------------------------------------------------------------
(* Signals of a run.  A repeated observation registers its signals again,  *)
(* under new evidence ids: "call" tells them apart.                        *)

Signal == [call : Nat, kind : Kind, key : Key]

Supporting(signals) == {s.kind : s \in signals} \cap Support
Contradicting(signals) == {s \in signals : s.kind \in Contradiction}

\* _signals_for_candidate: those of the order, and of no other receivable.
SignalsFor(signals, key) ==
  {s \in signals : s.key[1] = key[1] /\ s.key[2] \in {NoReceivable, key[2]}}

MaterialContradiction(signals) ==
  LET kinds == {s.kind : s \in signals} IN
  \/ kinds \cap HardContradiction # {}
  \/ /\ "identity_conflict" \in kinds
     /\ ~ ("vambe_context" \in kinds /\ kinds \cap {"exact_outstanding", "exact_address"} # {})

Confidence(signals) ==
  LET kinds == Supporting(signals) IN
  CASE MaterialContradiction(signals) -> "unknown"
    [] ~MaterialContradiction(signals) /\ "exact_address" \in kinds -> "high"
    [] ~MaterialContradiction(signals) /\ "exact_address" \notin kinds
         /\ \/ kinds \cap DirectIdentity # {}
            \/ /\ "exact_outstanding" \in kinds
               /\ kinds \cap ({"vambe_context", "partial_address", "name_fragment"}
                              \cup BankIdentity) # {} -> "medium"
    [] OTHER -> "unknown"

\* The confidences in their order; "low" is declared and never given.
Level == [unknown |-> 0, medium |-> 1, high |-> 2]

Holds(p) == IF p THEN 1 ELSE 0

\* The precedence of evidence, most important first.
Rank(signals) ==
  LET kinds == Supporting(signals) IN
  << Holds("exact_address" \in kinds),
     Cardinality(kinds \cap DirectIdentity),
     Holds("exact_outstanding" \in kinds),
     Holds("vambe_context" \in kinds),
     Holds("partial_address" \in kinds),
     Holds("name_fragment" \in kinds),
     Holds("partial_payment" \in kinds),
     0 - Cardinality(Contradicting(signals)) >>

\* Python compares tuples lexicographically.
Precedes(r, s) ==
  \E i \in 1..8 : r[i] < s[i] /\ \A j \in 1..8 : j < i => r[j] = s[j]

AtLeast(r, s) == r = s \/ Precedes(s, r)
=============================================================================
