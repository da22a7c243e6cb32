---------------------------- MODULE MCSlackIngest ----------------------------
(* Small instances of SlackIngest: a mention with a message of its thread,    *)
(* and the plug added to, and removed from, an answer.                        *)
EXTENDS SlackIngest, TLC

MCKind == [e \in Event |->
  CASE e = 1 -> "app_mention" [] e = 2 -> "message"
    [] e = 3 -> "reaction_added" [] OTHER -> "reaction_removed"]
MCAbout == [e \in Event |-> CASE e = 1 -> "m1" [] e = 2 -> "m2" [] OTHER -> "plug"]
Messages == {"m1", "m2"}
MCThreadOf == [m \in Messages |-> "thread"]
Reactions == {"plug"}
MCAnswerOf == [r \in Reactions |-> "answer"]

Sent(S) == \A e \in Event : at[e] = "unsent" <=> e \in S

\* The messages come with a process that may die and come back in another mode,
\* the reactions with a transaction or an enqueue call that may raise.
MCInit ==
  /\ Init
  /\ listenerMode = "enabled" /\ \A w \in Slot : mode[w] = "enabled"
  /\ \/ Sent({1, 2}) /\ crashes = 0 /\ faults = MaxFaults
     \/ Sent({3, 4}) /\ crashes = MaxCrashes /\ faults = 0

MCSpec == MCInit /\ [][Next]_vars /\ Fairness
=============================================================================
