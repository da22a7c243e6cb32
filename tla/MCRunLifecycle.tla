--------------------------- MODULE MCRunLifecycle ---------------------------
(* Small instances of RunLifecycle.                                        *)
EXTENDS RunLifecycle, TLC

\* All messages are of one thread.
MCConvOf == [m \in Message |-> "thread"]
OneThread == {"thread"}

Symmetric == Permutations(Executor) \cup Permutations(Recoverer)
=============================================================================
