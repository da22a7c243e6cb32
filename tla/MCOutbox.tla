------------------------------ MODULE MCOutbox ------------------------------
(* Small instances of Outbox, given by the configurations alone.           *)
EXTENDS Outbox
=============================================================================
