-------------------------- MODULE MCInvestigation --------------------------
(* A small instance of Investigation: two orders with a receivable each,   *)
(* and replicas that know more or less about the deposit, or nothing.      *)
EXTENDS Investigation

Stranger == [address |-> "none", glosa |-> "none", name |-> "none", bank |-> FALSE,
             amount |-> "less", ids |-> {}, like |-> {}]
Payer == [Stranger EXCEPT !.address = "exact", !.name = "customer", !.amount = "exact",
                          !.like = {"glosa", "transferor"}]
Neighbour == [Stranger EXCEPT !.address = "partial", !.amount = "exact", !.ids = {"rut"},
                              !.like = {"glosa"}]
\* A fragment of the name, which the SQL does not find.
Namesake == [Stranger EXCEPT !.name = "fragment", !.amount = "more", !.ids = {"bank_rut"}]
\* The stored address of mail has blanks: the SQL misses it, and finds the street.
Hidden == [Stranger EXCEPT !.ids = {"email"}, !.like = {"glosa"}]

\* The same profile for every key of an order.
Replica(rows, first, second) ==
  [rows |-> rows,
   profile |-> [k \in Key |-> IF k[1] = "o1" THEN first ELSE second],
   link |-> [s \in Source |-> "o2"]]

All == {<<"o1", "r1">>, <<"o2", "r2">>, <<"o2", NoReceivable>>}
Unpaid == {<<"o1", "r1">>, <<"o2", NoReceivable>>}

MCWorld == {Replica(All, Payer, Neighbour), Replica(All, Neighbour, Neighbour),
            Replica(Unpaid, Hidden, Namesake), Replica({}, Hidden, Namesake)}

MCClueSet == {{"glosa", "transferor"}, {"glosa", "amount"}, {"rut", "email"}}
=============================================================================
