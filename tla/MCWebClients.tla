----------------------------- MODULE MCWebClients -----------------------------
(* Values of WebClients' constants for TLC. *)
EXTENDS WebClients

CONSTANTS f1, f2, f3, k1

MCFiles == {f1, f2, f3}
MCClients == {k1}
MCRequests == MCFiles \cup MCClients
MCSelections == {<<>>, <<f1, f2>>, <<f3>>}
MCMaxNotifications == [r \in MCRequests |-> IF r = k1 THEN 2 ELSE 1]

===============================================================================
