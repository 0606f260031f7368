----------------------------- MODULE MCSendFarm -----------------------------
(* Instance of SendFarm for TLC. *)
EXTENDS SendFarm

MCSettings == {[choke |-> FALSE, error |-> TRUE, farm |-> FALSE],
               [choke |-> FALSE, error |-> FALSE, farm |-> TRUE]}

=============================================================================
