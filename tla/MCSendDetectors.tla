-------------------------- MODULE MCSendDetectors ---------------------------
(* Instance of SendDetectors for TLC. *)
EXTENDS SendDetectors

MCSettings == [choke : BOOLEAN, error : BOOLEAN, farm : {TRUE}]
MCErrors == {[choke |-> TRUE, error |-> TRUE, farm |-> FALSE]}

=============================================================================
