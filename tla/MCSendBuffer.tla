---------------------------- MODULE MCSendBuffer ----------------------------
(* Instance of SendBuffer for TLC. *)
EXTENDS SendBuffer

MCSettings == {[choke |-> FALSE, error |-> FALSE, farm |-> FALSE]}

=============================================================================
