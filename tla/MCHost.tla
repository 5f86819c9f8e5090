------------------------------- MODULE MCHost -------------------------------
(* Values for the constants of Host. *)
EXTENDS Host

(* user is a function of the host whose name collides with print_u32. *)
HostHash == [print_u32 |-> 7, print |-> 300, get |-> 5000, user |-> 7]
=============================================================================
