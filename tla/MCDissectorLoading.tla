------------------------ MODULE MCDissectorLoading -------------------------
(***************************************************************************)
(* A small instance of DissectorLoading for TLC.                           *)
(***************************************************************************)
EXTENDS DissectorLoading

CONSTANTS mac, host, flags, eth, tcp

\* Two builtin classes and a registered one.  One script requires a builtin
\* class, the other the registered class and the last builtin one.
MCBuiltin    == <<mac, host>>
MCRegistered == <<flags>>
MCUses       == [s \in Scripts |-> IF s = eth THEN {mac} ELSE {host, flags}]
=============================================================================
