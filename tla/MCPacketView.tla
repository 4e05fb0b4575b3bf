---------------------------- MODULE MCPacketView ----------------------------
(***************************************************************************)
(* A small instance of PacketView for TLC: filters are model values.       *)
(***************************************************************************)
EXTENDS PacketView

CONSTANTS f1, f2
=============================================================================
