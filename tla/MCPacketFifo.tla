---------------------------- MODULE MCPacketFifo ----------------------------
(* Model-checking instance of PacketFifo: a ring of a few slots, so that   *)
(* it wraps and fills, and a bound on the count of refused packets.        *)
EXTENDS PacketFifo

CONSTANT MaxDrops

DropBound == dropped_full <= MaxDrops
=============================================================================
