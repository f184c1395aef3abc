--------------------------- MODULE MCOutboundJobs ---------------------------
(* Instances of OutboundJobs small enough for TLC. *)
EXTENDS OutboundJobs

CONSTANTS j1, j2, w1, w2, discord

OneConsumer == {discord}
AllDiscord  == [j \in Jobs |-> discord]
BothDiscord == [w \in Workers |-> discord]
FaultyOrNot == {FaultKinds, {}}
=============================================================================
