---------------------------- MODULE MCPushOutbox ----------------------------
(***************************************************************************)
(* Instances of PushOutbox: the owner's browser and a family member's.     *)
(***************************************************************************)
EXTENDS PushOutbox, TLC

CONSTANTS browser, phone, guest, gate, delay, checkin

MCMemberOf == [d \in Devices |-> IF d = phone THEN guest ELSE None]
MCScopeOf == [m \in Members |-> Alerts \cap {gate, checkin}]

Symmetric == Permutations(Procs)
=============================================================================
