------------------------------ MODULE MCDoorApp ------------------------------
(* Instances of DoorApp for TLC.                                            *)
EXTENDS DoorApp
=============================================================================
