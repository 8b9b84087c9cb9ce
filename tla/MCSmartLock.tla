---------------------------- MODULE MCSmartLock ----------------------------
(* An instance of SmartLock for TLC.                                       *)
EXTENDS SmartLock
=============================================================================
