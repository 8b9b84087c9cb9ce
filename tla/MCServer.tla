------------------------------ MODULE MCServer ------------------------------
(* Model checking of Server with few devices and worker threads.           *)
EXTENDS Server
=============================================================================
