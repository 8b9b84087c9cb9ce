----------------------------- MODULE MCSerialRx -----------------------------
(* Model checking of SerialRx with a ring of a few bytes.                  *)
EXTENDS SerialRx
=============================================================================
