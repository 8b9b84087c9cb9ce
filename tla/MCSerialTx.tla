----------------------------- MODULE MCSerialTx -----------------------------
(* Model checking of SerialTx with a ring of a few bytes.                  *)
EXTENDS SerialTx
=============================================================================
