------------------------------ MODULE MCModem ------------------------------
(* Model checking of Modem with few rounds and operators.                  *)
EXTENDS Modem
=============================================================================
