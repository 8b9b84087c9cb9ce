------------------------------- MODULE MCDoor -------------------------------
(* Model checking of Door.  A wrap of the clock, an opening that outlives   *)
(* several timer periods, and one that is over before the timer starts are *)
(* all within the small constants of the .cfg files.                       *)
EXTENDS Door
=============================================================================
