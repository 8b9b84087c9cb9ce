------------------------------ MODULE DoorLock ------------------------------
(***************************************************************************)
(* What mqtt_message_cb and periodic_timeout of smart_door.c promise the   *)
(* users of the door: `open_door` opens it for a short time, `lock` and    *)
(* `unlock` hold until a command ends them, `normal` ends both.  Commands  *)
(* act in one step here, there is no interrupt and no shared memory.       *)
(* Module Door is the program, and is shown to implement this one.         *)
(***************************************************************************)
EXTENDS Integers

CONSTANTS
  OpenFor,   \* ticks an open door stays open, at least
  MaxOpen,   \* ticks an open door stays open, at most
  Grace,     \* ticks of the opening a command may use up before it acts
  BootTicks  \* ticks an opening may have lasted when the door starts

VARIABLES
  status,    \* "closed", "open", "unlocked" or "locked"
  age        \* ticks since the opening was granted; 0 unless open

vars == <<status, age>>

Statuses == {"closed", "open", "unlocked", "locked"}

Init == /\ status \in Statuses
        /\ age \in IF status = "open" THEN 0 .. BootTicks ELSE {0}

(* An opening is granted, or granted anew, unless the door is locked.      *)
Open == /\ status # "locked"
        /\ status' = "open"
        /\ age' \in 0 .. Grace

Lock == /\ status' = "locked"
        /\ age' = 0

Unlock == /\ status' = "unlocked"
          /\ age' = 0

(* A locked door returns to the closed state; an unlocked one returns by   *)
(* way of an ordinary opening, which is Open.                              *)
Normal == /\ status = "locked"
          /\ status' = "closed"
          /\ age' = 0

(* An opening that has lasted long enough ends by itself.                  *)
Close == /\ status = "open"
         /\ age >= OpenFor
         /\ status' = "closed"
         /\ age' = 0

(* Time passes for an open door, but not beyond the longest opening.       *)
Tick == /\ status = "open"
        /\ age < MaxOpen
        /\ age' = age + 1
        /\ UNCHANGED status

Next == Open \/ Lock \/ Unlock \/ Normal \/ Close \/ Tick

Spec == Init /\ [][Next]_vars
=============================================================================
