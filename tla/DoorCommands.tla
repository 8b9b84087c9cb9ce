---------------------------- MODULE DoorCommands ----------------------------
(***************************************************************************)
(* What a command does to the status of the door: mqtt_message_cb of       *)
(* smartDoor/smart_door.c, without the time.                               *)
(***************************************************************************)

Statuses == {"closed", "open", "unlocked", "locked"}
Commands == {"open_door", "lock", "unlock", "normal"}

(* The branch mqtt_message_cb takes.  It reads dr_iot.stat up to four      *)
(* times; only the interrupt can write in between, and only "open" to      *)
(* "closed", which take the same branches, so one read stands for all.     *)
Ignored == "ignored"

Branch_OpenAlways(s, c) ==
  CASE c = "open_door" \/ (s = "unlocked" /\ c = "normal") -> "open"
    [] c = "unlock"                  -> "unlocked"
    [] s = "locked" /\ c = "normal"  -> "closed"
    [] c = "lock"                    -> "locked"
    [] OTHER                         -> Ignored

Branch(s, c) ==
  CASE \/ s # "locked" /\ c = "open_door"
       \/ s = "unlocked" /\ c = "normal" -> "open"
    [] c = "unlock"                      -> "unlocked"
    [] s = "locked" /\ c = "normal"      -> "closed"
    [] c = "lock"                        -> "locked"
    [] OTHER                             -> Ignored

(* The status after a command.                                             *)
Obeyed(s, c) == IF Branch(s, c) = Ignored THEN s ELSE Branch(s, c)
=============================================================================
