---------------------------- MODULE CommandLink ----------------------------
(***************************************************************************)
(* What the door promises about the commands that the broker holds for     *)
(* it.  Within one connection each of them takes effect at most once and   *)
(* none before an older one that takes effect as well; the broker lets a   *)
(* command go only after it took effect.  A new connection delivers again  *)
(* what the broker still holds, and a restart forgets the status.          *)
(***************************************************************************)
EXTENDS Integers, Sequences, DoorCommands

CONSTANT Ids  \* packet identifiers of the broker

VARIABLES
  stat,   \* status of the door
  queue   \* commands the broker holds, oldest first: id, cmd and whether it
          \*   took effect in this connection (done)

vars == <<stat, queue>>

Init == stat = "closed" /\ queue = <<>>

(* The broker accepts a command for the door.                              *)
Accept(i, c) ==
  /\ \A k \in DOMAIN queue : queue[k].id # i
  /\ queue' = Append(queue, [id |-> i, cmd |-> c, done |-> FALSE])
  /\ UNCHANGED stat

(* A command takes effect.                                                 *)
Obey(k) ==
  /\ \A j \in k .. Len(queue) : ~queue[j].done
  /\ stat' = Obeyed(stat, queue[k].cmd)
  /\ queue' = [queue EXCEPT ![k].done = TRUE]

(* The broker lets go a command that took effect.                          *)
Settle(k) ==
  /\ queue[k].done
  /\ queue' = SubSeq(queue, 1, k - 1) \o SubSeq(queue, k + 1, Len(queue))
  /\ UNCHANGED stat

(* The end of an opening, a new connection, a restart.                     *)
Close == stat = "open" /\ stat' = "closed" /\ UNCHANGED queue

Reconnect ==
  /\ queue' = [k \in DOMAIN queue |-> [queue[k] EXCEPT !.done = FALSE]]
  /\ UNCHANGED stat

Reset == stat' = "closed" /\ UNCHANGED queue

Next ==
  \/ \E i \in Ids, c \in Commands : Accept(i, c)
  \/ \E k \in DOMAIN queue : Obey(k) \/ Settle(k)
  \/ Close \/ Reconnect \/ Reset

Spec == Init /\ [][Next]_vars
=============================================================================
