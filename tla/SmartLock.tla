----------------------------- MODULE SmartLock -----------------------------
(***************************************************************************)
(* The whole system: Server and DoorApp, joined by the broker.  A report   *)
(* of the door waits in uplink until the network thread of the server      *)
(* receives it; a command of the server goes from the out-queue of paho    *)
(* into the session that the broker keeps for the door.  A name is taken   *)
(* from the module whose part it is: S of the server, D of the door.       *)
(*                                                                         *)
(* The buttons that change the end of a device, ask for its name or open   *)
(* the door (the same command as for a device), and what the door says of  *)
(* its own connection, are left to Server.                                 *)
(***************************************************************************)
EXTENDS Integers, Sequences, DoorCommands

CONSTANTS
  Devices, PassSize, Ids, MaxNet, MaxLate,  \* of the door
  Workers, Orders, MaxOut,                  \* of the server
  None

ASSUME LockAssumption ==
  /\ PassSize \in Nat \ {0}
  /\ MaxNet \in Nat /\ MaxLate \in Nat /\ MaxOut \in Nat
  /\ Orders \subseteq Commands
  /\ None \notin Ids \union Devices

VARIABLES
  db, waiting, out, online, subscribed, mpc, maddr, was_valid, wpc, job,
  stat, pc, left, acking, link, net, session, uplink, clean, mode, late,
  order,  \* history: the owner's order that was published last, while kept
  kept    \* history: since then no command was flushed, the door has not
          \*   restarted, and the network thread is alive

server == <<db, waiting, out, online, subscribed, mpc, maddr, was_valid, wpc,
            job>>
door   == <<stat, pc, left, acking, link, net, session, uplink, clean, mode,
            late>>
vars   == <<server, door, order, kept>>

S == INSTANCE Server WITH Addrs <- Devices, MaxWaiting <- 0
D == INSTANCE DoorApp

Init == S!Init /\ D!Init /\ order = "normal" /\ kept = TRUE

(* The history follows what becomes of the commands.                       *)
Keep == /\ kept' = (kept /\ clean' /\ mpc' # "dead")
        /\ order' = IF kept' THEN order ELSE "normal"

(* A report is passed to the server; without a subscription the broker     *)
(* discards it.                                                            *)
Hear(d) == S!Receive(d) /\ D!ServerTakes(d) /\ Keep

Discard(d) == ~subscribed /\ D!ServerTakes(d) /\ UNCHANGED server /\ Keep

(* A command is passed to the broker, or the connection ends when the      *)
(* broker has it and the server does not know; paho sends it again.        *)
Send(i) == out # <<>> /\ S!Send /\ D!Accept(i, Head(out)) /\ Keep

SendTwice(i) ==
  out # <<>> /\ S!Disconnect /\ D!Accept(i, Head(out)) /\ Keep

(* The owner's orders, buttons and the connection of the server.           *)
Publish(w) ==
  /\ S!PublishCommand(w) /\ UNCHANGED door
  /\ kept' = (clean /\ mpc # "dead")
  /\ order' = IF kept' THEN job[w] ELSE "normal"

Owner(w) ==
  /\ \/ \E c \in Orders : S!Command(w, c)
     \/ \E d \in Devices : S!PressAccept(w, d) \/ S!PressRemove(w, d)
  /\ UNCHANGED door /\ Keep

Handle == (S!Lookup \/ S!ReadName \/ S!OpenForDevice) /\ UNCHANGED door /\ Keep

Network == (S!Disconnect \/ S!Reconnect) /\ UNCHANGED door /\ Keep

(* The door and its connection.                                            *)
Door == D!Door /\ UNCHANGED server /\ Keep

Forward == (\E k \in DOMAIN session : D!Forward(k)) /\ UNCHANGED server /\ Keep

Next ==
  \/ \E d \in Devices : Hear(d) \/ Discard(d)
  \/ \E i \in Ids : Send(i) \/ SendTwice(i)
  \/ \E w \in Workers : Publish(w) \/ Owner(w)
  \/ Handle \/ Network \/ Door \/ Forward

Spec == Init /\ [][Next]_vars

(* The fairness of Server and of DoorApp, and of the connection of the     *)
(* server while it stands.                                                 *)
Fairness ==
  /\ WF_vars(Handle \/ \E d \in Devices : Hear(d))
  /\ WF_vars(\E i \in Ids : Send(i))
  /\ WF_vars(D!Thread /\ UNCHANGED server /\ Keep)
  /\ SF_vars(D!TakeCommand /\ UNCHANGED server /\ Keep)
  /\ SF_vars(D!Packet /\ UNCHANGED server /\ Keep)
  /\ SF_vars(Forward)

FairSpec == Spec /\ Fairness

-----------------------------------------------------------------------------
(* Both parts keep their types.                                            *)
TypeOK == S!TypeOK /\ D!TypeOK /\ order \in Commands /\ kept \in BOOLEAN

(* No order of the owner is on its way.                                    *)
Quiet ==
  /\ \A k \in DOMAIN out : out[k] = "open_door"
  /\ \A k \in DOMAIN session :
       session[k].cmd = "open_door" \/ session[k].done

(* The owner's last order stands, whatever devices the door reports and    *)
(* the server lets in meanwhile, and however often the connections fail: a *)
(* door that was locked is locked, one sent back to normal is neither      *)
(* locked nor unlocked.                                                    *)
Stands ==
  /\ order = "lock" => stat = "locked"
  /\ order = "normal" => stat \in {"closed", "open"}
OrderStands == (kept /\ Quiet) => Stands

(* The inductive invariant behind it: while no command was flushed, either *)
(* the order is in the out-queue of the server with nothing behind it but  *)
(* open_door, or it is in the session, again with nothing else behind it,  *)
(* and stands once it has taken effect; or it has been let go, and stands. *)
OrderOut ==
  \E i \in DOMAIN out :
    out[i] = order /\ \A j \in DOMAIN out : i < j => out[j] = "open_door"
OrderHeld ==
  /\ \A j \in DOMAIN out : out[j] = "open_door"
  /\ \E k \in 0 .. Len(session) :
       /\ k = 0 \/ session[k].cmd = order
       /\ \A j \in DOMAIN session : k < j => session[j].cmd = "open_door"
       /\ k = 0 \/ session[k].done => Stands
OrderInv ==
  (kept /\ order \in {"lock", "normal"}) => OrderOut \/ OrderHeld
KeptInv == kept => clean /\ mpc # "dead"
IInv ==
  /\ S!IInv /\ D!IInv /\ D!HistoryInv
  /\ order \in Commands /\ kept \in BOOLEAN
  /\ KeptInv /\ OrderInv

(* A known device that comes near is let in: its report makes the server   *)
(* open the door, unless a connection or the device's right ends on the    *)
(* way, a flush drops a command or the network thread has died.            *)
EntryGranted ==
  \A d \in Devices :
    (d \in uplink /\ S!Entitled(db[d]))
      ~> \/ stat # "closed"
         \/ ~S!Entitled(db[d]) \/ mpc = "dead" \/ ~subscribed
         \/ ~link \/ ~clean

(* An order to unlock stands until the next one.                           *)
UnlockStands == (kept /\ Quiet) => (order = "unlock" => stat = "unlocked")
=============================================================================
