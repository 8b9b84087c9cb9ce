------------------------------- MODULE Server -------------------------------
(***************************************************************************)
(* The server of the directory server/: main.py, mqtt.py, db.py and        *)
(* telegram.py.  The paho network thread runs on_mqtt_message for every    *)
(* message of the door; pyrogram runs the owner's commands, buttons and    *)
(* texts in a pool of worker threads.  They share the device database, the *)
(* list device_whit_for_save and the paho client.                          *)
(*                                                                         *)
(* A block under db_session is a transaction, and so one action.  Names    *)
(* and dates are left out: a device is in the database without an end      *)
(* ("never"), with one ahead or with one that is over.  Of a message to    *)
(* Telegram only the outcome is kept: an exception that nobody catches     *)
(* ends the thread that sends it.  For a worker that is the end of one     *)
(* handler, before or after the one thing it does; for paho it is the end  *)
(* of the network thread.                                                  *)
(***************************************************************************)
EXTENDS Integers, Sequences

CONSTANTS
  Addrs,       \* Bluetooth addresses
  Workers,     \* threads of pyrogram
  Orders,      \* what the owner commands
  MaxOut,      \* bound: messages in the out-queue of the paho client;
               \*   the last place is kept for the network thread
  MaxWaiting,  \* bound: length of device_whit_for_save
  None         \* no device

ASSUME ServerAssumption ==
  /\ None \notin Addrs
  /\ Orders \subseteq {"open_door", "lock", "unlock", "normal"}
  /\ MaxOut \in Nat /\ MaxWaiting \in Nat

VARIABLES
  db,          \* the table Device
  waiting,     \* device_whit_for_save
  out,         \* out-queue of the paho client: QoS 1, kept while offline
  online,      \* the paho client is connected to the broker
  subscribed,  \* the broker has the client's subscription
  mpc,         \* network thread: "idle", "lookup", "found", "matched", "dead"
  maddr,       \* the address it is working on
  was_valid,   \* history: maddr was entitled at some time since it arrived
  wpc,         \* worker threads, by worker
  job          \* the command they have to publish

network == <<mpc, maddr, was_valid>>
worker  == <<wpc, job>>
client  == <<out, online, subscribed>>
vars == <<db, waiting, client, network, worker>>

States   == {"absent", "never", "ahead", "over"}
Commands == {"open_door", "lock", "unlock", "normal"}

(* The device may enter.                                                   *)
Entitled(d) == d \in {"never", "ahead"}

(* The test of get_bt_device: `device and not device.timeout`.             *)
Found_NoTimeout(d) == d # "absent"
Found(d) == d \notin {"absent", "over"}

-----------------------------------------------------------------------------
Init ==
  /\ db \in [Addrs -> {"absent", "never"}]
  /\ waiting = <<>>
  /\ out = <<>> /\ online = TRUE /\ subscribed = TRUE
  /\ mpc = "idle" /\ maddr = None /\ was_valid = FALSE
  /\ wpc = [w \in Workers |-> "idle"]
  /\ job = [w \in Workers |-> None]

(* A change of the database, and what it means for the message at hand.    *)
SetDevice(a, d) ==
  /\ db' = [db EXCEPT ![a] = d]
  /\ was_valid' = (was_valid \/ (a = maddr /\ Entitled(d)))
  /\ UNCHANGED <<mpc, maddr>>

(* client.publish: with QoS 1 the message is queued, connected or not.     *)
(* What is queued when the network thread is dead is never looked at.      *)
Publish_Twice(c) ==
  /\ out' = IF mpc = "dead" THEN out ELSE out \o <<c, c>>
  /\ UNCHANGED <<online, subscribed>>

Publish(c) ==
  /\ out' = IF mpc = "dead" THEN out ELSE Append(out, c)
  /\ UNCHANGED <<online, subscribed>>

Room == mpc = "dead" \/ Len(out) < MaxOut - 1

(* The network thread leaves its callback: to wait for the next message,   *)
(* or for ever, by an exception.  telegram.send_message catches two kinds  *)
(* only, the message with the keyboard is sent without any try.            *)
Leave(s) == mpc' = s /\ maddr' = None /\ was_valid' = FALSE

MessageToTelegram == Leave("idle") \/ Leave("dead")

-----------------------------------------------------------------------------
(* on_mqtt_message: a MAC address of the door arrives.                     *)
Receive(a) ==
  /\ mpc = "idle" /\ online /\ subscribed
  /\ Len(out) < MaxOut
  /\ mpc' = "lookup"
  /\ maddr' = a
  /\ was_valid' = Entitled(db[a])
  /\ UNCHANGED <<db, waiting, client, worker>>

(* The door says that it is connected or, by its will, that it is not: the *)
(* text is passed on to the log channel.                                   *)
Announce ==
  /\ mpc = "idle" /\ online /\ subscribed
  /\ MessageToTelegram
  /\ UNCHANGED <<db, waiting, client, worker>>

(* get_bt_device: the device is looked up, and removed when its time is    *)
(* over.  An unknown device is only told to the owner.                     *)
Lookup ==
  /\ mpc = "lookup"
  /\ IF Found(db[maddr])
       THEN mpc' = "found" /\ UNCHANGED <<db, maddr, was_valid>>
       ELSE /\ db' = [db EXCEPT ![maddr] = "absent"]
            /\ MessageToTelegram
  /\ UNCHANGED <<waiting, client, worker>>

(* The name is read in a second transaction.  db.Device[msg] raises when   *)
(* the device is gone, and the exception ends the network thread.          *)
ReadName ==
  /\ mpc = "found"
  /\ IF db[maddr] = "absent"
       THEN Leave("dead")
       ELSE mpc' = "matched" /\ UNCHANGED <<maddr, was_valid>>
  /\ UNCHANGED <<db, waiting, client, worker>>

(* The match is told to the log channel, and then open_door published,     *)
(* unless the message raised.  This thread would be the one to notice a    *)
(* lost connection, so the first try to publish succeeds.                  *)
OpenForDevice_ToldOnly ==
  /\ mpc = "matched"
  /\ MessageToTelegram
  /\ UNCHANGED <<db, waiting, client, worker>>

OpenForDevice ==
  /\ mpc = "matched"
  /\ \/ Leave("idle") /\ Publish("open_door")
     \/ Leave("dead") /\ UNCHANGED client
  /\ UNCHANGED <<db, waiting, worker>>

-----------------------------------------------------------------------------
(* The owner's commands.                                                   *)
Command(w, c) ==
  /\ wpc[w] = "idle"
  /\ wpc' = [wpc EXCEPT ![w] = "publish"]
  /\ job' = [job EXCEPT ![w] = c]
  /\ UNCHANGED <<db, waiting, client, network>>

Done(w) ==
  /\ wpc' = [wpc EXCEPT ![w] = "idle"]
  /\ job' = [job EXCEPT ![w] = None]

PublishCommand(w) ==
  /\ wpc[w] = "publish" /\ Room
  /\ Publish(job[w])
  /\ Done(w)
  /\ UNCHANGED <<db, waiting, network>>

(* The button "Open the door": mqtt.open_door publishes until the result   *)
(* is success; offline the message is queued and the result an error.      *)
PressOpen(w) ==
  /\ wpc[w] = "idle"
  /\ wpc' = [wpc EXCEPT ![w] = "opening"]
  /\ UNCHANGED <<db, waiting, client, network, job>>

TryOpen(w) ==
  /\ wpc[w] = "opening" /\ Room
  /\ Publish("open_door")
  /\ IF online THEN Done(w) ELSE UNCHANGED worker
  /\ UNCHANGED <<db, waiting, network>>

-----------------------------------------------------------------------------
(* "Add device" asks for a name; "Accept" stores the device, or renames it *)
(* and leaves its end alone.                                               *)
PressAdd(w, a) ==
  /\ wpc[w] = "idle"
  /\ Len(waiting) < MaxWaiting
  /\ waiting' = Append(waiting, a)
  /\ UNCHANGED <<db, client, network, worker>>

PressAccept(w, a) ==
  /\ wpc[w] = "idle"
  /\ SetDevice(a, IF db[a] = "absent" THEN "never" ELSE db[a])
  /\ UNCHANGED <<waiting, client, worker>>

(* get_device_name: a text of the owner names the device asked for last.   *)
(* The list is tested and popped in two steps.                             *)
Text(w) ==
  /\ wpc[w] = "idle"
  /\ waiting # <<>>
  /\ wpc' = [wpc EXCEPT ![w] = "pop"]
  /\ UNCHANGED <<db, waiting, client, network, job>>

Pop(w) ==
  /\ wpc[w] = "pop"
  /\ waiting' = IF waiting = <<>> THEN waiting
                                  ELSE SubSeq(waiting, 1, Len(waiting) - 1)
  /\ Done(w)
  /\ UNCHANGED <<db, client, network>>

(* The buttons of the device menu.  An end is moved from the old end, even *)
(* from one that is over, so it may be over still.                         *)
PressRemove(w, a) ==
  /\ wpc[w] = "idle"
  /\ SetDevice(a, "absent")
  /\ UNCHANGED <<waiting, client, worker>>

Extended(d) == CASE d \in {"never", "ahead"} -> {"ahead"}
                 [] d = "over"               -> {"ahead", "over"}
                 [] d = "absent"             -> {"absent"}

PressUntil(w, a) ==
  /\ wpc[w] = "idle"
  /\ \/ \E d \in Extended(db[a]) : SetDevice(a, d)
     \/ SetDevice(a, IF db[a] = "absent" THEN "absent" ELSE "never")
  /\ UNCHANGED <<waiting, client, worker>>

(* The menu of a device is made in two transactions; the second raises     *)
(* when the device is gone, which ends this handler only.                  *)
PressDevice(w, a) ==
  /\ wpc[w] = "idle"
  /\ SetDevice(a, IF Found(db[a]) THEN db[a] ELSE "absent")
  /\ UNCHANGED <<waiting, client, worker>>

(* The time of a device runs out.                                          *)
Expire(a) ==
  /\ db[a] = "ahead"
  /\ SetDevice(a, "over")
  /\ UNCHANGED <<waiting, client, worker>>

-----------------------------------------------------------------------------
(* The network thread sends what is queued, notices that the connection is *)
(* lost, and connects again with a clean session.  _on_connect tells it to *)
(* the log channel.                                                        *)
Send ==
  /\ online /\ out # <<>> /\ mpc = "idle"
  /\ out' = Tail(out)
  /\ UNCHANGED <<db, waiting, online, subscribed, network, worker>>

Disconnect ==
  /\ online /\ mpc = "idle"
  /\ online' = FALSE /\ subscribed' = FALSE
  /\ UNCHANGED <<db, waiting, out, network, worker>>

Reconnect ==
  /\ ~online /\ mpc = "idle"
  /\ online' = TRUE
  /\ MessageToTelegram
  /\ UNCHANGED <<db, waiting, out, subscribed, worker>>

Next ==
  \/ \E a \in Addrs : Receive(a) \/ Expire(a)
  \/ Announce \/ Lookup \/ ReadName \/ OpenForDevice
  \/ \E w \in Workers :
       \/ \E c \in Orders : Command(w, c)
       \/ PublishCommand(w)
       \/ PressOpen(w) \/ TryOpen(w)
       \/ Text(w) \/ Pop(w)
       \/ \E a \in Addrs : \/ PressAdd(w, a) \/ PressAccept(w, a)
                           \/ PressRemove(w, a) \/ PressUntil(w, a)
                           \/ PressDevice(w, a)
  \/ Send \/ Disconnect \/ Reconnect

Spec == Init /\ [][Next]_vars

(* A message that was received is worked off; nothing is assumed of the    *)
(* owner, the door or the connection.                                      *)
FairSpec == Spec /\ WF_vars(Lookup \/ ReadName \/ OpenForDevice)

-----------------------------------------------------------------------------
(* Every variable has its type.                                            *)
TypeOK ==
  /\ db \in [Addrs -> States]
  /\ waiting \in Seq(Addrs) /\ Len(waiting) =< MaxWaiting
  /\ out \in Seq(Commands) /\ Len(out) =< MaxOut
  /\ online \in BOOLEAN /\ subscribed \in BOOLEAN
  /\ mpc \in {"idle", "lookup", "found", "matched", "dead"}
  /\ maddr \in Addrs \union {None}
  /\ was_valid \in BOOLEAN
  /\ wpc \in [Workers -> {"idle", "publish", "opening", "pop"}]
  /\ job \in [Workers -> Commands \union {None}]

(* The door is opened only for a device that was registered, with its time *)
(* not over, at some moment after its message arrived, whatever the owner  *)
(* presses meanwhile.                                                      *)
OpenAuthorised == [][OpenForDevice => was_valid]_vars

(* The inductive invariant behind it: the device at hand was entitled if   *)
(* it is now and when it has been found, whatever became of it since; a    *)
(* worker that publishes has something to publish; and the network thread  *)
(* finds room for the command of the message it works on.                  *)
HandInv ==
  /\ mpc \in {"lookup", "found", "matched"} => maddr \in Addrs
  /\ mpc = "lookup" /\ Entitled(db[maddr]) => was_valid
  /\ mpc \in {"found", "matched"} => was_valid
JobInv  == \A w \in Workers : wpc[w] = "publish" => job[w] \in Commands
RoomInv == mpc \in {"lookup", "found", "matched"} => Len(out) < MaxOut
IInv == TypeOK /\ HandInv /\ JobInv /\ RoomInv

(* A device that the door reports is let in if it is entitled to enter     *)
(* until that happens, whatever the owner does to the other devices,       *)
(* unless an exception ends the network thread on the way: the message to  *)
(* the log channel comes before the command.                               *)
EntitledLetIn ==
  \A a \in Addrs :
    (mpc = "lookup" /\ maddr = a /\ Entitled(db[a]))
      ~> \/ ~Entitled(db[a])
         \/ mpc = "dead"
         \/ mpc = "idle" /\ out # <<>> /\ out[Len(out)] = "open_door"

(* The search of the database for a device that the door reports does not  *)
(* end the network thread, whatever the owner does meanwhile.              *)
SearchSurvives == [][ReadName => mpc' # "dead"]_vars

(* A server that stays connected, with its network thread alive, comes to  *)
(* hear the door.                                                          *)
ConnectedHears == online ~> (subscribed \/ ~online \/ mpc = "dead")
=============================================================================
