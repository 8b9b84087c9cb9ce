------------------------------ MODULE DoorApp ------------------------------
(***************************************************************************)
(* The main thread of smartDoor/smart_door.c with the MQTT packets it      *)
(* exchanges: run_mqtt after the network connection, and the loop of       *)
(* run_app with send_device, publish_msg and read_msg.  wolfMQTT handles a *)
(* command inside whatever call is waiting for a packet, and every packet  *)
(* that is written goes through CellularWrite, which first flushes the     *)
(* receive ring.                                                           *)
(*                                                                         *)
(* External: wolfMQTT, the network and the broker, which keeps the         *)
(* session of the door (clean_session is 0, QoS is 1).  Packets are whole. *)
(* When a packet arrives is not fixed, so a flush takes any number of the  *)
(* packets under way, the oldest first.  SerialRecv and SerialSend never   *)
(* fail, so a lost connection looks like silence.                          *)
(***************************************************************************)
EXTENDS Integers, Sequences, DoorCommands

CONSTANTS
  Devices,   \* addresses of Bluetooth devices
  PassSize,  \* BT_LST_SIZE: the reports of one send_device are at most these
  Ids,       \* bound: packet identifiers, so commands the broker holds
  MaxNet,    \* bound: packets under way when the broker sends a command
  MaxLate,   \* bound: packets late when a wait of the door times out
  None       \* no packet identifier

ASSUME AppAssumption ==
  /\ PassSize \in Nat \ {0}
  /\ MaxNet \in Nat /\ MaxLate \in Nat
  /\ None \notin Ids

VARIABLES
  stat,     \* dr_iot.stat
  pc,       \* where the thread is, see Places
  left,     \* slots send_device may still report from
  acking,   \* identifier of the command whose PUBACK is to be written
  link,     \* the connection to the broker stands
  net,      \* packets for the door, under way or in the receive ring
  session,  \* commands the broker holds: id, cmd, whether it sent them in
            \*   this connection; history: done, whether one took effect
  uplink,   \* reports the broker holds for the server
  clean,    \* history: no flush has dropped a command in this connection
  mode,     \* history: what the commands so far amount to, while clean
  late      \* history: reports since the status became locked

broker  == <<session, uplink>>
history == <<clean, mode, late>>
vars == <<stat, pc, left, acking, link, net, broker, history>>

(* run_mqtt: nothing yet, or the wait of MqttClient_Connect, _Subscribe,   *)
(* _Publish.  run_app: the test of the status, send_device, its wait,      *)
(* MqttClient_WaitMessage, MqttClient_Ping_ex.                             *)
Loop   == {"top", "report", "puback", "read", "pong"}
Waits  == {"connack", "suback", "hello", "puback", "read", "pong"}
Places == {"off"} \union Waits \union Loop

Awaited(p) == CASE p = "connack"             -> {"connack"}
                [] p = "suback"              -> {"suback"}
                [] p \in {"hello", "puback"} -> {"puback"}
                [] p = "read"  -> {"connack", "suback", "puback", "pingresp"}
                [] p = "pong"  -> {"pingresp"}

Replies == {"connack", "suback", "puback", "pingresp"}
Reply(t) == [type |-> t, id |-> None]
Messages == [id : Ids, cmd : Commands, sent : BOOLEAN, done : BOOLEAN]
Packets == {Reply(t) : t \in Replies} \union [type : {"publish"}, id : Ids]

(* The status without the time an opening has left.                        *)
Plain == Statuses \ {"open"}
Settled(s) == IF s = "open" THEN "closed" ELSE s
After(s, c) == Settled(Obeyed(s, c))

(* What the commands q that have not taken effect will make of s, one      *)
(* after the other.                                                        *)
Course(s, q) ==
  LET f[k \in 0 .. Len(q)] ==
        IF k = 0 THEN s
        ELSE IF q[k].done THEN f[k - 1] ELSE After(f[k - 1], q[k].cmd)
  IN f
Amount(s, q) == Course(s, q)[Len(q)]

HeldIds == {session[k].id : k \in DOMAIN session}
Place(i) == CHOOSE k \in DOMAIN session : session[k].id = i
Without(k) ==
  SubSeq(session, 1, k - 1) \o SubSeq(session, k + 1, Len(session))

Init ==
  /\ stat = "closed" /\ pc = "off" /\ left = 0 /\ acking = None
  /\ link = FALSE /\ net = <<>>
  /\ session = <<>> /\ uplink = {}
  /\ clean = TRUE /\ mode = "closed" /\ late = 0

-----------------------------------------------------------------------------
(* CellularWrite, when rest has not been read: the flush drops what has    *)
(* arrived, and the broker answers what was written.                       *)
Write(rest, answer) ==
  \E k \in 0 .. Len(rest) :
    /\ net' = SubSeq(rest, k + 1, Len(rest)) \o (IF link THEN answer ELSE <<>>)
    /\ clean' = (clean /\ \A j \in 1 .. k : rest[j].type # "publish")
    /\ mode' = IF clean' THEN mode ELSE "closed"

(* A command is handled by mqtt_message_cb, inside any wait.               *)
Handle_Deaf(c) == IF pc = "puback" THEN stat ELSE Obeyed(stat, c)
Handle(c) == Obeyed(stat, c)

TakeCommand ==
  /\ pc \in Waits /\ acking = None
  /\ net # <<>> /\ Head(net).type = "publish"
  /\ LET k == Place(Head(net).id) IN
       /\ stat' = Handle(session[k].cmd)
       /\ session' = [session EXCEPT ![k].done = TRUE]
       /\ acking' = session[k].id
  /\ net' = Tail(net)
  /\ late' = IF stat = "locked" /\ stat' = "locked" THEN late ELSE 0
  /\ UNCHANGED <<pc, left, link, uplink, clean, mode>>

(* The PUBACK is written, and the broker lets the command go.  The wait    *)
(* for any packet is over, another one goes on.                            *)
Confirmed_Oldest == session[1].id
Confirmed == acking

Ack ==
  /\ acking # None
  /\ acking' = None
  /\ Write(net, <<>>)
  /\ session' = IF link THEN Without(Place(Confirmed)) ELSE session
  /\ pc' = IF pc = "read" THEN "top" ELSE pc
  /\ UNCHANGED <<stat, left, link, uplink, late>>

(* The thread is free for its own business.                                *)
Free == acking = None

(* A packet that is not awaited is discarded.                              *)
TakeOther ==
  /\ Free /\ pc \in Waits /\ net # <<>>
  /\ Head(net).type \in Replies \ Awaited(pc)
  /\ net' = Tail(net)
  /\ UNCHANGED <<stat, pc, left, acking, link, broker, history>>

Arrives == net # <<>> /\ Head(net).type \in Awaited(pc)

-----------------------------------------------------------------------------
(* run_mqtt, from the connected socket on.  The broker accepts the client  *)
(* and will deliver what it holds.  A command that was dropped before is   *)
(* delivered now, so the histories start again.                            *)
Connect ==
  /\ Free /\ pc = "off"
  /\ pc' = "connack" /\ link' = TRUE
  /\ net' = <<Reply("connack")>>
  /\ session' = [k \in DOMAIN session |->
                   [session[k] EXCEPT !.sent = FALSE, !.done = FALSE]]
  /\ clean' = TRUE
  /\ mode' = IF clean THEN mode ELSE Amount(Settled(stat), session')
  /\ UNCHANGED <<stat, left, acking, uplink, late>>

Subscribe ==
  /\ Free /\ pc = "connack" /\ Arrives
  /\ pc' = "suback"
  /\ Write(Tail(net), <<Reply("suback")>>)
  /\ UNCHANGED <<stat, left, acking, link, broker, late>>

SayConnected ==
  /\ Free /\ pc = "suback" /\ Arrives
  /\ pc' = "hello"
  /\ Write(Tail(net), <<Reply("puback")>>)
  /\ UNCHANGED <<stat, left, acking, link, broker, late>>

(* publish_msg("connected") returns; its result is not looked at.          *)
EnterLoop ==
  /\ Free /\ pc = "hello" /\ Arrives
  /\ net' = Tail(net)
  /\ pc' = "top"
  /\ UNCHANGED <<stat, left, acking, link, broker, history>>

-----------------------------------------------------------------------------
(* run_app: the status is tested once per pass.                            *)
Top_Unchecked ==
  /\ Free /\ pc = "top"
  /\ pc' = "report" /\ left' = PassSize
  /\ UNCHANGED <<stat, acking, link, net, broker, history>>

Top ==
  /\ Free /\ pc = "top"
  /\ IF stat = "closed" THEN pc' = "report" /\ left' = PassSize
                        ELSE pc' = "read" /\ UNCHANGED left
  /\ UNCHANGED <<stat, acking, link, net, broker, history>>

(* send_device publishes the device of a slot, or the pass is over; which  *)
(* devices are due is the business of BtReport.                            *)
Unreported_OffByOne == left >= 0
Unreported == left > 0

Report(d) ==
  /\ Free /\ pc = "report" /\ Unreported
  /\ pc' = "puback" /\ left' = left - 1
  /\ Write(net, <<Reply("puback")>>)
  /\ uplink' = IF link THEN uplink \union {d} ELSE uplink
  /\ late' = IF stat = "locked" THEN late + 1 ELSE late
  /\ UNCHANGED <<stat, acking, link, session>>

EndPass_NoRead ==
  /\ Free /\ pc = "report"
  /\ pc' = "top" /\ left' = 0
  /\ UNCHANGED <<stat, acking, link, net, broker, history>>

EndPass ==
  /\ Free /\ pc = "report"
  /\ pc' = "read" /\ left' = 0
  /\ UNCHANGED <<stat, acking, link, net, broker, history>>

(* The acknowledgement of a report.  One that is left over from a report   *)
(* that timed out may be taken for it.                                     *)
Acknowledged ==
  /\ Free /\ pc = "puback" /\ Arrives
  /\ net' = Tail(net)
  /\ pc' \in {"report", "puback"}
  /\ UNCHANGED <<stat, left, acking, link, broker, history>>

(* read_msg and the ping return whatever packet came.                      *)
ReadSomething ==
  /\ Free /\ pc \in {"read", "pong"} /\ Arrives
  /\ net' = Tail(net)
  /\ pc' = "top"
  /\ UNCHANGED <<stat, left, acking, link, broker, history>>

(* A wait times out.  run_mqtt fails and starts again, publish_msg returns *)
(* an error nobody looks at, read_msg sends a ping.                        *)
GiveUp_Retry(p) == IF p = "hello" THEN "top" ELSE p
GiveUp(p) == CASE p \in {"hello", "pong"} -> "top"
               [] p = "puback"            -> "report"

Silence == Free /\ Len(net) < MaxLate

TimeoutConnect ==
  /\ Silence /\ pc \in {"connack", "suback"}
  /\ pc' = "off" /\ link' = FALSE /\ net' = <<>>
  /\ UNCHANGED <<stat, left, acking, broker, history>>

Timeout ==
  /\ Silence /\ pc \in {"hello", "puback", "pong"}
  /\ pc' = GiveUp(pc)
  /\ UNCHANGED <<stat, left, acking, link, net, broker, history>>

Ping ==
  /\ Silence /\ pc = "read"
  /\ pc' = "pong"
  /\ Write(net, <<Reply("pingresp")>>)
  /\ UNCHANGED <<stat, left, acking, link, broker, late>>

-----------------------------------------------------------------------------
(* The timer interrupt ends an opening; the timer runs once run_mqtt is    *)
(* through.  Door has its time.                                            *)
PeriodicTimeout ==
  /\ pc \in Loop /\ stat = "open"
  /\ stat' = "closed"
  /\ UNCHANGED <<pc, left, acking, link, net, broker, history>>

(* The door loses its power.  dr_iot starts as {0}.                        *)
Restart ==
  /\ pc # "off"
  /\ stat' = "closed" /\ pc' = "off" /\ left' = 0 /\ acking' = None
  /\ link' = FALSE /\ net' = <<>>
  /\ clean' = FALSE /\ mode' = "closed" /\ late' = 0
  /\ UNCHANGED broker

(* The connection is lost, with what was under way; what is in the ring    *)
(* stays.                                                                  *)
Drop ==
  /\ link
  /\ link' = FALSE
  /\ \E k \in 0 .. Len(net) : net' = SubSeq(net, 1, k)
  /\ UNCHANGED <<stat, pc, left, acking, broker, history>>

(* The broker: a command of the server is accepted, sent to the door, and  *)
(* a report passed to the server.                                          *)
Accept(i, c) ==
  /\ i \notin HeldIds
  /\ session' = Append(session, [id |-> i, cmd |-> c, sent |-> FALSE,
                                 done |-> FALSE])
  /\ mode' = IF clean THEN After(mode, c) ELSE mode
  /\ UNCHANGED <<stat, pc, left, acking, link, net, uplink, clean, late>>

Forward(k) ==
  /\ link /\ Len(net) < MaxNet
  /\ ~session[k].sent /\ \A j \in 1 .. k - 1 : session[j].sent
  /\ net' = Append(net, [type |-> "publish", id |-> session[k].id])
  /\ session' = [session EXCEPT ![k].sent = TRUE]
  /\ UNCHANGED <<stat, pc, left, acking, link, uplink, history>>

ServerTakes(d) ==
  /\ d \in uplink
  /\ uplink' = uplink \ {d}
  /\ UNCHANGED <<stat, pc, left, acking, link, net, session, history>>

-----------------------------------------------------------------------------
Packet == \/ TakeOther \/ Subscribe \/ SayConnected \/ EnterLoop
          \/ Acknowledged \/ ReadSomething
Thread == \/ TakeCommand \/ Ack \/ Packet \/ Top \/ EndPass
          \/ \E d \in Devices : Report(d)
          \/ TimeoutConnect \/ Timeout \/ Ping
Door   == Thread \/ Connect \/ PeriodicTimeout \/ Restart \/ Drop
Next ==
  \/ Door
  \/ \E i \in Ids, c \in Commands : Accept(i, c)
  \/ \E k \in DOMAIN session : Forward(k)
  \/ \E d \in Devices : ServerTakes(d)

Spec == Init /\ [][Next]_vars

(* Every call of the thread returns, by its time-out if need be.  A packet *)
(* under way arrives before all waits have timed out on it, and the broker *)
(* sends what it holds while the connection stands.                        *)
Fairness ==
  /\ WF_vars(Thread)
  /\ SF_vars(TakeCommand) /\ SF_vars(Packet)
  /\ SF_vars(\E k \in DOMAIN session : Forward(k))

FairSpec == Spec /\ Fairness

-----------------------------------------------------------------------------
(* Every variable has its type.                                            *)
SystemOK ==
  /\ stat \in Statuses
  /\ pc \in Places
  /\ left \in 0 .. PassSize
  /\ acking \in Ids \union {None}
  /\ link \in BOOLEAN
  /\ net \in Seq(Packets)
  /\ session \in Seq(Messages)
  /\ uplink \subseteq Devices
TypeOK ==
  /\ SystemOK
  /\ clean \in BOOLEAN /\ mode \in Plain /\ late \in Nat

(* Although a command may be handled inside any wait, a packet may be      *)
(* flushed, and the connection or the power may fail between handling a    *)
(* command and acknowledging it, the commands keep the promise of          *)
(* CommandLink: in order, once per connection, none let go unheard.        *)
Link == INSTANCE CommandLink WITH
  queue <- [k \in DOMAIN session |-> [id   |-> session[k].id,
                                      cmd  |-> session[k].cmd,
                                      done |-> session[k].done]]
ImplementsCommandLink == Link!Spec

(* The door and the commands agree: unless a flush dropped one, the status *)
(* and what is still to take effect amount to what all commands amount to. *)
(* This holds over a new connection, which repeats commands that had taken *)
(* effect but were not acknowledged.                                       *)
Agreement == clean => Amount(Settled(stat), session) = mode

(* A lock silences the door although it may be handled in the middle of a  *)
(* pass that was begun for a closed door: the pass goes on, but it ends    *)
(* with fewer reports than the scan list has slots, and no other begins.   *)
LockSilences == stat = "locked" => late < PassSize

(* The inductive invariant behind LockSilences and ImplementsCommandLink:  *)
(* what the pass has left; no two commands of one identifier, and the      *)
(* broker sends them in order; those under way are in the order of the     *)
(* session and no later one has taken effect; and the one being            *)
(* acknowledged has.                                                       *)
PassInv ==
  /\ pc \notin {"report", "puback"} => left = 0
  /\ pc = "puback" => left < PassSize
  /\ stat = "locked" => late + left < PassSize
SessionInv ==
  \A j, k \in DOMAIN session :
    /\ session[j].id = session[k].id => j = k
    /\ j < k /\ session[k].sent => session[j].sent
    /\ session[k].done => session[k].sent
Carries(n, k) == net[n].type = "publish" /\ net[n].id = session[k].id
NetInv ==
  \A n \in DOMAIN net : net[n].type = "publish" =>
    \E k \in DOMAIN session :
      /\ Carries(n, k) /\ session[k].sent
      /\ \A j \in DOMAIN session : k =< j => ~session[j].done
OrderInv ==
  \A m, n \in DOMAIN net, j, k \in DOMAIN session :
    m < n /\ Carries(m, j) /\ Carries(n, k) => j < k
AckInv ==
  acking # None =>
    \E k \in DOMAIN session : session[k].id = acking /\ session[k].done
IInv ==
  /\ SystemOK /\ late \in Nat
  /\ PassInv /\ SessionInv /\ NetInv /\ OrderInv /\ AckInv

(* The inductive invariant behind Agreement.  What was sent is under way,  *)
(* unless it was lost with the connection and everything after it; while   *)
(* the connection stands only the command being acknowledged, the first,   *)
(* has taken effect; and to repeat all commands of the session would lead  *)
(* to the same status as the rest of them.                                 *)
SentInv ==
  clean => \A j \in DOMAIN session : session[j].sent /\ ~session[j].done =>
    \/ \E n \in DOMAIN net : Carries(n, j)
    \/ /\ ~link
       /\ \A n \in DOMAIN net, k \in DOMAIN session : Carries(n, k) => k < j
FirstInv ==
  link =>
    /\ \A k \in DOMAIN session : session[k].done => session[k].id = acking
    /\ clean /\ acking # None => session[1].id = acking
Unmarked(q) == [k \in DOMAIN q |-> [q[k] EXCEPT !.done = FALSE]]
RepeatInv == clean => Amount(Settled(stat), Unmarked(session)) = mode
HistoryInv ==
  /\ clean \in BOOLEAN /\ mode \in Plain
  /\ SentInv /\ FirstInv /\ RepeatInv /\ Agreement

(* A command the broker holds is handled and let go, unless the connection *)
(* ends or a flush dropped a command.                                      *)
Delivered ==
  \A i \in Ids : (i \in HeldIds /\ link) ~> (i \notin HeldIds \/ ~link \/ ~clean)

(* The thread comes back to the top of its loop from wherever it waits,    *)
(* also when acknowledgements never come; only commands keep it.           *)
LoopGoesOn == pc \in Loop \union {"hello"} ~> (pc \in {"top", "off"} \/ ~Free)

(* A command that the server sends to a connected door is received: it is  *)
(* handled and let go as long as the connection stands.                    *)
CommandObeyed ==
  \A i \in Ids : (i \in HeldIds /\ link) ~> (i \notin HeldIds \/ ~link)
=============================================================================
