---------------------------- MODULE ServerProofs ----------------------------
(***************************************************************************)
(* Proofs about Server for any set of devices, of worker threads and of    *)
(* orders, and any bounds on the queues.                                   *)
(***************************************************************************)
EXTENDS Server, SequenceTheorems, TLAPS

(* The invariant by the parts of the server: the message at hand and the   *)
(* database, the workers, the out-queue, the list of devices to name, and  *)
(* the state of the connection.                                            *)
Hand ==
  /\ db \in [Addrs -> States]
  /\ mpc \in {"idle", "lookup", "found", "matched", "dead"}
  /\ maddr \in Addrs \union {None}
  /\ was_valid \in BOOLEAN
  /\ HandInv
Pool ==
  /\ wpc \in [Workers -> {"idle", "publish", "opening", "pop"}]
  /\ job \in [Workers -> Commands \union {None}]
  /\ JobInv
Queue   == out \in Seq(Commands) /\ Len(out) =< MaxOut /\ RoomInv
Naming  == waiting \in Seq(Addrs) /\ Len(waiting) =< MaxWaiting
Network == online \in BOOLEAN /\ subscribed \in BOOLEAN

LEMMA Parts == IInv <=> Hand /\ Pool /\ Queue /\ Naming /\ Network
BY DEF IInv, TypeOK, Hand, Pool, Queue, Naming, Network

LEMMA OrdersType == Orders \subseteq Commands /\ "open_door" \in Commands
BY ServerAssumption DEF Commands

LEMMA InitIInv == Init => IInv
<1> SUFFICES ASSUME Init PROVE Hand /\ Pool /\ Queue /\ Naming /\ Network
  BY Parts
<1>1. Hand
  <2>1. was_valid \in BOOLEAN
    BY Zenon DEF Init
  <2> QED
    BY <2>1 DEF Init, Hand, HandInv, States
<1>2. Pool
  BY DEF Init, Pool, JobInv
<1>3. Queue
  BY ServerAssumption, EmptySeq DEF Init, Queue, RoomInv
<1>4. Naming
  BY ServerAssumption, EmptySeq DEF Init, Naming
<1>5. Network
  BY Zenon DEF Init, Network
<1> QED
  BY <1>1, <1>2, <1>3, <1>4, <1>5

-----------------------------------------------------------------------------
(* A device that is extended is still absent, without an end, or has one.  *)
LEMMA ExtendedType ==
  ASSUME NEW d \in States
  PROVE  Extended(d) \subseteq States
<1>1. CASE d \in {"never", "ahead"}
  BY <1>1 DEF Extended, States
<1>2. CASE d = "over"
  BY <1>2 DEF Extended, States
<1>3. CASE d = "absent"
  BY <1>3 DEF Extended, States
<1> QED
  BY <1>1, <1>2, <1>3 DEF States

(* A change of one device keeps the database and remembers that the device *)
(* at hand was entitled.                                                   *)
LEMMA SetDeviceKeeps ==
  ASSUME Hand, NEW a \in Addrs, NEW d \in States, SetDevice(a, d)
  PROVE  Hand'
<1>1. was_valid' \in BOOLEAN
  BY Zenon DEF SetDevice, Hand
<1>2. db' \in [Addrs -> States] /\ UNCHANGED <<mpc, maddr>>
  BY DEF SetDevice, Hand
<1>3. was_valid => was_valid'
  BY DEF SetDevice
<1>4. ASSUME mpc = "lookup", Entitled(db'[maddr]) PROVE was_valid'
  <2>1. maddr \in Addrs /\ (Entitled(db[maddr]) => was_valid)
    BY <1>4 DEF Hand, HandInv
  <2>2. CASE a = maddr
    BY <1>4, <2>1, <2>2 DEF SetDevice, Hand
  <2>3. CASE a # maddr
    BY <1>3, <1>4, <2>1, <2>3 DEF SetDevice, Hand
  <2> QED
    BY <2>2, <2>3
<1> QED
  BY <1>1, <1>2, <1>3, <1>4 DEF Hand, HandInv, Entitled

(* A callback that is left has no device at hand.                          *)
LEMMA LeaveKeeps ==
  ASSUME NEW s \in {"idle", "dead"}, Leave(s)
  PROVE  /\ mpc' = s /\ maddr' = None /\ was_valid' \in BOOLEAN
         /\ HandInv'
<1>1. was_valid' \in BOOLEAN
  BY Zenon DEF Leave
<1> QED
  BY <1>1 DEF Leave, HandInv

LEMMA MessageKeeps ==
  ASSUME MessageToTelegram
  PROVE  /\ mpc' \in {"idle", "dead"} /\ maddr' = None
         /\ was_valid' \in BOOLEAN /\ HandInv'
BY LeaveKeeps DEF MessageToTelegram

(* The device at hand is followed through lookup, name and command.        *)
LEMMA HandStep == Hand /\ [Next]_vars => Hand'
<1> SUFFICES ASSUME Hand, [Next]_vars PROVE Hand'
  OBVIOUS
<1>1. ASSUME NEW a \in Addrs, Receive(a) PROVE Hand'
  <2>1. was_valid' \in BOOLEAN
    <3>1. Entitled(db[a]) \in BOOLEAN
      BY SMT DEF Entitled
    <3> QED
      BY <1>1, <3>1, Zenon DEF Receive
  <2> QED
    BY <1>1, <2>1 DEF Receive, Hand, HandInv
<1>2. CASE Lookup
  <2>1. maddr \in Addrs /\ db[maddr] \in States
    BY <1>2 DEF Lookup, Hand, HandInv
  <2>2. CASE Found(db[maddr])
    BY <1>2, <2>1, <2>2
       DEF Lookup, Hand, HandInv, Found, Entitled, States
  <2>3. CASE ~Found(db[maddr])
    <3>1. MessageToTelegram /\ db' = [db EXCEPT ![maddr] = "absent"]
      BY <1>2, <2>3 DEF Lookup
    <3> QED
      BY <2>1, <3>1, MessageKeeps DEF Hand, States
  <2> QED
    BY <2>2, <2>3
<1>3. CASE ReadName
  <2>1. CASE db[maddr] = "absent"
    BY <1>3, <2>1, LeaveKeeps DEF ReadName, Hand
  <2>2. CASE db[maddr] # "absent"
    BY <1>3, <2>2 DEF ReadName, Hand, HandInv
  <2> QED
    BY <2>1, <2>2
<1>4. CASE OpenForDevice
  BY <1>4, LeaveKeeps DEF OpenForDevice, Hand
<1>5. ASSUME NEW a \in Addrs, Expire(a) PROVE Hand'
  BY <1>5, SetDeviceKeeps DEF Expire, States
<1>6. ASSUME NEW w \in Workers, NEW a \in Addrs,
             \/ PressAccept(w, a) \/ PressRemove(w, a)
             \/ PressUntil(w, a) \/ PressDevice(w, a)
      PROVE  Hand'
  <2>1. db[a] \in States
    BY DEF Hand
  <2>2. CASE PressAccept(w, a)
    BY <2>1, <2>2, SetDeviceKeeps DEF PressAccept, States
  <2>3. CASE PressRemove(w, a)
    BY <2>3, SetDeviceKeeps DEF PressRemove, States
  <2>4. CASE PressUntil(w, a)
    <3>1. Extended(db[a]) \subseteq States
      BY <2>1, ExtendedType
    <3> QED
      BY <2>4, <3>1, SetDeviceKeeps DEF PressUntil, States
  <2>5. CASE PressDevice(w, a)
    BY <2>1, <2>5, SetDeviceKeeps DEF PressDevice, States
  <2> QED
    BY <1>6, <2>2, <2>3, <2>4, <2>5
<1>7. ASSUME NEW w \in Workers,
             \/ \E c \in Orders : Command(w, c)
             \/ PublishCommand(w) \/ PressOpen(w) \/ TryOpen(w)
             \/ Text(w) \/ Pop(w)
             \/ \E a \in Addrs : PressAdd(w, a)
      PROVE  Hand'
  BY <1>7 DEF Command, PublishCommand, PressOpen, TryOpen, Text, Pop, PressAdd,
              network, Hand, HandInv
<1>8. CASE Send \/ Disconnect \/ UNCHANGED vars
  BY <1>8 DEF Send, Disconnect, vars, network, Hand, HandInv
<1>9. CASE Announce \/ Reconnect
  BY <1>9, MessageKeeps DEF Announce, Reconnect, Hand
<1> QED
  BY <1>1, <1>2, <1>3, <1>4, <1>5, <1>6, <1>7, <1>8, <1>9 DEF Next

-----------------------------------------------------------------------------
(* A worker publishes only what it was told to.                            *)
LEMMA PoolStep == Pool /\ [Next]_vars => Pool'
<1> SUFFICES ASSUME Pool, [Next]_vars PROVE Pool'
  OBVIOUS
<1>1. ASSUME NEW w \in Workers, NEW c \in Orders, Command(w, c) PROVE Pool'
  BY <1>1, OrdersType DEF Command, Pool, JobInv
<1>2. ASSUME NEW w \in Workers, Done(w) PROVE Pool'
  BY <1>2 DEF Done, Pool, JobInv
<1>3. ASSUME NEW w \in Workers, PressOpen(w) \/ Text(w) PROVE Pool'
  BY <1>3 DEF PressOpen, Text, Pool, JobInv
<1>4. ASSUME UNCHANGED worker PROVE Pool'
  BY <1>4 DEF worker, Pool, JobInv
<1>5. ASSUME NEW w \in Workers, PublishCommand(w) \/ TryOpen(w) \/ Pop(w)
      PROVE  Pool'
  BY <1>2, <1>4, <1>5 DEF PublishCommand, TryOpen, Pop
<1>6. ASSUME NEW w \in Workers, NEW a \in Addrs,
             \/ PressAdd(w, a) \/ PressAccept(w, a) \/ PressRemove(w, a)
             \/ PressUntil(w, a) \/ PressDevice(w, a)
      PROVE  Pool'
  BY <1>4, <1>6 DEF PressAdd, PressAccept, PressRemove, PressUntil, PressDevice
<1>7. ASSUME NEW a \in Addrs, Receive(a) \/ Expire(a) PROVE Pool'
  BY <1>4, <1>7 DEF Receive, Expire
<1>8. CASE Announce \/ Lookup \/ ReadName \/ OpenForDevice
  BY <1>4, <1>8 DEF Announce, Lookup, ReadName, OpenForDevice
<1>9. CASE Send \/ Disconnect \/ Reconnect \/ UNCHANGED vars
  BY <1>4, <1>9 DEF Send, Disconnect, Reconnect, vars
<1> QED
  BY <1>1, <1>3, <1>5, <1>6, <1>7, <1>8, <1>9 DEF Next

-----------------------------------------------------------------------------
(* A command that is published makes the queue one longer, or is ignored.  *)
LEMMA PublishType ==
  ASSUME Queue, NEW c \in Commands, Publish(c)
  PROVE  /\ out' \in Seq(Commands)
         /\ mpc = "dead" => out' = out
         /\ mpc # "dead" => Len(out') = Len(out) + 1
         /\ UNCHANGED <<online, subscribed>>
<1>1. out \in Seq(Commands)
  BY DEF Queue
<1>2. Append(out, c) \in Seq(Commands) /\ Len(Append(out, c)) = Len(out) + 1
  BY <1>1, AppendProperties
<1> QED
  BY <1>1, <1>2 DEF Publish

(* The workers leave the last place of the queue to the network thread.    *)
LEMMA WorkerPublishes ==
  ASSUME Queue, NEW c \in Commands, Publish(c), Room, UNCHANGED network
  PROVE  Queue'
<1>1. Len(out) \in Nat /\ MaxOut \in Nat
  BY LenProperties, ServerAssumption DEF Queue
<1>2. CASE mpc = "dead"
  BY <1>2, PublishType DEF Queue, RoomInv, network
<1>3. CASE mpc # "dead"
  <2>1. Len(out) < MaxOut - 1
    BY <1>3 DEF Room
  <2> QED
    BY <1>1, <1>3, <2>1, PublishType DEF Queue, RoomInv, network
<1> QED
  BY <1>2, <1>3

LEMMA QueueStep == Hand /\ Pool /\ Queue /\ [Next]_vars => Queue'
<1> SUFFICES ASSUME Hand, Pool, Queue, [Next]_vars PROVE Queue'
  OBVIOUS
<1>1. Len(out) \in Nat /\ MaxOut \in Nat
  BY LenProperties, ServerAssumption DEF Queue
<1>2. ASSUME UNCHANGED <<out, mpc>> PROVE Queue'
  BY <1>2 DEF Queue, RoomInv
<1>3. ASSUME NEW a \in Addrs, Receive(a) PROVE Queue'
  BY <1>3 DEF Receive, client, Queue, RoomInv
<1>4. CASE Announce \/ Lookup \/ ReadName \/ Reconnect
  <2>1. UNCHANGED out
    BY <1>4 DEF Announce, Lookup, ReadName, Reconnect, client
  <2>2. \/ mpc' \in {"idle", "dead"}
        \/ mpc \in {"lookup", "found"}
    BY <1>4 DEF Announce, Lookup, ReadName, Reconnect, MessageToTelegram, Leave
  <2> QED
    BY <2>1, <2>2 DEF Queue, RoomInv
<1>5. CASE OpenForDevice
  <2>0. CASE Leave("dead") /\ UNCHANGED client
    BY <2>0 DEF Leave, client, Queue, RoomInv
  <2> SUFFICES ASSUME Publish("open_door") /\ Leave("idle") PROVE Queue'
    BY <1>5, <2>0 DEF OpenForDevice
  <2>1. Publish("open_door") /\ mpc = "matched" /\ mpc' = "idle"
    BY <1>5 DEF OpenForDevice, Leave
  <2>2. Len(out) < MaxOut
    BY <2>1 DEF Queue, RoomInv
  <2> QED
    BY <1>1, <2>1, <2>2, PublishType, OrdersType DEF Queue, RoomInv
<1>6. ASSUME NEW w \in Workers, PublishCommand(w) PROVE Queue'
  <2>1. job[w] \in Commands
    BY <1>6 DEF PublishCommand, Pool, JobInv
  <2> QED
    BY <1>6, <2>1, WorkerPublishes DEF PublishCommand
<1>7. ASSUME NEW w \in Workers, TryOpen(w) PROVE Queue'
  BY <1>7, WorkerPublishes, OrdersType DEF TryOpen
<1>8. CASE Send
  <2>1. out' = Tail(out) /\ out # <<>> /\ UNCHANGED mpc /\ mpc = "idle"
    BY <1>8 DEF Send, network
  <2>2. Tail(out) \in Seq(Commands) /\ Len(Tail(out)) = Len(out) - 1
    BY <2>1, HeadTailProperties DEF Queue
  <2> QED
    BY <1>1, <2>1, <2>2 DEF Queue, RoomInv
<1>9. ASSUME NEW w \in Workers,
             \/ \E c \in Orders : Command(w, c)
             \/ PressOpen(w) \/ Text(w) \/ Pop(w)
             \/ \E a \in Addrs : \/ PressAdd(w, a) \/ PressAccept(w, a)
                                 \/ PressRemove(w, a) \/ PressUntil(w, a)
                                 \/ PressDevice(w, a)
      PROVE  Queue'
  BY <1>2, <1>9 DEF Command, PressOpen, Text, Pop, PressAdd, PressAccept,
     PressRemove, PressUntil, PressDevice, SetDevice, client, network
<1>10. ASSUME NEW a \in Addrs, Expire(a) PROVE Queue'
  BY <1>2, <1>10 DEF Expire, SetDevice, client
<1>11. CASE Disconnect \/ UNCHANGED vars
  BY <1>2, <1>11 DEF Disconnect, vars, client, network
<1> QED
  BY <1>3, <1>4, <1>5, <1>6, <1>7, <1>8, <1>9, <1>10, <1>11 DEF Next

-----------------------------------------------------------------------------
(* The list of devices to name keeps its bound, also when two workers pop  *)
(* from it after one test.                                                 *)
LEMMA NamingStep == Naming /\ [Next]_vars => Naming'
<1> SUFFICES ASSUME Naming, [Next]_vars PROVE Naming'
  OBVIOUS
<1>1. Len(waiting) \in Nat /\ MaxWaiting \in Nat
  BY LenProperties, ServerAssumption DEF Naming
<1>2. ASSUME UNCHANGED waiting PROVE Naming'
  BY <1>2 DEF Naming
<1>3. ASSUME NEW w \in Workers, NEW a \in Addrs, PressAdd(w, a) PROVE Naming'
  <2>1. /\ Append(waiting, a) \in Seq(Addrs)
        /\ Len(Append(waiting, a)) = Len(waiting) + 1
    BY AppendProperties DEF Naming
  <2> QED
    BY <1>1, <1>3, <2>1 DEF PressAdd, Naming
<1>4. ASSUME NEW w \in Workers, Pop(w) PROVE Naming'
  <2>1. CASE waiting = <<>>
    BY <1>2, <1>4, <2>1 DEF Pop
  <2>2. CASE waiting # <<>>
    <3>1. waiting' = SubSeq(waiting, 1, Len(waiting) - 1)
      BY <1>4, <2>2 DEF Pop
    <3>2. \A n \in 1 .. Len(waiting) - 1 : waiting[n] \in Addrs
      BY <1>1, ElementOfSeq DEF Naming
    <3>3. /\ waiting' \in Seq(Addrs)
          /\ Len(waiting') = IF 1 =< Len(waiting) - 1 THEN Len(waiting) - 1 ELSE 0
      BY <1>1, <3>1, <3>2, SubSeqProperties
    <3> QED
      BY <1>1, <3>3 DEF Naming
  <2> QED
    BY <2>1, <2>2
<1>5. ASSUME NEW w \in Workers,
             \/ \E c \in Orders : Command(w, c)
             \/ PublishCommand(w) \/ PressOpen(w) \/ TryOpen(w) \/ Text(w)
             \/ \E a \in Addrs : \/ PressAccept(w, a) \/ PressRemove(w, a)
                                 \/ PressUntil(w, a) \/ PressDevice(w, a)
      PROVE  Naming'
  BY <1>2, <1>5 DEF Command, PublishCommand, PressOpen, TryOpen, Text,
     PressAccept, PressRemove, PressUntil, PressDevice
<1>6. ASSUME NEW a \in Addrs, Receive(a) \/ Expire(a) PROVE Naming'
  BY <1>2, <1>6 DEF Receive, Expire
<1>7. CASE Announce \/ Lookup \/ ReadName \/ OpenForDevice
  BY <1>2, <1>7 DEF Announce, Lookup, ReadName, OpenForDevice
<1>8. CASE Send \/ Disconnect \/ Reconnect \/ UNCHANGED vars
  BY <1>2, <1>8 DEF Send, Disconnect, Reconnect, vars
<1> QED
  BY <1>3, <1>4, <1>5, <1>6, <1>7, <1>8 DEF Next

(* The client is connected or not, subscribed or not.                      *)
LEMMA NetworkStep == Network /\ [Next]_vars => Network'
<1> SUFFICES ASSUME Network, [Next]_vars PROVE Network'
  OBVIOUS
<1>1. ASSUME UNCHANGED <<online, subscribed>> PROVE Network'
  BY <1>1 DEF Network
<1>2. CASE Disconnect
  BY <1>2, Zenon DEF Disconnect, Network
<1>3. CASE Reconnect
  BY <1>3, Zenon DEF Reconnect, Network
<1>4. ASSUME NEW w \in Workers,
             \/ \E c \in Orders : Command(w, c)
             \/ PublishCommand(w) \/ PressOpen(w) \/ TryOpen(w) \/ Text(w)
             \/ Pop(w)
             \/ \E a \in Addrs : \/ PressAdd(w, a) \/ PressAccept(w, a)
                                 \/ PressRemove(w, a) \/ PressUntil(w, a)
                                 \/ PressDevice(w, a)
      PROVE  Network'
  BY <1>1, <1>4 DEF Command, PublishCommand, PressOpen, TryOpen, Text, Pop,
     PressAdd, PressAccept, PressRemove, PressUntil, PressDevice, Publish, client
<1>5. ASSUME NEW a \in Addrs, Receive(a) \/ Expire(a) PROVE Network'
  BY <1>1, <1>5 DEF Receive, Expire, client
<1>6. CASE Announce \/ Lookup \/ ReadName \/ OpenForDevice
  BY <1>1, <1>6 DEF Announce, Lookup, ReadName, OpenForDevice, Publish, client
<1>7. CASE Send \/ UNCHANGED vars
  BY <1>1, <1>7 DEF Send, vars, client
<1> QED
  BY <1>2, <1>3, <1>4, <1>5, <1>6, <1>7 DEF Next

-----------------------------------------------------------------------------
LEMMA StepIInv == IInv /\ [Next]_vars => IInv'
<1> SUFFICES ASSUME Hand, Pool, Queue, Naming, Network, [Next]_vars
             PROVE  IInv'
  BY Parts
<1>1. Hand' /\ Pool' /\ Queue' /\ Naming' /\ Network'
  BY HandStep, PoolStep, QueueStep, NamingStep, NetworkStep
<1>2. (IInv <=> Hand /\ Pool /\ Queue /\ Naming /\ Network)'
  BY Parts, PTL
<1> QED
  BY <1>1, <1>2

(* The inductive invariant holds for any devices, workers and bounds.      *)
THEOREM Invariance == Spec => []IInv
BY InitIInv, StepIInv, PTL DEF Spec

(* Every variable keeps its type, and the queues keep their bounds.        *)
THEOREM TypeCorrect == Spec => []TypeOK
<1>1. IInv => TypeOK
  BY DEF IInv
<1> QED
  BY <1>1, Invariance, PTL

(* The door is opened only for a device that was entitled after its        *)
(* message arrived, whatever owner and time do to it meanwhile.            *)
THEOREM OnlyAuthorised == Spec => OpenAuthorised
<1>1. IInv /\ [Next]_vars => [OpenForDevice => was_valid]_vars
  BY DEF IInv, HandInv, OpenForDevice
<1> QED
  BY <1>1, Invariance, PTL DEF Spec, OpenAuthorised
=============================================================================
