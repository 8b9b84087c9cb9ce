-------------------------- MODULE SmartLockProofs --------------------------
(***************************************************************************)
(* Proofs about SmartLock for any set of devices, workers and orders, and  *)
(* any bounds on the queues.  What is proved of Server and of DoorApp is   *)
(* taken over: SP and DP are their proofs, read for the parts of this      *)
(* system, and every step of the system is one of the server or leaves it  *)
(* alone, and one of the door or leaves it alone.                          *)
(***************************************************************************)
EXTENDS SmartLock, SequenceTheorems, TLAPS

SP == INSTANCE ServerProofs WITH Addrs <- Devices, MaxWaiting <- 0
DP == INSTANCE DoorAppProofs

-----------------------------------------------------------------------------
(* SP and DP have the definitions that S and D have.                       *)
LEMMA ServerInits == S!Init <=> SP!Init
BY DEF S!Init, SP!Init

LEMMA ServerInvs == S!IInv <=> SP!IInv
BY DEF S!IInv, S!TypeOK, S!States, S!Commands, S!HandInv, S!JobInv,
       S!RoomInv, S!Entitled,
       SP!IInv, SP!TypeOK, SP!States, SP!Commands, SP!HandInv, SP!JobInv,
       SP!RoomInv, SP!Entitled

LEMMA ServerSteps == [S!Next]_(S!vars) <=> [SP!Next]_(SP!vars)
BY DEF S!Next, S!Receive, S!Expire, S!Lookup, S!ReadName, S!OpenForDevice,
       S!Announce, S!Leave, S!MessageToTelegram,
       S!Command, S!PublishCommand, S!PressOpen, S!TryOpen, S!Text, S!Pop,
       S!PressAdd, S!PressAccept, S!PressRemove, S!PressUntil, S!PressDevice,
       S!Send, S!Disconnect, S!Reconnect, S!SetDevice, S!Publish, S!Done,
       S!Room, S!Found, S!Entitled, S!Extended, S!vars, S!network, S!worker,
       S!client,
       SP!Next, SP!Receive, SP!Expire, SP!Lookup, SP!ReadName,
       SP!OpenForDevice, SP!Announce, SP!Leave, SP!MessageToTelegram,
       SP!Command, SP!PublishCommand, SP!PressOpen,
       SP!TryOpen, SP!Text, SP!Pop, SP!PressAdd, SP!PressAccept,
       SP!PressRemove, SP!PressUntil, SP!PressDevice, SP!Send, SP!Disconnect,
       SP!Reconnect, SP!SetDevice, SP!Publish, SP!Done, SP!Room, SP!Found,
       SP!Entitled, SP!Extended, SP!vars, SP!network, SP!worker, SP!client

LEMMA DoorInits == D!Init <=> DP!Init
BY DEF D!Init, DP!Init

LEMMA DoorInvs == (D!IInv <=> DP!IInv) /\ (D!HistoryInv <=> DP!HistoryInv)
<1>1. D!IInv <=> DP!IInv
  BY DEF D!IInv, D!SystemOK, D!PassInv, D!SessionInv, D!NetInv, D!OrderInv,
         D!AckInv, D!Carries, D!Statuses, D!Places, D!Waits, D!Loop,
         D!Packets, D!Replies, D!Reply, D!Messages, D!Commands,
         DP!IInv, DP!SystemOK, DP!PassInv, DP!SessionInv, DP!NetInv,
         DP!OrderInv, DP!AckInv, DP!Carries, DP!Statuses, DP!Places,
         DP!Waits, DP!Loop, DP!Packets, DP!Replies, DP!Reply, DP!Messages,
         DP!Commands
<1>2. D!HistoryInv <=> DP!HistoryInv
  BY DEF D!HistoryInv, D!Plain, D!Statuses, D!SentInv, D!FirstInv,
         D!RepeatInv, D!Agreement, D!Carries, D!Unmarked, D!Amount, D!Course,
         D!After, D!Settled, D!Obeyed, D!Branch, D!Ignored,
         DP!HistoryInv, DP!Plain, DP!Statuses, DP!SentInv, DP!FirstInv,
         DP!RepeatInv, DP!Agreement, DP!Carries, DP!Unmarked, DP!Amount,
         DP!Course, DP!After, DP!Settled, DP!Obeyed, DP!Branch, DP!Ignored
<1> QED
  BY <1>1, <1>2

LEMMA DoorSteps ==
  /\ D!Door <=> DP!Door
  /\ [D!Next]_(D!vars) <=> [DP!Next]_(DP!vars)
<1>1. D!Door <=> DP!Door
  BY DEF D!Door, D!Thread, D!Packet, D!TakeCommand, D!Ack, D!Top, D!EndPass,
         D!Report, D!TimeoutConnect, D!Timeout, D!Ping, D!TakeOther,
         D!Subscribe, D!SayConnected, D!EnterLoop, D!Acknowledged,
         D!ReadSomething, D!Connect, D!PeriodicTimeout, D!Restart, D!Drop,
         D!Waits, D!Loop, D!Awaited, D!Replies, D!Reply, D!Settled, D!After,
         D!Course, D!Amount, D!Place, D!Without, D!Write, D!Handle,
         D!Confirmed, D!Free, D!Arrives, D!Unreported, D!GiveUp, D!Silence,
         D!Obeyed, D!Branch, D!Ignored, D!broker, D!history,
         DP!Door, DP!Thread, DP!Packet, DP!TakeCommand, DP!Ack, DP!Top,
         DP!EndPass, DP!Report, DP!TimeoutConnect, DP!Timeout, DP!Ping,
         DP!TakeOther, DP!Subscribe, DP!SayConnected, DP!EnterLoop,
         DP!Acknowledged, DP!ReadSomething, DP!Connect, DP!PeriodicTimeout,
         DP!Restart, DP!Drop, DP!Waits, DP!Loop, DP!Awaited, DP!Replies,
         DP!Reply, DP!Settled, DP!After, DP!Course, DP!Amount, DP!Place,
         DP!Without, DP!Write, DP!Handle, DP!Confirmed, DP!Free, DP!Arrives,
         DP!Unreported, DP!GiveUp, DP!Silence, DP!Obeyed, DP!Branch,
         DP!Ignored, DP!broker, DP!history
<1>2. /\ D!Next <=> DP!Next
      /\ D!vars' = D!vars <=> DP!vars' = DP!vars
  BY <1>1
     DEF D!Next, D!vars, D!Accept, D!Forward, D!ServerTakes, D!HeldIds,
         D!Commands, D!After, D!Settled, D!Obeyed, D!Branch, D!Ignored,
         D!broker, D!history,
         DP!Next, DP!vars, DP!Accept, DP!Forward, DP!ServerTakes, DP!HeldIds,
         DP!Commands, DP!After, DP!Settled, DP!Obeyed, DP!Branch, DP!Ignored,
         DP!broker, DP!history
<1> QED
  BY <1>1, <1>2

-----------------------------------------------------------------------------
(* The parts of the system are what their modules say.                     *)
LEMMA ServerPart == [Next]_vars => [S!Next]_(S!vars)
<1> SUFFICES ASSUME [Next]_vars PROVE S!Next \/ UNCHANGED server
  BY DEF server, S!vars, S!client, S!network, S!worker
<1>1. CASE \E d \in Devices : Hear(d) \/ Discard(d)
  BY <1>1 DEF Hear, Discard, S!Next
<1>2. CASE \E i \in Ids : Send(i) \/ SendTwice(i)
  BY <1>2 DEF Send, SendTwice, S!Next
<1>3. CASE \E w \in Workers : Publish(w) \/ Owner(w)
  BY <1>3 DEF Publish, Owner, S!Next
<1>4. CASE Handle \/ Network
  BY <1>4 DEF Handle, Network, S!Next
<1>5. CASE Door \/ Forward \/ UNCHANGED vars
  BY <1>5 DEF Door, Forward, vars
<1> QED
  BY <1>1, <1>2, <1>3, <1>4, <1>5 DEF Next

LEMMA DoorPart == S!IInv /\ [Next]_vars => [D!Next]_(D!vars)
<1> SUFFICES ASSUME S!IInv, [Next]_vars PROVE D!Next \/ UNCHANGED door
  BY DEF door, D!vars, D!broker, D!history
<1>1. CASE \E d \in Devices : Hear(d) \/ Discard(d)
  BY <1>1 DEF Hear, Discard, D!Next
<1>2. CASE \E i \in Ids : Send(i) \/ SendTwice(i)
  <2>1. PICK i \in Ids : Send(i) \/ SendTwice(i)
    BY <1>2
  <2>2. out # <<>> /\ D!Accept(i, Head(out))
    BY <2>1 DEF Send, SendTwice
  <2>3. Head(out) \in D!Commands
    BY <2>2, ElementOfSeq, LenProperties, EmptySeq
       DEF S!IInv, S!TypeOK, S!Commands, D!Commands
  <2> QED
    BY <2>2, <2>3 DEF D!Next
<1>3. CASE \/ \E w \in Workers : Publish(w) \/ Owner(w)
           \/ Handle \/ Network \/ UNCHANGED vars
  BY <1>3 DEF Publish, Owner, Handle, Network, vars
<1>4. CASE Door \/ Forward
  BY <1>4 DEF Door, Forward, D!Next
<1> QED
  BY <1>1, <1>2, <1>3, <1>4 DEF Next

(* So their invariants hold here.                                          *)
LEMMA StepServer == S!IInv /\ [Next]_vars => S!IInv'
<1>1. SP!IInv /\ [SP!Next]_(SP!vars) => SP!IInv'
  BY LockAssumption, SP!StepIInv DEF Commands
<1>2. S!IInv' <=> SP!IInv'
  BY ServerInvs, PTL
<1> QED
  BY <1>1, <1>2, ServerInvs, ServerPart, ServerSteps

LEMMA StepDoor ==
  S!IInv /\ D!IInv /\ D!HistoryInv /\ [Next]_vars => D!IInv' /\ D!HistoryInv'
<1>1. DP!IInv /\ [DP!Next]_(DP!vars) => DP!IInv'
  BY LockAssumption, DP!StepIInv
<1>2. DP!IInv /\ DP!HistoryInv /\ [DP!Next]_(DP!vars) => DP!HistoryInv'
  BY LockAssumption, DP!StepHistory
<1>3. (D!IInv' <=> DP!IInv') /\ (D!HistoryInv' <=> DP!HistoryInv')
  BY DoorInvs, PTL
<1> QED
  BY <1>1, <1>2, <1>3, DoorInvs, DoorPart, DoorSteps

-----------------------------------------------------------------------------
(* A command that has taken effect stands, and open_door leaves it so.     *)
StandsAt(c, s) ==
  /\ c = "lock" => s = "locked"
  /\ c = "normal" => s \in {"closed", "open"}

LEMMA ObeyedStands ==
  ASSUME NEW s \in Statuses, NEW c \in {"lock", "normal"}
  PROVE  /\ StandsAt(c, DP!Obeyed(s, c))
         /\ StandsAt(c, s) => StandsAt(c, DP!Obeyed(s, "open_door"))
<1>1. CASE s = "closed"
  BY <1>1 DEF StandsAt, DP!Obeyed, DP!Branch, DP!Ignored
<1>2. CASE s = "open"
  BY <1>2 DEF StandsAt, DP!Obeyed, DP!Branch, DP!Ignored
<1>3. CASE s = "unlocked"
  BY <1>3 DEF StandsAt, DP!Obeyed, DP!Branch, DP!Ignored
<1>4. CASE s = "locked"
  BY <1>4 DEF StandsAt, DP!Obeyed, DP!Branch, DP!Ignored
<1> QED
  BY <1>1, <1>2, <1>3, <1>4 DEF Statuses

(* What OrderHeld says of the session: the order is its command k, or it   *)
(* has been let go when k is 0.                                            *)
HeldAt(k) ==
  /\ k = 0 \/ session[k].cmd = order
  /\ \A j \in DOMAIN session : k < j => session[j].cmd = "open_door"
  /\ k = 0 \/ session[k].done => StandsAt(order, stat)

LEMMA HeldParts ==
  /\ OrderHeld <=> /\ \A j \in DOMAIN out : out[j] = "open_door"
                   /\ \E k \in 0 .. Len(session) : HeldAt(k)
  /\ Stands <=> StandsAt(order, stat)
BY DEF OrderHeld, HeldAt, StandsAt, Stands

(* The same after a step.                                                  *)
LEMMA HeldPartsNext ==
  OrderHeld' <=> /\ \A j \in DOMAIN out' : out'[j] = "open_door"
                 /\ \E k \in 0 .. Len(session') : HeldAt(k)'
BY DEF OrderHeld, HeldAt, StandsAt, Stands

(* Whatever the door does with its commands, the last one that is not      *)
(* open_door is the order, and stands once it has taken effect.            *)
LEMMA MovesKeepHeld ==
  ASSUME stat \in Statuses, session \in Seq(DP!Messages),
         order \in {"lock", "normal"}, order' = order,
         NEW k \in 0 .. Len(session), HeldAt(k),
         DP!Stays \/ DP!TakesEffect \/ DP!LetsGo \/ DP!Repeats
  PROVE  \E m \in 0 .. Len(session') : HeldAt(m)'
<1>1. /\ Len(session) \in Nat /\ DOMAIN session = 1 .. Len(session)
      /\ k = 0 \/ k \in DOMAIN session
  BY LenProperties
<1>2. CASE DP!Stays
  <2>1. StandsAt(order, stat) => StandsAt(order, stat')
    BY <1>2 DEF DP!Stays, StandsAt
  <2> QED
    BY <1>2, <2>1 DEF DP!Stays, HeldAt
<1>3. CASE DP!TakesEffect
  <2>1. PICK i \in DOMAIN session :
          /\ \A j \in DOMAIN session : i =< j => ~session[j].done
          /\ session' = [session EXCEPT ![i].done = TRUE]
          /\ stat' = DP!Obeyed(stat, session[i].cmd)
    BY <1>3 DEF DP!TakesEffect
  <2>2. /\ DOMAIN session' = DOMAIN session /\ Len(session') = Len(session)
        /\ \A j \in DOMAIN session : session'[j].cmd = session[j].cmd
        /\ \A j \in DOMAIN session \ {i} : session'[j] = session[j]
    <3>1. /\ DOMAIN session' = DOMAIN session
          /\ \A j \in DOMAIN session \ {i} : session'[j] = session[j]
          /\ session'[i] = [session[i] EXCEPT !.done = TRUE]
      BY <2>1
    <3>2. session'[i].cmd = session[i].cmd
      BY <2>1, <3>1, ElementOfSeq, <1>1 DEF DP!Messages
    <3>3. Len(session') = Len(session)
      BY <2>1, ExceptSeq, <1>1
    <3> QED
      BY <3>1, <3>2, <3>3
  <2>3. ASSUME k = 0 \/ session'[k].done
        PROVE  StandsAt(order, stat')
    <3>1. CASE i = k
      BY <1>1, <2>1, <3>1, ObeyedStands DEF HeldAt
    <3>2. CASE i # k
      <4>1. k = 0 \/ session[k].done
        BY <1>1, <2>2, <2>3, <3>2
      <4>2. k < i
        BY <1>1, <2>1, <4>1, <3>2
      <4>3. session[i].cmd = "open_door" /\ StandsAt(order, stat)
        BY <4>1, <4>2, <2>1 DEF HeldAt
      <4> QED
        BY <2>1, <4>3, ObeyedStands
    <3> QED
      BY <3>1, <3>2
  <2>4. HeldAt(k)'
    BY <1>1, <2>2, <2>3 DEF HeldAt
  <2> QED
    BY <2>2, <2>4
<1>4. CASE DP!LetsGo
  <2>1. /\ stat' = stat
        /\ 1 \in DOMAIN session /\ session[1].done
        /\ Len(session') = Len(session) - 1
        /\ DOMAIN session' = 1 .. Len(session) - 1
        /\ \A n \in 1 .. Len(session) - 1 : session'[n] = session[n + 1]
    BY <1>1, <1>4, LenProperties DEF DP!LetsGo
  <2>2. CASE k \in {0, 1}
    <3>1. StandsAt(order, stat)
      BY <2>1, <2>2 DEF HeldAt
    <3>2. ASSUME NEW j \in DOMAIN session'
          PROVE  session'[j].cmd = "open_door"
      <4>1. /\ j \in 1 .. Len(session) - 1 /\ j + 1 \in DOMAIN session
            /\ k < j + 1
        BY <1>1, <2>1, <2>2
      <4> QED
        BY <2>1, <4>1 DEF HeldAt
    <3>3. HeldAt(0)'
      BY <2>1, <3>1, <3>2 DEF HeldAt
    <3> QED
      BY <1>1, <2>1, <3>3
  <2>3. CASE k \notin {0, 1}
    <3>1. k - 1 \in 1 .. Len(session) - 1 /\ (k - 1) + 1 = k
      BY <1>1, <2>3
    <3>2. session'[k - 1] = session[k]
      BY <2>1, <3>1
    <3>3. ASSUME NEW j \in DOMAIN session', k - 1 < j
          PROVE  session'[j].cmd = "open_door"
      <4>1. /\ j \in 1 .. Len(session) - 1 /\ j + 1 \in DOMAIN session
            /\ k < j + 1
        BY <1>1, <2>1, <3>1, <3>3
      <4> QED
        BY <2>1, <4>1 DEF HeldAt
    <3>4. HeldAt(k - 1)'
      BY <1>1, <2>1, <3>1, <3>2, <3>3 DEF HeldAt
    <3> QED
      BY <1>1, <2>1, <3>1, <3>4
  <2> QED
    BY <2>2, <2>3
<1>5. CASE DP!Repeats
  <2>1. /\ stat' = stat
        /\ Len(session') = Len(session) /\ DOMAIN session' = DOMAIN session
        /\ \A j \in DOMAIN session :
             session'[j].cmd = session[j].cmd /\ ~session'[j].done
    BY <1>1, <1>5, LenProperties DEF DP!Repeats
  <2>2. HeldAt(k)'
    BY <1>1, <2>1 DEF HeldAt
  <2> QED
    BY <2>1, <2>2
<1> QED
  BY <1>2, <1>3, <1>4, <1>5

-----------------------------------------------------------------------------
(* A step that publishes nothing of the owner keeps the order while no     *)
(* command was flushed.                                                    *)
LEMMA Follows ==
  ASSUME KeptInv, order \in Commands, kept \in BOOLEAN, [Next]_vars
  PROVE  /\ order' \in Commands \/ \E w \in Workers : Publish(w)
         /\ KeptInv'
         /\ kept' => mpc # "dead"
         /\ kept' => \/ \E w \in Workers : Publish(w)
                     \/ kept /\ clean /\ clean' /\ order' = order
<1>1. CASE \E w \in Workers : Publish(w)
  <2>1. /\ clean' = clean /\ mpc' = mpc
        /\ kept' = (clean /\ mpc # "dead")
    BY <1>1 DEF Publish, door, S!PublishCommand, S!network
  <2> QED
    BY <1>1, <2>1 DEF KeptInv
<1>2. CASE Keep
  BY <1>2 DEF Keep, KeptInv, Commands
<1>3. CASE UNCHANGED vars
  BY <1>3 DEF vars, door, server, KeptInv
<1> QED
  BY <1>1, <1>2, <1>3
     DEF Next, Hear, Discard, Send, SendTwice, Owner, Handle, Network, Door,
         Forward

(* The out-queue is a sequence of commands.                                *)
LEMMA OutType ==
  ASSUME S!IInv
  PROVE  /\ out \in Seq(Commands)
         /\ Len(out) \in Nat /\ DOMAIN out = 1 .. Len(out)
BY LenProperties DEF S!IInv, S!TypeOK, S!Commands, Commands

(* What is put behind an order, or taken from before it, leaves it where   *)
(* it is; taken itself, it is the last in the session.                     *)
LEMMA AppendedOut ==
  ASSUME out \in Seq(Commands), NEW c \in Commands, out' = Append(out, c)
  PROVE  /\ order' = c => OrderOut'
         /\ OrderOut /\ order' = order /\ c = "open_door" => OrderOut'
         /\ (\A j \in DOMAIN out : out[j] = "open_door") /\ c = "open_door"
              => \A j \in DOMAIN out' : out'[j] = "open_door"
<1>1. /\ Len(out) \in Nat /\ DOMAIN out = 1 .. Len(out)
      /\ DOMAIN out' = 1 .. Len(out) + 1
      /\ out'[Len(out) + 1] = c
      /\ \A j \in 1 .. Len(out) : out'[j] = out[j]
  BY LenProperties, AppendProperties
<1>2. order' = c => OrderOut'
  BY <1>1 DEF OrderOut
<1>3. ASSUME OrderOut, order' = order, c = "open_door"
      PROVE  OrderOut'
  <2>1. PICK i \in DOMAIN out :
          /\ out[i] = order
          /\ \A j \in DOMAIN out : i < j => out[j] = "open_door"
    BY <1>3 DEF OrderOut
  <2>2. i \in DOMAIN out' /\ out'[i] = order'
    BY <1>1, <1>3, <2>1
  <2>3. ASSUME NEW j \in DOMAIN out', i < j
        PROVE  out'[j] = "open_door"
    BY <1>1, <1>3, <2>1, <2>3
  <2> QED
    BY <2>2, <2>3 DEF OrderOut
<1>4. ASSUME \A j \in DOMAIN out : out[j] = "open_door", c = "open_door"
      PROVE  \A j \in DOMAIN out' : out'[j] = "open_door"
  <2> TAKE j \in DOMAIN out'
  <2> QED
    BY <1>1, <1>4
<1> QED
  BY <1>2, <1>3, <1>4

(* The session, after one more command.                                    *)
LEMMA AcceptedHeld ==
  ASSUME S!IInv, D!IInv, NEW i, D!Accept(i, Head(out)), out # <<>>,
         order \in {"lock", "normal"}, order' = order
  PROVE  /\ Head(out) = order => HeldAt(Len(session))'
         /\ Head(out) = "open_door" =>
              \A k \in 0 .. Len(session) : HeldAt(k) => HeldAt(k)'
         /\ Len(session') = Len(session) + 1 /\ Len(session) \in Nat
<1>1. /\ session \in Seq(D!Messages) /\ stat' = stat
      /\ session' = Append(session, [id |-> i, cmd |-> Head(out),
                                     sent |-> FALSE, done |-> FALSE])
      /\ Len(session) \in Nat /\ DOMAIN session = 1 .. Len(session)
  BY LenProperties DEF D!IInv, D!SystemOK, D!Accept
<1> DEFINE e == [id |-> i, cmd |-> Head(out), sent |-> FALSE, done |-> FALSE]
<1>2. e.cmd = Head(out) /\ ~e.done
  OBVIOUS
<1>3. session' = Append(session, e)
  BY <1>1
<1> HIDE DEF e
<1>4. /\ Len(session') = Len(session) + 1
      /\ DOMAIN session' = 1 .. Len(session) + 1
      /\ session'[Len(session) + 1] = e
      /\ \A j \in 1 .. Len(session) : session'[j] = session[j]
  <2>1. session \in Seq(D!Messages \union {e}) /\ e \in D!Messages \union {e}
    BY <1>1, LenProperties, ElementOfSeq, SeqDef
  <2> QED
    BY <1>1, <1>3, <2>1, AppendProperties, LenProperties
<1>5. Head(out) = order => HeldAt(Len(session))'
  <2>1. session'[Len(session')] = e
    BY <1>4
  <2>2. \A j \in DOMAIN session' : ~(Len(session') < j)
    BY <1>1, <1>4
  <2> QED
    BY <1>1, <1>2, <1>4, <2>1, <2>2 DEF HeldAt
<1>6. ASSUME Head(out) = "open_door", NEW k \in 0 .. Len(session), HeldAt(k)
      PROVE  HeldAt(k)'
  <2>1. k = 0 \/ session'[k].cmd = order'
    BY <1>1, <1>4, <1>6 DEF HeldAt
  <2>2. ASSUME NEW j \in DOMAIN session', k < j
        PROVE  session'[j].cmd = "open_door"
    BY <1>1, <1>2, <1>4, <1>6, <2>2 DEF HeldAt
  <2>3. k = 0 \/ session'[k].done => StandsAt(order', stat')
    BY <1>1, <1>4, <1>6 DEF HeldAt
  <2> QED
    BY <2>1, <2>2, <2>3 DEF HeldAt
<1> QED
  BY <1>1, <1>4, <1>5, <1>6

(* A command is passed on, and taken from the out-queue or not.            *)
LEMMA SendKeeps ==
  ASSUME S!IInv, D!IInv, NEW i, D!Accept(i, Head(out)), out # <<>>,
         out' \in {out, Tail(out)},
         order \in {"lock", "normal"}, order' = order,
         OrderOut \/ OrderHeld
  PROVE  OrderOut' \/ OrderHeld'
<1>1. /\ out \in Seq(Commands)
      /\ Len(out) \in Nat /\ DOMAIN out = 1 .. Len(out)
      /\ 1 \in DOMAIN out /\ Head(out) = out[1]
  BY OutType, EmptySeq
<1>2. ASSUME out' = Tail(out)
      PROVE  /\ DOMAIN out' = 1 .. Len(out) - 1
             /\ \A j \in 1 .. Len(out) - 1 : out'[j] = out[j + 1]
  BY <1>1, <1>2, HeadTailProperties, LenProperties
<1>3. CASE OrderOut
  <2>1. PICK n \in DOMAIN out :
          /\ out[n] = order
          /\ \A j \in DOMAIN out : n < j => out[j] = "open_door"
    BY <1>3 DEF OrderOut
  <2>2. CASE out' = out
    BY <1>3, <2>2 DEF OrderOut
  <2>3. CASE out' = Tail(out) /\ n # 1
    <3>1. n - 1 \in DOMAIN out' /\ (n - 1) + 1 = n
      BY <1>1, <1>2, <2>1, <2>3
    <3>2. out'[n - 1] = order'
      BY <1>2, <2>1, <2>3, <3>1
    <3>3. ASSUME NEW j \in DOMAIN out', n - 1 < j
          PROVE  out'[j] = "open_door"
      <4>1. j + 1 \in DOMAIN out /\ n < j + 1 /\ out'[j] = out[j + 1]
        BY <1>1, <1>2, <2>1, <2>3, <3>3
      <4> QED
        BY <2>1, <4>1
    <3> QED
      BY <3>1, <3>2, <3>3 DEF OrderOut
  <2>4. CASE out' = Tail(out) /\ n = 1
    <3>1. ASSUME NEW j \in DOMAIN out'
          PROVE  out'[j] = "open_door"
      <4>1. j + 1 \in DOMAIN out /\ n < j + 1 /\ out'[j] = out[j + 1]
        BY <1>1, <1>2, <2>1, <2>4
      <4> QED
        BY <2>1, <4>1
    <3>2. /\ HeldAt(Len(session))'
          /\ Len(session') \in 0 .. Len(session')
      BY <1>1, <2>1, <2>4, AcceptedHeld
    <3>3. \E m \in 0 .. Len(session') : HeldAt(m)'
      BY <3>2
    <3> QED
      BY <3>1, <3>3, HeldPartsNext
  <2> QED
    BY <2>2, <2>3, <2>4
<1>4. CASE OrderHeld
  <2>1. PICK k \in 0 .. Len(session) : HeldAt(k)
    BY <1>4, HeldParts
  <2>2. \A j \in DOMAIN out : out[j] = "open_door"
    BY <1>4 DEF OrderHeld
  <2>3. k \in 0 .. Len(session') /\ HeldAt(k)'
    BY <1>1, <2>1, <2>2, AcceptedHeld
  <2>4. ASSUME NEW j \in DOMAIN out'
        PROVE  out'[j] = "open_door"
    <3>1. CASE out' = out
      BY <2>2, <3>1
    <3>2. CASE out' = Tail(out)
      <4>1. j + 1 \in DOMAIN out /\ out'[j] = out[j + 1]
        BY <1>1, <1>2, <3>2
      <4> QED
        BY <2>2, <4>1
    <3> QED
      BY <3>1, <3>2
  <2>5. \E m \in 0 .. Len(session') : HeldAt(m)'
    BY <2>3
  <2> QED
    BY <2>4, <2>5, HeldPartsNext
<1> QED
  BY <1>3, <1>4

(* One step, by the part that takes it.                                    *)
LEMMA StepOrder == IInv /\ [Next]_vars => KeptInv' /\ OrderInv'
<1> SUFFICES ASSUME IInv, [Next]_vars PROVE KeptInv' /\ OrderInv'
  OBVIOUS
<1>1. /\ S!IInv /\ D!IInv /\ D!HistoryInv /\ order \in Commands
      /\ kept \in BOOLEAN /\ KeptInv /\ OrderInv
  BY DEF IInv
<1>2. KeptInv'
  BY <1>1, Follows
<1> SUFFICES ASSUME kept', order' \in {"lock", "normal"}
             PROVE  OrderOut' \/ OrderHeld'
  BY <1>2 DEF OrderInv
<1>3. mpc # "dead"
  BY <1>1, Follows
<1>4. ASSUME NEW w \in Workers, Publish(w)
      PROVE  OrderOut'
  <2>1. /\ wpc[w] = "publish" /\ out' = Append(out, job[w])
        /\ order' = job[w]
    BY <1>3, <1>4 DEF Publish, S!PublishCommand, S!Publish
  <2>2. job[w] \in Commands
    BY <1>1, <2>1 DEF S!IInv, S!JobInv, S!Commands, Commands
  <2> QED
    BY <1>1, <2>1, <2>2, OutType, AppendedOut
<1> SUFFICES ASSUME kept, clean, clean', order' = order
             PROVE  OrderOut' \/ OrderHeld'
  BY <1>1, <1>4, Follows
<1>5. OrderOut \/ OrderHeld
  BY <1>1, <1>3 DEF OrderInv
<1>6. CASE UNCHANGED <<out, session, stat>>
  <2>1. OrderOut => OrderOut'
    BY <1>6 DEF OrderOut
  <2>2. OrderHeld => OrderHeld'
    BY <1>6 DEF OrderHeld, Stands
  <2> QED
    BY <1>5, <2>1, <2>2
<1>7. ASSUME NEW d \in Devices, Hear(d) \/ Discard(d)
      PROVE  OrderOut' \/ OrderHeld'
  BY <1>6, <1>7 DEF Hear, Discard, S!Receive, S!client, server, D!ServerTakes
<1>8. ASSUME NEW i \in Ids, Send(i) \/ SendTwice(i)
      PROVE  OrderOut' \/ OrderHeld'
  BY <1>1, <1>5, <1>8, SendKeeps DEF Send, SendTwice, S!Send, S!Disconnect
<1>9. ASSUME NEW w \in Workers, Owner(w)
      PROVE  OrderOut' \/ OrderHeld'
  BY <1>6, <1>9 DEF Owner, door, S!Command, S!PressAccept, S!PressRemove,
                    S!client
<1>10. CASE Handle
  <2>1. CASE S!Lookup \/ S!ReadName
    BY <1>6, <1>10, <2>1 DEF Handle, door, S!Lookup, S!ReadName, S!client
  <2>2. CASE S!OpenForDevice
    <3>1. session' = session /\ stat' = stat
      BY <1>10 DEF Handle, door
    <3>2. CASE out' = out
      BY <1>6, <3>1, <3>2
    <3>3. CASE out' = Append(out, "open_door")
      <4>1. "open_door" \in Commands
        BY DEF Commands
      <4>2. OrderOut => OrderOut'
        BY <1>1, <3>3, <4>1, OutType, AppendedOut
      <4>3. OrderHeld => OrderHeld'
        <5>1. (\A j \in DOMAIN out : out[j] = "open_door")
                => \A j \in DOMAIN out' : out'[j] = "open_door"
          BY <1>1, <3>3, <4>1, OutType, AppendedOut
        <5> QED
          BY <3>1, <5>1 DEF OrderHeld, Stands
      <4> QED
        BY <1>5, <4>2, <4>3
    <3> QED
      BY <1>3, <2>2, <3>2, <3>3 DEF S!OpenForDevice, S!Publish, S!client
  <2> QED
    BY <1>10, <2>1, <2>2 DEF Handle
<1>11. CASE Network
  BY <1>6, <1>11 DEF Network, door, S!Disconnect, S!Reconnect
<1>12. CASE Door
  <2>1. out' = out
    BY <1>12 DEF Door, server
  <2>2. CASE OrderOut
    BY <2>1, <2>2 DEF OrderOut
  <2>3. CASE OrderHeld
    <3>1. DP!IInv /\ DP!HistoryInv /\ DP!Door
      BY <1>1, <1>12, DoorInvs, DoorSteps DEF Door
    <3>2. DP!Stays \/ DP!TakesEffect \/ DP!LetsGo \/ DP!Repeats
      BY <3>1, LockAssumption, DP!DoorMoves
    <3>3. stat \in Statuses /\ session \in Seq(DP!Messages)
      BY <3>1 DEF DP!IInv, DP!SystemOK, DP!Statuses, Statuses
    <3>4. PICK k \in 0 .. Len(session) : HeldAt(k)
      BY <2>3, HeldParts
    <3>5. \E m \in 0 .. Len(session') : HeldAt(m)'
      BY <3>2, <3>3, <3>4, MovesKeepHeld
    <3>6. \A j \in DOMAIN out' : out'[j] = "open_door"
      BY <2>1, <2>3 DEF OrderHeld
    <3> QED
      BY <3>5, <3>6, HeldPartsNext
  <2> QED
    BY <1>5, <2>2, <2>3
<1>13. CASE Forward
  <2>1. out' = out
    BY <1>13 DEF Forward, server
  <2>2. CASE OrderOut
    BY <2>1, <2>2 DEF OrderOut
  <2>3. CASE OrderHeld
    <3>1. PICK i \in DOMAIN session : D!Forward(i)
      BY <1>13 DEF Forward
    <3>2. /\ session' = [session EXCEPT ![i].sent = TRUE] /\ stat' = stat
          /\ session \in Seq(D!Messages)
      BY <1>1, <3>1 DEF D!Forward, D!IInv, D!SystemOK
    <3>3. \A j \in DOMAIN session : session[j] \in D!Messages
      BY <3>2, LenProperties, ElementOfSeq
    <3>4. /\ DOMAIN session' = DOMAIN session /\ Len(session') = Len(session)
          /\ \A j \in DOMAIN session :
               /\ session'[j].cmd = session[j].cmd
               /\ session'[j].done = session[j].done
      BY <3>2, <3>3, ExceptSeq DEF D!Messages
    <3>5. \A m \in 0 .. Len(session) : HeldAt(m) => HeldAt(m)'
      BY <3>2, <3>4, LenProperties DEF HeldAt
    <3> QED
      BY <2>1, <2>3, <3>4, <3>5, HeldParts, HeldPartsNext
  <2> QED
    BY <1>5, <2>2, <2>3
<1>14. CASE UNCHANGED vars
  BY <1>6, <1>14 DEF vars, server, door
<1> QED
  BY <1>4, <1>7, <1>8, <1>9, <1>10, <1>11, <1>12, <1>13, <1>14, <1>2 DEF Next

-----------------------------------------------------------------------------
(* Initially the order is normal, let go, and stands.                      *)
LEMMA InitIInv == Init => IInv
<1> SUFFICES ASSUME Init PROVE IInv
  OBVIOUS
<1>1. S!IInv
  <2>1. SP!Init => SP!IInv
    BY LockAssumption, SP!InitIInv DEF Commands
  <2> QED
    BY <2>1, ServerInits, ServerInvs DEF Init
<1>2. D!IInv /\ D!HistoryInv
  <2>1. (DP!Init => DP!IInv) /\ (DP!Init => DP!HistoryInv)
    BY LockAssumption, DP!InitIInv, DP!InitHistory
  <2> QED
    BY <2>1, DoorInits, DoorInvs DEF Init
<1>3. KeptInv
  BY DEF Init, S!Init, D!Init, KeptInv
<1>4. OrderInv
  <2>1. /\ out = <<>> /\ session = <<>> /\ stat = "closed" /\ order = "normal"
    BY DEF Init, S!Init, D!Init
  <2>2. HeldAt(0) /\ 0 \in 0 .. Len(session)
    BY <2>1, EmptySeq DEF HeldAt, StandsAt
  <2> QED
    BY <2>1, <2>2, HeldParts DEF OrderInv
<1>5. order \in Commands
  BY DEF Init, Commands
<1>6. kept \in BOOLEAN
  BY Zenon DEF Init
<1> QED
  BY <1>1, <1>2, <1>3, <1>4, <1>5, <1>6 DEF IInv

(* Every step keeps all parts of the invariant.                            *)
LEMMA StepIInv == IInv /\ [Next]_vars => IInv'
<1> SUFFICES ASSUME IInv, [Next]_vars PROVE IInv'
  OBVIOUS
<1>1. S!IInv' /\ D!IInv' /\ D!HistoryInv' /\ KeptInv' /\ OrderInv'
  BY StepServer, StepDoor, StepOrder DEF IInv
<1>2. order' \in Commands
  <2>1. ASSUME NEW w \in Workers, Publish(w)
        PROVE  order' \in Commands
    BY <2>1 DEF Publish, S!PublishCommand, IInv, S!IInv, S!JobInv,
                S!Commands, Commands
  <2> QED
    BY <2>1, Follows DEF IInv
<1>3. kept' \in BOOLEAN
  <2>1. kept \in BOOLEAN /\ clean \in BOOLEAN /\ clean' \in BOOLEAN
    BY <1>1, Zenon DEF IInv, D!HistoryInv
  <2>2. \/ kept' = kept
        \/ kept' = (kept /\ clean' /\ mpc' # "dead")
        \/ kept' = (clean /\ mpc # "dead")
    BY DEF Next, Hear, Discard, Send, SendTwice, Publish, Owner, Handle,
           Network, Door, Forward, Keep, vars
  <2> QED
    BY <2>1, <2>2, Zenon
<1> QED
  BY <1>1, <1>2, <1>3 DEF IInv

(* The system keeps its invariant: both parts theirs, and the owner's last *)
(* order is where it should be on its way.                                 *)
THEOREM Invariance == Spec => []IInv
<1> QED
  BY InitIInv, StepIInv, PTL DEF Spec

(* Both parts keep their types in the system.                              *)
THEOREM TypeCorrect == Spec => []TypeOK
<1>1. IInv => TypeOK
  BY DEF IInv, TypeOK, S!IInv, D!IInv, D!TypeOK, D!HistoryInv
<1> QED
  BY <1>1, Invariance, PTL

(* The order the owner published last stands as soon as it is no longer on *)
(* its way: a locked door is locked, one sent back to normal is neither    *)
(* locked nor unlocked, whatever devices were let in meanwhile.            *)
THEOREM LastOrderStands == Spec => []OrderStands
<1>1. IInv => OrderStands
  <2> SUFFICES ASSUME IInv, kept, Quiet,
                      order \in {"lock", "normal"}
               PROVE  Stands
    BY DEF OrderStands, Stands
  <2>1. ~OrderOut
    BY DEF OrderOut, Quiet
  <2>2. OrderHeld
    BY <2>1 DEF IInv, OrderInv
  <2>3. PICK k \in 0 .. Len(session) : HeldAt(k)
    BY <2>2, HeldParts
  <2>4. k = 0 \/ session[k].done
    <3>1. k = 0 \/ k \in DOMAIN session
      BY LenProperties DEF IInv, D!IInv, D!SystemOK
    <3> QED
      BY <2>3, <3>1 DEF HeldAt, Quiet
  <2> QED
    BY <2>3, <2>4, HeldParts DEF HeldAt
<1> QED
  BY <1>1, Invariance, PTL

(* The parts behave in the system as their modules say: what is proved of  *)
(* every behaviour of Server or of DoorApp is true here, for one, that the *)
(* server opens the door for entitled devices only (OpenAuthorised) and    *)
(* that commands keep the promise of CommandLink.                          *)
THEOREM Composition == Spec => S!Spec /\ D!Spec
<1>1. Init => S!Init /\ D!Init
  BY DEF Init
<1>2. IInv /\ [Next]_vars => [S!Next]_(S!vars) /\ [D!Next]_(D!vars)
  BY ServerPart, DoorPart DEF IInv
<1> QED
  BY <1>1, <1>2, Invariance, PTL DEF Spec, S!Spec, D!Spec
=============================================================================
