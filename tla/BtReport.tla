------------------------------ MODULE BtReport ------------------------------
(***************************************************************************)
(* The proximity reports of smartDoor/smart_door.c: the ring bt_lst of     *)
(* devices just scanned, the hash table sent_lst of devices already        *)
(* reported, and the part of run_app that fills the one and empties it     *)
(* into the other while the door is closed.  Time passes at every point    *)
(* of the loop, the millisecond clock wraps.                               *)
(***************************************************************************)
EXTENDS Integers

CONSTANTS
  Addrs,      \* Bluetooth addresses near the door
  NoAddr,     \* the all-zero address of an empty entry
  ListSize,   \* BT_LST_SIZE
  SentSize,   \* SENT_LST_SIZE
  Bucket,     \* addr[0] & (SENT_LST_SIZE - 1) of each address
  Lifetime,   \* BT_DEVICE_LIFETIME
  ScanSteps,  \* calls of sl_bt_step in one pass of run_app, 10 in the code
  TimeMod,    \* number of values of the uint32_t clock
  Cap         \* bound: the histories count ticks up to Cap only

ASSUME BtAssumption ==
  /\ NoAddr \notin Addrs
  /\ ListSize \in Nat \ {0}
  /\ SentSize \in Nat \ {0}
  /\ Bucket \in [Addrs -> 0 .. SentSize - 1]
  /\ Lifetime \in Nat \ {0}
  /\ ScanSteps \in Nat \ {0}
  /\ TimeMod \in Nat \ {0}
  /\ Cap \in Nat
  /\ Cap >= Lifetime

VARIABLES
  device_lst,  \* bt_lst.device_lst
  i,           \* bt_lst.i
  sent_lst,
  now,         \* time_since_start of timer.c
  pc,          \* where run_app is: "scan", "send" or "read"
  n,           \* sl_bt_step calls made, or slots of bt_lst visited
  last_index,  \* last_index of send_device
  age,         \* history: ticks since the device in a slot was scanned
  quiet,       \* history: the same for the last report of an address
  report       \* the report just published, with its history

control   == <<pc, n, last_index>>
histories == <<age, quiet>>
vars == <<device_lst, i, sent_lst, now, control, histories, report>>

Slots   == 0 .. ListSize - 1
Buckets == 0 .. SentSize - 1
Clock   == 0 .. TimeMod - 1
Entries == [addr : Addrs \union {NoAddr}, ts : Clock]
Empty   == [addr |-> NoAddr, ts |-> 0]

NoReport == [addr |-> NoAddr, quiet |-> Cap]

Elapsed_Absolute(t, t0) == IF t >= t0 THEN t - t0 ELSE t0 - t
Elapsed(t, t0) == IF t >= t0 THEN t - t0 ELSE t - t0 + TimeMod

(* is_available: the entry is of another device, or has lived long enough. *)
Available_Always(e, a) == TRUE
Available(e, a) == e.addr # a \/ Elapsed(now, e.ts) >= Lifetime

(* The ring index of bt_lst moves on.                                      *)
Following_NoModulo(k) == k + 1
Following(k) == IF k + 1 = ListSize THEN 0 ELSE k + 1

-----------------------------------------------------------------------------
Init ==
  /\ device_lst = [s \in Slots |-> Empty]
  /\ i = 0
  /\ sent_lst = [b \in Buckets |-> Empty]
  /\ now \in Clock
  /\ pc = "read" /\ n = 0 /\ last_index = -1
  /\ age = [s \in Slots |-> 0]
  /\ quiet = [a \in Addrs |-> Cap]
  /\ report = NoReport

Older(x) == IF x < Cap THEN x + 1 ELSE Cap

Tick ==
  /\ now' = IF now + 1 = TimeMod THEN 0 ELSE now + 1
  /\ age' = [s \in Slots |-> Older(age[s])]
  /\ quiet' = [a \in Addrs |-> Older(quiet[a])]
  /\ report' = NoReport
  /\ UNCHANGED <<device_lst, i, sent_lst, control>>

(* The door is closed at the top of the loop.                              *)
EnterScan ==
  /\ pc = "read"
  /\ pc' = "scan"
  /\ n' = 0
  /\ report' = NoReport
  /\ UNCHANGED <<device_lst, i, sent_lst, now, last_index, histories>>

(* sl_bt_step finds no event, or a scan report with a weak signal.         *)
ScanNothing ==
  /\ pc = "scan" /\ n < ScanSteps
  /\ n' = n + 1
  /\ report' = NoReport
  /\ UNCHANGED <<device_lst, i, sent_lst, now, pc, last_index, histories>>

(* sl_bt_step handles the report of a near device: add_bt_device.  The     *)
(* ring index moves on even when the device is in the list already.        *)
ScanReport(a) ==
  /\ pc = "scan" /\ n < ScanSteps
  /\ n' = n + 1
  /\ i' = Following(i)
  /\ IF \A s \in Slots : Available(device_lst[s], a)
       THEN /\ device_lst' = [device_lst EXCEPT ![i] = [addr |-> a, ts |-> now]]
            /\ age' = [age EXCEPT ![i] = 0]
       ELSE UNCHANGED <<device_lst, age>>
  /\ report' = NoReport
  /\ UNCHANGED <<sent_lst, now, pc, last_index, quiet>>

EnterSend ==
  /\ pc = "scan" /\ n = ScanSteps
  /\ pc' = "send"
  /\ n' = 0
  /\ last_index' = -1
  /\ report' = NoReport
  /\ UNCHANGED <<device_lst, i, sent_lst, now, histories>>

(* The condition under which send_device reports slot s.                   *)
Reportable_NoDedup(s) ==
  LET cur == device_lst[s]
  IN  cur.ts # 0 /\ Bucket[cur.addr] # last_index

Reportable(s) ==
  LET cur == device_lst[s]
  IN  /\ cur.ts # 0
      /\ Bucket[cur.addr] # last_index
      /\ Available(sent_lst[Bucket[cur.addr]], cur.addr)

(* send_device reports a slot.  The result of publish_msg is ignored, and  *)
(* what is remembered is the time of the scan, not of the report.          *)
Publish ==
  /\ pc = "send" /\ n < ListSize
  /\ Reportable(n)
  /\ LET cur == device_lst[n]
     IN  /\ last_index' = Bucket[cur.addr]
         /\ sent_lst' = [sent_lst EXCEPT ![Bucket[cur.addr]] = cur]
         /\ quiet' = [quiet EXCEPT ![cur.addr] = age[n]]
         /\ report' = [addr |-> cur.addr, quiet |-> quiet[cur.addr]]
  /\ device_lst' = [device_lst EXCEPT ![n] = Empty]
  /\ n' = n + 1
  /\ UNCHANGED <<i, now, pc, age>>

Skip ==
  /\ pc = "send" /\ n < ListSize
  /\ ~Reportable(n)
  /\ n' = n + 1
  /\ report' = NoReport
  /\ UNCHANGED <<device_lst, i, sent_lst, now, pc, last_index, histories>>

EnterRead ==
  /\ pc = "send" /\ n = ListSize
  /\ pc' = "read"
  /\ n' = 0
  /\ report' = NoReport
  /\ UNCHANGED <<device_lst, i, sent_lst, now, last_index, histories>>

Next ==
  \/ Tick
  \/ EnterScan
  \/ ScanNothing
  \/ \E a \in Addrs : ScanReport(a)
  \/ EnterSend
  \/ Publish
  \/ Skip
  \/ EnterRead

Spec == Init /\ [][Next]_vars

-----------------------------------------------------------------------------
(* Every variable has its type.                                            *)
TypeOK ==
  /\ device_lst \in [Slots -> Entries]
  /\ i \in Slots
  /\ sent_lst \in [Buckets -> Entries]
  /\ now \in Clock
  /\ pc \in {"scan", "send", "read"}
  /\ n \in Nat
  /\ last_index \in Buckets \union {-1}
  /\ age \in [Slots -> 0 .. Cap]
  /\ quiet \in [Addrs -> 0 .. Cap]
  /\ report \in [addr : Addrs \union {NoAddr}, quiet : 0 .. Cap]

(* A device with a bucket of sent_lst of its own is reported again only    *)
(* Lifetime after the scan behind its last report, over any number of      *)
(* passes and wraps of the clock, whatever happens in the other buckets:   *)
(* the hash table prevents duplicates.                                     *)
Alone(a) == \A b \in Addrs : Bucket[b] = Bucket[a] => b = a
HoldOff ==
  report.addr # NoAddr /\ Alone(report.addr) => report.quiet >= Lifetime

(* Two entries of bt_lst are of one device only if the older was scanned   *)
(* Lifetime ago, although entries stay in the list as long as the door is  *)
(* not closed and their time stamps wrap.                                  *)
NoTwins ==
  \A s, t \in Slots :
    s # t /\ device_lst[s].addr = device_lst[t].addr
          /\ device_lst[s].addr # NoAddr
      => age[s] >= Lifetime \/ age[t] >= Lifetime

(* What ties the stored time stamps to the histories: a clock difference   *)
(* never exceeds the true age, and the last report of an address that has  *)
(* a bucket of its own is still there.                                     *)
AgeInv ==
  \A s \in Slots :
    device_lst[s].addr # NoAddr =>
      age[s] = Cap \/ Elapsed(now, device_lst[s].ts) =< age[s]
QuietInv ==
  \A a \in Addrs :
    Alone(a) /\ quiet[a] # Cap =>
      /\ sent_lst[Bucket[a]].addr = a
      /\ Elapsed(now, sent_lst[Bucket[a]].ts) =< quiet[a]
EmptyInv == \A s \in Slots : device_lst[s].addr = NoAddr => device_lst[s].ts = 0
IInv == TypeOK /\ EmptyInv /\ AgeInv /\ QuietInv /\ HoldOff /\ NoTwins
=============================================================================
