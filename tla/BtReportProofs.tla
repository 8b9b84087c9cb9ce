--------------------------- MODULE BtReportProofs ---------------------------
(***************************************************************************)
(* Proofs about BtReport for any set of addresses, any sizes of the ring   *)
(* and of the hash table, any lifetime and any clock width.  What is said  *)
(* of bt_lst holds for every device; what is said of sent_lst holds for    *)
(* the devices that share their bucket with no other.                      *)
(***************************************************************************)
EXTENDS BtReport, TLAPS

(* The invariant without the hash table, and the rest of it.               *)
ListInv == TypeOK /\ EmptyInv /\ AgeInv /\ NoTwins
SentInv == QuietInv /\ HoldOff

(* Clock subtraction grows by at most one in a tick, and falls when the    *)
(* clock has gone all the way round.                                       *)
LEMMA ElapsedFacts ==
  ASSUME NEW t \in Clock, NEW t0 \in Clock, NEW u,
         u = IF t + 1 = TimeMod THEN 0 ELSE t + 1
  PROVE  /\ Elapsed(t, t0) \in Clock
         /\ u \in Clock
         /\ Elapsed(u, t0) =< Elapsed(t, t0) + 1
BY BtAssumption DEF Elapsed, Clock

(* Clock subtraction stays within the clock and starts from zero.          *)
LEMMA ElapsedType ==
  \A t, t0 \in Clock : Elapsed(t, t0) \in Clock /\ Elapsed(t, t) = 0
BY BtAssumption DEF Elapsed, Clock

(* A history grows by at most one, never shrinks and stops at its cap.     *)
LEMMA OlderFacts ==
  ASSUME NEW x \in 0 .. Cap
  PROVE  /\ Older(x) \in 0 .. Cap
         /\ Older(x) >= x
         /\ Older(x) # Cap => x # Cap /\ Older(x) = x + 1
BY BtAssumption DEF Older

-----------------------------------------------------------------------------
(* Both lists start empty, and no report has been made.                    *)
LEMMA InitListInv == Init => ListInv /\ SentInv
<1> SUFFICES ASSUME Init PROVE ListInv /\ SentInv
  OBVIOUS
<1> USE BtAssumption DEF Init
<1>1. Empty \in Entries /\ Empty.addr = NoAddr /\ Empty.ts = 0
  BY DEF Empty, Entries, Clock
<1>2. NoReport \in [addr : Addrs \union {NoAddr}, quiet : 0 .. Cap]
  BY DEF NoReport
<1>3. TypeOK
  BY <1>1, <1>2 DEF TypeOK, Slots, Buckets
<1>4. EmptyInv /\ AgeInv /\ NoTwins
  BY <1>1 DEF EmptyInv, AgeInv, NoTwins, Slots
<1>5. QuietInv
  BY DEF QuietInv
<1>6. HoldOff
  BY DEF HoldOff, NoReport
<1> QED
  BY <1>3, <1>4, <1>5, <1>6 DEF ListInv, SentInv

(* What the other proofs need to know of a slot that is reported.          *)
LEMMA ReportableFacts ==
  ASSUME TypeOK, EmptyInv, pc = "send", n < ListSize, Reportable(n)
  PROVE  /\ n \in Slots
         /\ device_lst[n] \in Entries
         /\ device_lst[n].addr \in Addrs
         /\ Bucket[device_lst[n].addr] \in Buckets
         /\ Available(sent_lst[Bucket[device_lst[n].addr]], device_lst[n].addr)
<1> USE BtAssumption
<1>1. n \in Slots
  BY DEF TypeOK, Slots
<1>2. device_lst[n] \in Entries
  BY <1>1 DEF TypeOK
<1>3. device_lst[n].ts # 0
  BY DEF Reportable
<1>4. device_lst[n].addr \in Addrs
  BY <1>1, <1>2, <1>3 DEF EmptyInv, Entries
<1> QED
  BY <1>1, <1>2, <1>4 DEF Reportable, Buckets

-----------------------------------------------------------------------------
(* Every variable keeps its type, and an empty slot has time stamp 0.      *)
LEMMA TypeStep == TypeOK /\ EmptyInv /\ [Next]_vars => TypeOK' /\ EmptyInv'
<1> SUFFICES ASSUME TypeOK, EmptyInv, [Next]_vars PROVE TypeOK' /\ EmptyInv'
  OBVIOUS
<1> USE BtAssumption
<1>0. /\ Empty \in Entries /\ Empty.ts = 0
      /\ NoReport \in [addr : Addrs \union {NoAddr}, quiet : 0 .. Cap]
  BY DEF Empty, Entries, Clock, NoReport
<1>1. CASE Tick
  <2>1. now' \in Clock
    BY <1>1 DEF Tick, TypeOK, Clock
  <2>2. age' \in [Slots -> 0 .. Cap] /\ quiet' \in [Addrs -> 0 .. Cap]
    BY <1>1, OlderFacts DEF Tick, TypeOK
  <2> QED
    BY <1>0, <1>1, <2>1, <2>2 DEF Tick, TypeOK, EmptyInv, control
<1>2. CASE EnterScan \/ ScanNothing \/ EnterSend \/ Skip \/ EnterRead
  BY <1>0, <1>2 DEF EnterScan, ScanNothing, EnterSend, Skip, EnterRead,
                    TypeOK, EmptyInv, histories
<1>3. ASSUME NEW a \in Addrs, ScanReport(a) PROVE TypeOK' /\ EmptyInv'
  <2>1. i' \in Slots
    BY <1>3 DEF ScanReport, Following, TypeOK, Slots
  <2>2. device_lst' \in [Slots -> Entries] /\ age' \in [Slots -> 0 .. Cap]
    <3>1. [addr |-> a, ts |-> now] \in Entries
      BY DEF TypeOK, Entries
    <3> QED
      BY <1>3, <3>1 DEF ScanReport, TypeOK
  <2>3. EmptyInv'
    BY <1>3 DEF ScanReport, TypeOK, EmptyInv
  <2> QED
    BY <1>0, <1>3, <2>1, <2>2, <2>3 DEF ScanReport, TypeOK
<1>4. ASSUME Publish PROVE TypeOK' /\ EmptyInv'
  <2> DEFINE cur == device_lst[n]
  <2>1. /\ n \in Slots /\ cur \in Entries /\ cur.addr \in Addrs
        /\ Bucket[cur.addr] \in Buckets
    BY <1>4, ReportableFacts DEF Publish
  <2>2. /\ sent_lst' \in [Buckets -> Entries]
        /\ quiet' \in [Addrs -> 0 .. Cap]
        /\ last_index' \in Buckets
    BY <1>4, <2>1 DEF Publish, TypeOK
  <2>3. device_lst' \in [Slots -> Entries] /\ EmptyInv'
    BY <1>0, <1>4 DEF Publish, TypeOK, EmptyInv
  <2>4. report' \in [addr : Addrs \union {NoAddr}, quiet : 0 .. Cap]
    <3>1. quiet[cur.addr] \in 0 .. Cap
      BY <2>1 DEF TypeOK
    <3>2. report' = [addr |-> cur.addr, quiet |-> quiet[cur.addr]]
      BY <1>4 DEF Publish
    <3> QED
      BY <2>1, <3>1, <3>2
  <2> QED
    BY <1>4, <2>2, <2>3, <2>4 DEF Publish, TypeOK
<1>5. CASE UNCHANGED vars
  BY <1>5 DEF vars, control, histories, TypeOK, EmptyInv
<1> QED
  BY <1>1, <1>2, <1>3, <1>4, <1>5 DEF Next

(* The time stamps in bt_lst never say that more time passed than did, and *)
(* a device is added a second time only when its older entry has expired.  *)
LEMMA ListStep == ListInv /\ TypeOK' /\ [Next]_vars => AgeInv' /\ NoTwins'
<1> SUFFICES ASSUME ListInv, TypeOK', [Next]_vars PROVE AgeInv' /\ NoTwins'
  OBVIOUS
<1> USE BtAssumption DEF ListInv
<1>1. CASE Tick
  <2>1. /\ device_lst' = device_lst
        /\ \A s \in Slots : age'[s] = Older(age[s])
    BY <1>1 DEF Tick
  <2>2. ASSUME NEW s \in Slots, device_lst[s].addr # NoAddr
        PROVE  age'[s] = Cap \/ Elapsed(now', device_lst[s].ts) =< age'[s]
    <3>1. age[s] \in 0 .. Cap /\ device_lst[s].ts \in Clock /\ now \in Clock
      BY DEF TypeOK, Entries
    <3>2. now' = IF now + 1 = TimeMod THEN 0 ELSE now + 1
      BY <1>1 DEF Tick
    <3>3. age[s] = Cap \/ Elapsed(now, device_lst[s].ts) =< age[s]
      BY <2>2 DEF AgeInv
    <3>4. /\ Elapsed(now, device_lst[s].ts) \in Clock
          /\ Elapsed(now', device_lst[s].ts) \in Clock
          /\ Elapsed(now', device_lst[s].ts)
               =< Elapsed(now, device_lst[s].ts) + 1
      BY <3>1, <3>2, ElapsedFacts DEF TypeOK
    <3>5. age'[s] \in 0 .. Cap /\ (age'[s] # Cap => age[s] # Cap /\ age'[s] = age[s] + 1)
      BY <2>1, <3>1, OlderFacts
    <3> QED
      BY <3>1, <3>3, <3>4, <3>5 DEF Clock
  <2>3. AgeInv'
    BY <2>1, <2>2 DEF AgeInv
  <2>4. \A s \in Slots : age[s] \in 0 .. Cap /\ age'[s] \in 0 .. Cap
                                             /\ age'[s] >= age[s]
    BY <2>1, OlderFacts DEF TypeOK
  <2>5. NoTwins'
    BY <2>1, <2>4 DEF NoTwins
  <2> QED
    BY <2>3, <2>5
<1>2. CASE EnterScan \/ ScanNothing \/ EnterSend \/ Skip \/ EnterRead
  BY <1>2 DEF EnterScan, ScanNothing, EnterSend, Skip, EnterRead,
              AgeInv, NoTwins, Elapsed, histories
<1>3. ASSUME NEW a \in Addrs, ScanReport(a) PROVE AgeInv' /\ NoTwins'
  <2>1. CASE ~\A s \in Slots : Available(device_lst[s], a)
    BY <1>3, <2>1 DEF ScanReport, AgeInv, NoTwins, Elapsed
  <2>2. CASE \A s \in Slots : Available(device_lst[s], a)
    <3>1. /\ device_lst' = [device_lst EXCEPT ![i] = [addr |-> a, ts |-> now]]
          /\ age' = [age EXCEPT ![i] = 0]
          /\ now' = now
      BY <1>3, <2>2 DEF ScanReport
    <3>2. Elapsed(now, now) = 0
      BY ElapsedType DEF TypeOK
    <3>3. AgeInv'
      <4>1. ASSUME NEW s \in Slots, device_lst'[s].addr # NoAddr
            PROVE  age'[s] = Cap \/ Elapsed(now', device_lst'[s].ts) =< age'[s]
        <5>1. CASE s = i
          BY <3>1, <3>2, <5>1 DEF TypeOK
        <5>2. CASE s # i
          BY <3>1, <4>1, <5>2 DEF AgeInv, TypeOK
        <5> QED
          BY <5>1, <5>2
      <4> QED
        BY <4>1 DEF AgeInv, Elapsed
    <3>4. ASSUME NEW s \in Slots, s # i, device_lst[s].addr = a
          PROVE  age[s] >= Lifetime
      <4>1. Elapsed(now, device_lst[s].ts) >= Lifetime
        BY <2>2, <3>4 DEF Available
      <4>2. age[s] \in 0 .. Cap /\ device_lst[s].ts \in Clock /\ now \in Clock
        BY DEF TypeOK, Entries
      <4>3. age[s] = Cap \/ Elapsed(now, device_lst[s].ts) =< age[s]
        BY <3>4 DEF AgeInv
      <4>4. Elapsed(now, device_lst[s].ts) \in Clock
        BY <4>2, ElapsedType
      <4>5. CASE age[s] = Cap
        BY <4>5
      <4>6. CASE Elapsed(now, device_lst[s].ts) =< age[s]
        BY <4>1, <4>2, <4>4, <4>6 DEF Clock
      <4> QED
        BY <4>3, <4>5, <4>6
    <3>5. NoTwins'
      BY <3>1, <3>4 DEF NoTwins, TypeOK
    <3> QED
      BY <3>3, <3>5
  <2> QED
    BY <2>1, <2>2
<1>4. ASSUME Publish PROVE AgeInv' /\ NoTwins'
  <2>1. /\ device_lst' = [device_lst EXCEPT ![n] = Empty]
        /\ age' = age /\ now' = now
    BY <1>4 DEF Publish
  <2>2. Empty.addr = NoAddr
    BY DEF Empty
  <2> QED
    BY <2>1, <2>2 DEF AgeInv, NoTwins, TypeOK, Elapsed
<1>5. CASE UNCHANGED vars
  BY <1>5 DEF vars, control, histories, AgeInv, NoTwins, Elapsed
<1> QED
  BY <1>1, <1>2, <1>3, <1>4, <1>5 DEF Next

(* The hash table remembers the last report of an address until its        *)
(* lifetime is over, and so a second report waits for that.                *)
LEMMA SentStep == ListInv /\ SentInv /\ TypeOK' /\ [Next]_vars => SentInv'
<1> SUFFICES ASSUME ListInv, SentInv, TypeOK', [Next]_vars
             PROVE  QuietInv' /\ HoldOff'
  BY DEF SentInv
<1> USE BtAssumption DEF ListInv, SentInv
<1>0. NoReport.addr = NoAddr
  BY DEF NoReport
<1>1. CASE Tick
  <2>1. /\ sent_lst' = sent_lst
        /\ report' = NoReport
        /\ \A a \in Addrs : quiet'[a] = Older(quiet[a])
    BY <1>1 DEF Tick
  <2>2. ASSUME NEW a \in Addrs, Alone(a), quiet'[a] # Cap
        PROVE  /\ sent_lst[Bucket[a]].addr = a
               /\ Elapsed(now', sent_lst[Bucket[a]].ts) =< quiet'[a]
    <3> DEFINE e == sent_lst[Bucket[a]]
    <3>1. quiet[a] \in 0 .. Cap /\ e.ts \in Clock /\ now \in Clock
      BY DEF TypeOK, Entries, Buckets
    <3>2. quiet[a] # Cap /\ quiet'[a] = quiet[a] + 1
      BY <2>1, <2>2, <3>1, OlderFacts
    <3>3. e.addr = a /\ Elapsed(now, e.ts) =< quiet[a]
      BY <2>2, <3>2 DEF QuietInv
    <3>4. now' = IF now + 1 = TimeMod THEN 0 ELSE now + 1
      BY <1>1 DEF Tick
    <3>5. /\ Elapsed(now, e.ts) \in Clock
          /\ Elapsed(now', e.ts) \in Clock
          /\ Elapsed(now', e.ts) =< Elapsed(now, e.ts) + 1
      BY <3>1, <3>4, ElapsedFacts, ElapsedType DEF TypeOK
    <3> QED
      BY <3>1, <3>2, <3>3, <3>5 DEF Clock
  <2>3. QuietInv'
    BY <2>1, <2>2 DEF QuietInv
  <2> QED
    BY <1>0, <2>1, <2>3 DEF HoldOff
<1>2. CASE EnterScan \/ ScanNothing \/ EnterSend \/ Skip \/ EnterRead
  BY <1>0, <1>2 DEF EnterScan, ScanNothing, EnterSend, Skip, EnterRead,
                    QuietInv, HoldOff, Elapsed, histories
<1>3. ASSUME NEW a \in Addrs, ScanReport(a) PROVE QuietInv' /\ HoldOff'
  BY <1>0, <1>3 DEF ScanReport, QuietInv, HoldOff, Elapsed
<1>4. ASSUME Publish PROVE QuietInv' /\ HoldOff'
  <2> DEFINE cur == device_lst[n]
             b   == Bucket[cur.addr]
  <2>1. /\ n \in Slots /\ cur \in Entries /\ cur.addr \in Addrs /\ b \in Buckets
        /\ Available(sent_lst[b], cur.addr)
    BY <1>4, ReportableFacts DEF Publish
  <2>2. /\ sent_lst' = [sent_lst EXCEPT ![b] = cur]
        /\ quiet' = [quiet EXCEPT ![cur.addr] = age[n]]
        /\ report'.addr = cur.addr
        /\ report'.quiet = quiet[cur.addr]
        /\ now' = now
    BY <1>4 DEF Publish
  <2>3. ASSUME NEW a \in Addrs, Alone(a), quiet'[a] # Cap
        PROVE  /\ sent_lst'[Bucket[a]].addr = a
               /\ Elapsed(now, sent_lst'[Bucket[a]].ts) =< quiet'[a]
    <3>1. CASE a = cur.addr
      <4>1. quiet'[a] = age[n] /\ sent_lst'[Bucket[a]] = cur
        BY <2>1, <2>2, <3>1 DEF TypeOK
      <4>2. cur.addr # NoAddr
        BY <2>1
      <4> QED
        BY <2>1, <2>3, <3>1, <4>1, <4>2 DEF AgeInv
    <3>2. CASE a # cur.addr
      <4>1. Bucket[a] # b
        BY <2>1, <2>3, <3>2 DEF Alone
      <4>2. quiet'[a] = quiet[a] /\ sent_lst'[Bucket[a]] = sent_lst[Bucket[a]]
        BY <2>1, <2>2, <3>2, <4>1 DEF TypeOK, Buckets
      <4> QED
        BY <2>3, <4>2 DEF QuietInv
    <3> QED
      BY <3>1, <3>2
  <2>4. ASSUME Alone(cur.addr) PROVE quiet[cur.addr] >= Lifetime
    <3>1. quiet[cur.addr] \in 0 .. Cap
      BY <2>1 DEF TypeOK
    <3>2. CASE quiet[cur.addr] = Cap
      BY <3>1, <3>2
    <3>3. CASE quiet[cur.addr] # Cap
      <4>1. /\ sent_lst[b].addr = cur.addr
            /\ Elapsed(now, sent_lst[b].ts) =< quiet[cur.addr]
        BY <2>1, <2>4, <3>3 DEF QuietInv
      <4>2. Elapsed(now, sent_lst[b].ts) >= Lifetime
        BY <2>1, <4>1 DEF Available
      <4>3. Elapsed(now, sent_lst[b].ts) \in Clock
        BY <2>1, ElapsedType DEF TypeOK, Entries
      <4> QED
        BY <3>1, <4>1, <4>2, <4>3 DEF Clock
    <3> QED
      BY <3>2, <3>3
  <2>5. QuietInv'
    BY <2>2, <2>3 DEF QuietInv, Elapsed
  <2> QED
    BY <2>2, <2>4, <2>5 DEF HoldOff
<1>5. CASE UNCHANGED vars
  BY <1>5 DEF vars, control, histories, QuietInv, HoldOff, Elapsed
<1> QED
  BY <1>1, <1>2, <1>3, <1>4, <1>5 DEF Next

-----------------------------------------------------------------------------
(* Every variable keeps its type, no index leaves its list, and a slot     *)
(* without an address has the time stamp send_device takes for empty.      *)
THEOREM TypeCorrect == Spec => [](TypeOK /\ EmptyInv)
<1>1. Init => TypeOK /\ EmptyInv
  BY InitListInv DEF ListInv
<1> QED
  BY <1>1, TypeStep, PTL DEF Spec

(* The invariant of the scan list, for every hash function.                *)
LEMMA ListInvariance == Spec => []ListInv
<1>1. ListInv /\ [Next]_vars => ListInv'
  <2> SUFFICES ASSUME ListInv, [Next]_vars PROVE ListInv'
    OBVIOUS
  <2>1. TypeOK' /\ EmptyInv'
    BY TypeStep DEF ListInv
  <2> QED
    BY <2>1, ListStep DEF ListInv
<1>2. Init => ListInv
  BY InitListInv
<1> QED
  BY <1>1, <1>2, PTL DEF Spec

(* bt_lst never holds one device twice, unless the older entry expired.    *)
THEOREM ScanListUnique == Spec => []NoTwins
<1>1. ListInv => NoTwins
  BY DEF ListInv
<1> QED
  BY <1>1, ListInvariance, PTL

(* No device with a bucket of its own is reported twice in its lifetime.   *)
THEOREM ReportsHeldOff == Spec => []HoldOff
<1>1. ListInv /\ ListInv' /\ SentInv /\ [Next]_vars => SentInv'
  BY SentStep DEF ListInv
<1>2. Init => SentInv
  BY InitListInv
<1>3. SentInv => HoldOff
  BY DEF SentInv
<1> QED
  BY <1>1, <1>2, <1>3, ListInvariance, PTL DEF Spec

(* All parts of the inductive invariant hold together: the time stamps of  *)
(* bt_lst and sent_lst never claim more time than has passed.              *)
THEOREM Invariance == Spec => []IInv
<1>1. ListInv /\ ListInv' /\ SentInv /\ [Next]_vars => SentInv'
  BY SentStep DEF ListInv
<1>2. Init => SentInv
  BY InitListInv
<1>3. ListInv /\ SentInv => IInv
  BY DEF ListInv, SentInv, IInv
<1> QED
  BY <1>1, <1>2, <1>3, ListInvariance, PTL DEF Spec
=============================================================================
