----------------------------- MODULE DoorProofs -----------------------------
(***************************************************************************)
(* Proofs about Door for every clock width, opening time, timer period and *)
(* handler delay that DoorAssumption allows.  The typing holds for both    *)
(* builds; the bounds and the refinement hold for a build that stores the  *)
(* time of an opening before its status.                                   *)
(***************************************************************************)
EXTENDS Door, TLAPS

(* The longest opening is at least one whole opening and one period.       *)
LEMMA MaxHeldBounds ==
  /\ MaxHeld \in Nat
  /\ MaxHeld >= OpenFor + Period
  /\ MaxHeld >= BootTicks + Period
  /\ MaxHeld < TimeMod
BY DoorAssumption DEF MaxHeld

(* Clock subtraction stays within the clock.                               *)
LEMMA ElapsedType ==
  \A t \in Clock : \A t0 \in Clock : Elapsed(t, t0) \in Clock
BY DoorAssumption DEF Elapsed, Clock

(* What the interrupt leaves alone does not depend on open versus closed:  *)
(* a handler that is interrupted has still chosen the right branch.        *)
LEMMA BranchStable ==
  \A c \in Commands : Branch("open", c) = Branch("closed", c)
BY DEF Branch, Commands, Ignored

(* The branches of the handler, by the status they store.                  *)
LEMMA BranchMeans ==
  ASSUME NEW s \in Statuses, NEW c \in Commands, Branch(s, c) # Ignored
  PROVE  /\ Branch(s, c) \in Statuses
         /\ Branch(s, c) = "open" => s # "locked"
         /\ Branch(s, c) = "closed" => s = "locked"
BY DEF Branch, Commands, Statuses, Ignored

-----------------------------------------------------------------------------
(* The door starts with every variable in its type.                        *)
LEMMA InitTypeOK == Init => TypeOK
<1> SUFFICES ASSUME Init PROVE TypeOK
  OBVIOUS
<1>1. held \in Clock
  BY MaxHeldBounds, DoorAssumption DEF Init, Clock
<1>2. open_time \in Clock
  BY <1>1, ElapsedType DEF Init
<1>3. led \in BOOLEAN
  BY DEF Init
<1>4. /\ due \in 0 .. Period
      /\ lag \in 0 .. CbTicks
      /\ held \in 0 .. MaxHeld + 1
      /\ lagging \in 0 .. Period + 1
  BY DoorAssumption, MaxHeldBounds DEF Init
<1>5. first \in BOOLEAN
  BY Zenon DEF Init
<1> QED
  BY <1>2, <1>3, <1>4, <1>5 DEF Init, TypeOK, Statuses

(* Every variable keeps its type: in particular the clock and open_time    *)
(* stay within a uint32_t and the timer never runs past its deadline.      *)
THEOREM TypeCorrect == Spec => []TypeOK
<1>1. TypeOK /\ [Next]_vars => TypeOK'
  <2> SUFFICES ASSUME TypeOK, [Next]_vars PROVE TypeOK'
    OBVIOUS
  <2> USE DoorAssumption DEF TypeOK
  <2>1. CASE SysTick
    <3>1. /\ Count(held, MaxHeld + 1) \in 0 .. MaxHeld + 1
          /\ Count(lagging, Period + 1) \in 0 .. Period + 1
      BY MaxHeldBounds DEF Count
    <3>2. held' \in 0 .. MaxHeld + 1
      BY <2>1, <3>1 DEF SysTick
    <3>3. lagging' \in 0 .. Period + 1
      <4>1. lagging' = 0 \/ lagging' = Count(lagging, Period + 1)
        BY <2>1 DEF SysTick
      <4> QED
        BY <3>1, <4>1
    <3> QED
      BY <2>1, <3>2, <3>3 DEF SysTick, memory, Clock
  <2>2. ASSUME NEW c \in Commands, Deliver(c) PROVE TypeOK'
    <3>1. target' \in Statuses
      BY <2>2, BranchMeans DEF Deliver
    <3> QED
      BY <2>2, <3>1 DEF Deliver, memory
  <2>3. CASE StoreOpenTime
    BY <2>3, MaxHeldBounds DEF StoreOpenTime, Return, Statuses
  <2>4. CASE StoreStat
    BY <2>4 DEF StoreStat, Return, Statuses
  <2>5. CASE PeriodicTimeout
    <3>1. first' \in BOOLEAN
      BY <2>5, Zenon DEF PeriodicTimeout
    <3> QED
      BY <2>5, <3>1 DEF PeriodicTimeout, Drive, Lit, handler, Statuses
  <2>6. CASE UNCHANGED vars
    BY <2>6 DEF vars, memory, handler
  <2> QED
    BY <2>1, <2>2, <2>3, <2>4, <2>5, <2>6 DEF Next
<1> QED
  BY <1>1, InitTypeOK, PTL DEF Spec

-----------------------------------------------------------------------------
(* The inductive invariant.                                                *)
LEMMA InitIInv == Init => IInv
<1> SUFFICES ASSUME Init PROVE IInv
  OBVIOUS
<1>1. /\ held \in Clock
      /\ open_time \in Clock
  BY MaxHeldBounds, ElapsedType, DoorAssumption DEF Init, Clock
<1>2. TypeOK
  BY InitTypeOK
<1>3. AgeInv
  BY <1>1, DoorAssumption DEF Init, AgeInv, Elapsed, Clock
<1>4. BoundInv
  BY MaxHeldBounds, DoorAssumption DEF Init, BoundInv
<1>5. HandlerInv /\ LedInv
  BY DoorAssumption DEF Init, HandlerInv, LedInv
<1> QED
  BY <1>2, <1>3, <1>4, <1>5 DEF IInv

(* A tick ages an opening and the clock difference alike, because the      *)
(* opening never gets as old as the clock is wide.                         *)
LEMMA TickKeeps ==
  ASSUME ~StatFirst, IInv, TypeOK', SysTick
  PROVE  IInv'
<1> USE DoorAssumption, MaxHeldBounds DEF IInv, TypeOK
<1>1. AgeInv'
  <2> SUFFICES ASSUME stat = "open" \/ phase = "half"
               PROVE  Elapsed(now', open_time') = held'
    BY DEF SysTick, AgeInv, memory
  <2>1. Elapsed(now, open_time) = held
    BY DEF AgeInv
  <2>2. held =< MaxHeld /\ held + 1 < TimeMod
    BY DEF SysTick, BoundInv, HandlerInv
  <2>3. held' = held + 1 /\ open_time' = open_time
    BY <2>2 DEF SysTick, Count, memory
  <2>4. now' = IF now + 1 = TimeMod THEN 0 ELSE now + 1
    BY DEF SysTick
  <2> QED
    BY <2>1, <2>2, <2>3, <2>4 DEF Elapsed, Clock
<1>2. held' =< held + 1 /\ lagging' =< lagging + 1
  <2>1. Count(held, MaxHeld + 1) =< held + 1
    BY DEF Count
  <2>2. Count(lagging, Period + 1) =< lagging + 1
    BY DEF Count
  <2> QED
    BY <2>1, <2>2 DEF SysTick
<1>3. BoundInv'
  BY <1>2 DEF SysTick, BoundInv, memory
<1>4. HandlerInv'
  BY <1>2 DEF SysTick, HandlerInv, memory
<1>5. LedInv'
  BY <1>2 DEF SysTick, LedInv
<1> QED
  BY <1>1, <1>3, <1>4, <1>5

(* Choosing a branch stores nothing and records why the branch is right.   *)
LEMMA DeliverKeeps ==
  ASSUME ~StatFirst, IInv, TypeOK', NEW c \in Commands, Deliver(c)
  PROVE  IInv'
<1> USE DEF IInv, TypeOK
<1>1. AgeInv' /\ BoundInv' /\ LedInv'
  BY DEF Deliver, AgeInv, BoundInv, LedInv, memory
<1>2. HandlerInv'
  BY BranchMeans DEF Deliver, HandlerInv, memory
<1> QED
  BY <1>1, <1>2

(* The store of the time makes the opening new.                            *)
LEMMA StoreOpenTimeKeeps ==
  ASSUME ~StatFirst, IInv, TypeOK', StoreOpenTime
  PROVE  IInv'
<1> USE DoorAssumption, MaxHeldBounds DEF IInv, TypeOK
<1>1. phase = "decided" /\ target = "open" /\ phase' = "half" /\ lag' = lag
  BY DEF StoreOpenTime, TimeTurn
<1>2. held' = 0 /\ open_time' = now /\ now' = now
  BY DEF StoreOpenTime
<1>3. AgeInv'
  BY <1>2 DEF AgeInv, Elapsed, Clock
<1>4. BoundInv'
  BY <1>2 DEF StoreOpenTime, BoundInv
<1>5. HandlerInv'
  BY <1>1, <1>2 DEF StoreOpenTime, HandlerInv
<1>6. LedInv'
  BY DEF StoreOpenTime, LedInv
<1> QED
  BY <1>3, <1>4, <1>5, <1>6

(* The store of the status ends the handler; an opening is then at most    *)
(* CbTicks old and so has its whole bound before it.                       *)
LEMMA StoreStatKeeps ==
  ASSUME ~StatFirst, IInv, TypeOK', StoreStat
  PROVE  IInv'
<1> USE DoorAssumption, MaxHeldBounds DEF IInv, TypeOK
<1>1. phase' = "idle" /\ stat' = target
  BY DEF StoreStat, StatTurn, Return
<1>2. UNCHANGED <<now, open_time, held, due, lagging>>
  BY DEF StoreStat
<1>3. stat' = "open" => phase = "half"
  BY DEF StoreStat, StatTurn
<1>4. AgeInv'
  BY <1>1, <1>2, <1>3 DEF AgeInv, Elapsed
<1>5. BoundInv'
  BY <1>2, <1>3 DEF BoundInv, HandlerInv
<1>6. HandlerInv' /\ LedInv'
  BY <1>1, <1>2 DEF HandlerInv, LedInv
<1> QED
  BY <1>4, <1>5, <1>6

(* The interrupt keeps only an opening that is younger than OpenFor, which *)
(* therefore ends within the period that starts now: from the first one on *)
(* no opening is as old as OpenFor and a period together.                  *)
LEMMA TimeoutKeeps ==
  ASSUME ~StatFirst, IInv, TypeOK', PeriodicTimeout
  PROVE  IInv'
<1> USE DoorAssumption, MaxHeldBounds DEF IInv, TypeOK
<1>1. UNCHANGED <<now, open_time, held, phase, target, lag>>
  BY DEF PeriodicTimeout, handler
<1>2. /\ stat' = "open" => stat = "open" /\ Elapsed(now, open_time) < OpenFor
      /\ stat' = "locked" <=> stat = "locked"
  BY DEF PeriodicTimeout, Keeps, Statuses
<1>3. AgeInv'
  BY <1>1, <1>2 DEF AgeInv, Elapsed
<1>4. BoundInv'
  BY <1>1, <1>2 DEF PeriodicTimeout, BoundInv, AgeInv
<1>5. HandlerInv'
  BY <1>1, <1>2 DEF HandlerInv
<1>6. LedInv'
  BY DEF PeriodicTimeout, LedInv, Drive
<1> QED
  BY <1>3, <1>4, <1>5, <1>6

(* The invariant holds in every state of a build that stores the time      *)
(* first.                                                                  *)
THEOREM Invariance == ~StatFirst => (Spec => []IInv)
<1> SUFFICES ASSUME ~StatFirst PROVE Spec => []IInv
  OBVIOUS
<1>1. IInv /\ TypeOK' /\ [Next]_vars => IInv'
  <2> SUFFICES ASSUME IInv, TypeOK', [Next]_vars PROVE IInv'
    OBVIOUS
  <2>1. CASE UNCHANGED vars
    BY <2>1 DEF vars, memory, handler, IInv, TypeOK, AgeInv, BoundInv,
                HandlerInv, LedInv, Elapsed
  <2> QED
    BY <2>1, TickKeeps, DeliverKeeps, StoreOpenTimeKeeps, StoreStatKeeps,
       TimeoutKeeps DEF Next
<1> QED
  BY InitIInv, <1>1, TypeCorrect, PTL DEF Spec

(* An opening ends in time, whatever the interleaving of handler, timer    *)
(* and clock, and although the clock wraps: it is over before OpenFor and  *)
(* a period have passed, but for one that was granted before the timer was *)
(* started, which lasts up to the first interrupt, MaxHeld at most.        *)
THEOREM OpeningBounded == ~StatFirst => (Spec => []OpenBounded)
<1> SUFFICES ASSUME ~StatFirst PROVE Spec => []OpenBounded
  OBVIOUS
<1>1. IInv => OpenBounded
  BY DoorAssumption, MaxHeldBounds DEF IInv, TypeOK, BoundInv, OpenBounded
<1> QED
  BY <1>1, Invariance, PTL

(* The bolt disagrees with the status for one timer period at most.        *)
THEOREM LedFollowsStat == ~StatFirst => (Spec => []LedFollows)
<1> SUFFICES ASSUME ~StatFirst PROVE Spec => []LedFollows
  OBVIOUS
<1>1. IInv => LedFollows
  BY DoorAssumption DEF IInv, TypeOK, LedInv, LedFollows
<1> QED
  BY <1>1, Invariance, PTL

-----------------------------------------------------------------------------
(* The interrupted handler and the timer implement the door of DoorLock:   *)
(* every command acts at one instant, nothing else ends `locked` or        *)
(* `unlocked`, and an opening lasts at least OpenFor and at most MaxHeld.  *)
THEOREM Refinement == ~StatFirst => (Spec => ImplementsDoorLock)
<1> SUFFICES ASSUME ~StatFirst PROVE Spec => ImplementsDoorLock
  OBVIOUS
<1>1. Init => Promise!Init
  BY DoorAssumption DEF Init, Promise!Init, Promise!Statuses, Statuses
<1>2. IInv /\ IInv' /\ [Next]_vars => [Promise!Next]_(Promise!vars)
  <2> SUFFICES ASSUME IInv, IInv', [Next]_vars
               PROVE  [Promise!Next]_(Promise!vars)
    OBVIOUS
  <2> USE DoorAssumption, MaxHeldBounds DEF IInv, TypeOK
  <2>1. CASE SysTick
    <3>1. stat' = stat
      BY <2>1 DEF SysTick, memory
    <3>2. CASE stat = "open"
      <4>1. held' = held + 1 /\ held < MaxHeld
        BY <2>1, <3>2 DEF SysTick, BoundInv, Count
      <4> QED
        BY <3>1, <3>2, <4>1 DEF Promise!Next, Promise!Tick
    <3> QED
      BY <3>1, <3>2 DEF Promise!vars
  <2>2. ASSUME NEW c \in Commands, Deliver(c)
        PROVE  UNCHANGED Promise!vars
    BY <2>2 DEF Deliver, memory, Promise!vars
  <2>3. CASE StoreOpenTime
    <3>1. stat' = stat /\ held' = 0
      BY <2>3 DEF StoreOpenTime
    <3> QED
      BY <3>1 DEF Promise!Next, Promise!Open, Promise!vars
  <2>4. CASE StoreStat
    <3>1. stat' = target /\ held' = held
      BY <2>4 DEF StoreStat
    <3>2. CASE target = "open"
      <4>1. held \in 0 .. CbTicks /\ stat # "locked"
        BY <2>4, <3>2 DEF StoreStat, StatTurn, HandlerInv
      <4> QED
        BY <3>1, <3>2, <4>1 DEF Promise!Next, Promise!Open
    <3>3. CASE target = "closed"
      <4>1. stat = "locked"
        BY <2>4, <3>3 DEF StoreStat, StatTurn, HandlerInv
      <4> QED
        BY <3>1, <3>3, <4>1 DEF Promise!Next, Promise!Normal
    <3>4. CASE target \in {"locked", "unlocked"}
      BY <3>1, <3>4 DEF Promise!Next, Promise!Lock, Promise!Unlock
    <3> QED
      BY <3>2, <3>3, <3>4 DEF Statuses
  <2>5. CASE PeriodicTimeout
    <3>1. held' = held /\ (stat' = stat \/ stat' = "closed")
      BY <2>5 DEF PeriodicTimeout
    <3>2. CASE stat = "open" /\ stat' = "closed"
      <4>1. held >= OpenFor
        BY <2>5, <3>2 DEF PeriodicTimeout, Keeps, AgeInv
      <4> QED
        BY <3>2, <4>1 DEF Promise!Next, Promise!Close
    <3>3. CASE ~(stat = "open" /\ stat' = "closed")
      <4>1. stat' = stat
        BY <2>5, <3>3 DEF PeriodicTimeout, Keeps, Statuses
      <4> QED
        BY <3>1, <4>1 DEF Promise!vars
    <3> QED
      BY <3>2, <3>3
  <2>6. CASE UNCHANGED vars
    BY <2>6 DEF vars, memory, Promise!vars
  <2> QED
    BY <2>1, <2>2, <2>3, <2>4, <2>5, <2>6 DEF Next
<1> QED
  BY <1>1, <1>2, Invariance, PTL DEF Spec, ImplementsDoorLock, Promise!Spec
=============================================================================
