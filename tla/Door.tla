-------------------------------- MODULE Door --------------------------------
(***************************************************************************)
(* The lock of smartDoor/smart_door.c: the global dr_iot, the command      *)
(* handler mqtt_message_cb that the main thread runs inside a wolfMQTT     *)
(* call, and periodic_timeout, which the sleeptimer interrupt runs in the  *)
(* middle of anything the main thread does.  The interrupt is never        *)
(* preempted by the thread, so it is one action; the handler reads and     *)
(* writes dr_iot in separate steps.                                        *)
(*                                                                         *)
(* The module starts where run_app starts the timer (line 503).  Commands  *)
(* that the broker had queued are already handled inside run_mqtt, so any  *)
(* status is possible there, with an opening at most BootTicks old.        *)
(***************************************************************************)
EXTENDS Integers, DoorCommands

CONSTANTS
  TimeMod,    \* number of values of the uint32_t millisecond clock (2^32)
  OpenFor,    \* length of an opening, 30000 in the code
  Period,     \* clock ticks from one timer interrupt to the next
  CbTicks,    \* bound: clock ticks during one run of mqtt_message_cb
  BootTicks,  \* bound: age of an opening granted before the timer starts
  StatFirst   \* the build stores dr_iot.stat before dr_iot.open_time

(* The longest an opening can last: it is noticed at the first interrupt   *)
(* after its end, or after the first period when it ended earlier.         *)
MaxHeld == IF BootTicks > OpenFor THEN BootTicks + Period
                                  ELSE OpenFor + Period

ASSUME DoorAssumption ==
  /\ TimeMod \in Nat
  /\ OpenFor \in Nat \ {0}
  /\ Period \in Nat \ {0}
  /\ BootTicks \in Nat
  /\ CbTicks \in Nat
  /\ CbTicks < OpenFor
  /\ MaxHeld < TimeMod
  /\ StatFirst \in BOOLEAN

VARIABLES
  stat,       \* dr_iot.stat
  open_time,  \* dr_iot.open_time
  now,        \* time_since_start of timer.c
  led,        \* LED_INSTANCE0, which stands for the bolt: lit is unlocked
  due,        \* ticks to the next timer interrupt
  phase,      \* where mqtt_message_cb is: "idle", "decided" or "half"
  target,     \* the status it is going to store; "closed" when idle
  lag,        \* ticks since mqtt_message_cb was called
  held,       \* history: true age of the opening; frozen when there is none
  lagging,    \* history: ticks in a row at which led disagreed with stat
  first       \* history: the timer has not interrupted since it was started

memory  == <<stat, open_time, led>>
handler == <<phase, target, lag>>
vars    == <<memory, now, due, handler, held, lagging, first>>

Clock == 0 .. TimeMod - 1

Lit(s) == s \in {"open", "unlocked"}

(* Subtraction of uint32_t clock values.                                   *)
Elapsed_NoWrap(t, t0) == t - t0
Elapsed_Signed(t, t0) == IF t >= t0 THEN t - t0 ELSE 0
Elapsed(t, t0) == IF t >= t0 THEN t - t0 ELSE t - t0 + TimeMod

-----------------------------------------------------------------------------
Init ==
  /\ stat \in Statuses
  /\ now \in Clock
  /\ held \in 0 .. BootTicks
  /\ open_time = Elapsed(now, held)
  /\ led = FALSE
  /\ due = Period
  /\ phase = "idle" /\ target = "closed" /\ lag = 0
  /\ lagging = 0 /\ first = TRUE

(* The histories count up to a bound that no property needs to exceed.     *)
Count(x, bound) == IF x < bound THEN x + 1 ELSE x

(* SysTick_Handler.  The timer interrupt that is due is taken first, and a *)
(* run of the handler spans at most CbTicks ticks.                         *)
SysTick ==
  /\ due > 0
  /\ phase # "idle" => lag < CbTicks
  /\ now' = IF now + 1 = TimeMod THEN 0 ELSE now + 1
  /\ due' = due - 1
  /\ held' = IF stat = "open" \/ phase = "half" THEN Count(held, MaxHeld + 1)
                                              ELSE held
  /\ lag' = IF phase = "idle" THEN 0 ELSE lag + 1
  /\ lagging' = IF led = Lit(stat) THEN 0 ELSE Count(lagging, Period + 1)
  /\ UNCHANGED <<memory, phase, target, first>>

(* A command arrives and mqtt_message_cb chooses its branch.  A command    *)
(* that has none changes nothing.                                          *)
Deliver(c) ==
  /\ phase = "idle"
  /\ Branch(stat, c) # Ignored
  /\ phase' = "decided"
  /\ target' = Branch(stat, c)
  /\ lag' = 0
  /\ UNCHANGED <<memory, now, due, held, lagging, first>>

Return ==
  /\ phase' = "idle"
  /\ target' = "closed"
  /\ lag' = 0

(* Lines 147-148.  dr_iot is not volatile and the interrupt is unknown to  *)
(* the compiler, so the two stores of an opening may be made in either     *)
(* order; StatFirst says which order this build has.  The other branches   *)
(* have one store.                                                         *)
TimeTurn == /\ target = "open"
            /\ phase = IF StatFirst THEN "half" ELSE "decided"
StatTurn == phase = IF target = "open" /\ ~StatFirst THEN "half" ELSE "decided"

StoreOpenTime ==
  /\ TimeTurn
  /\ open_time' = now
  /\ held' = 0
  /\ IF phase = "decided" THEN phase' = "half" /\ UNCHANGED <<target, lag>>
                          ELSE Return
  /\ UNCHANGED <<stat, led, now, due, lagging, first>>

StoreStat ==
  /\ StatTurn
  /\ stat' = target
  /\ IF target = "open" /\ phase = "decided"
       THEN phase' = "half" /\ UNCHANGED <<target, lag>>
       ELSE Return
  /\ UNCHANGED <<open_time, led, now, due, held, lagging, first>>

(* periodic_timeout: the statuses an interrupt leaves alone, and the LED.  *)
Keeps_Forgets == stat \in {"locked", "unlocked", "open"}
Keeps_Unlocked ==
  \/ stat = "open" /\ Elapsed(now, open_time) < OpenFor
  \/ stat = "locked"
Keeps ==
  \/ stat = "open" /\ Elapsed(now, open_time) < OpenFor
  \/ stat \in {"locked", "unlocked"}

Drive_NoLockOff(s) == IF s = "locked" THEN led ELSE Lit(s)
Drive(s) == Lit(s)

PeriodicTimeout ==
  /\ due = 0
  /\ due' = Period
  /\ stat' = IF Keeps THEN stat ELSE "closed"
  /\ led' = Drive(stat')
  /\ lagging' = IF led' = Lit(stat') THEN 0 ELSE lagging
  /\ first' = FALSE
  /\ UNCHANGED <<open_time, now, handler, held>>

Next ==
  \/ SysTick
  \/ \E c \in Commands : Deliver(c)
  \/ StoreOpenTime
  \/ StoreStat
  \/ PeriodicTimeout

Spec == Init /\ [][Next]_vars

(* Both clocks are hardware and the handler has no loop, so all of them go *)
(* on; nothing says that a command ever arrives.                           *)
Fairness ==
  /\ WF_vars(SysTick)
  /\ WF_vars(PeriodicTimeout)
  /\ WF_vars(StoreOpenTime \/ StoreStat)

FairSpec == Spec /\ Fairness

-----------------------------------------------------------------------------
(* Every variable has its type.                                            *)
TypeOK ==
  /\ stat \in Statuses
  /\ open_time \in Clock
  /\ now \in Clock
  /\ led \in BOOLEAN
  /\ due \in 0 .. Period
  /\ phase \in {"idle", "decided", "half"}
  /\ target \in Statuses
  /\ lag \in 0 .. CbTicks
  /\ held \in 0 .. MaxHeld + 1
  /\ lagging \in 0 .. Period + 1
  /\ first \in BOOLEAN

(* An opening ends in time although the clock wraps, the handler is        *)
(* interrupted between its two stores, and openings are renewed: it is     *)
(* over before OpenFor and a period have passed since it was last granted. *)
(* One from before the timer was started may be older, up to the first     *)
(* interrupt: then nobody has looked at it yet.                            *)
OpenBounded ==
  stat = "open" => IF first THEN held =< MaxHeld
                            ELSE held < OpenFor + Period

(* The bolt follows the status: only the interrupt drives the LED, so a    *)
(* command acts on it late, but never later than one timer period, however *)
(* commands and interrupts interleave.                                     *)
LedFollows == lagging =< Period

(* The inductive invariant behind the two bounds and the refinement, for a *)
(* build that stores the time first: the clock difference the interrupt    *)
(* computes is the true age of the opening, an opening always ends within  *)
(* the rest of this period or the next, and a handler that has chosen a    *)
(* branch would still choose it.                                           *)
AgeInv == (stat = "open" \/ phase = "half") => Elapsed(now, open_time) = held
BoundInv ==
  stat = "open" => IF first THEN held + due =< MaxHeld
                            ELSE held + due < OpenFor + Period
HandlerInv ==
  /\ phase = "half" => target = "open" /\ held =< lag
  /\ phase # "idle" /\ target = "open" => stat # "locked"
  /\ phase # "idle" /\ target = "closed" => stat = "locked"
LedInv == lagging + due =< Period
IInv == TypeOK /\ AgeInv /\ BoundInv /\ HandlerInv /\ LedInv

(* A command of the door acts at one instant, as in DoorLock, although the *)
(* handler takes several steps: for an open door that is opened again the  *)
(* instant is the store of the time, otherwise the store of the status.    *)
Promise == INSTANCE DoorLock WITH
  status  <- stat,
  age     <- IF stat = "open" THEN held ELSE 0,
  MaxOpen <- MaxHeld,
  Grace   <- CbTicks
ImplementsDoorLock == Promise!Spec

(* An opening that is not renewed ends: the door does not stay open.       *)
OpeningEnds == stat = "open" ~> (stat # "open" \/ phase # "idle")
=============================================================================
