---------------------------- MODULE ModemProofs ----------------------------
(***************************************************************************)
(* Proofs about Modem for any number of rounds and of operators.           *)
(***************************************************************************)
EXTENDS Modem, TLAPS

(* The numbers a round, or a command of a group, can have.                 *)
Counts == 0 .. (IF Rounds > 3 THEN Rounds ELSE 3) - 1

LEMMA CountsType ==
  /\ 0 \in Counts
  /\ \A n \in Counts : n \in Nat /\ (n < 2 \/ n + 1 < Rounds => n + 1 \in Counts)
BY ModemAssumption DEF Counts

(* Both ways into the close are exchanges, and the escape is taken only    *)
(* when transparentMode is set.                                            *)
LEMMA CloseType ==
  /\ FirstOfClose \in {"plus", "sisc"}
  /\ FirstOfClose = "plus" => transparentMode
BY DEF FirstOfClose

(* The control part of the invariant, and the part about the modem.        *)
ControlInv == pc \in Steps /\ k \in Counts /\ ops \in 0 .. MaxOps
              /\ GroupInv /\ OperatorInv
Flags ==
  /\ transparentMode \in BOOLEAN /\ data \in BOOLEAN /\ service \in BOOLEAN
  /\ late \in BOOLEAN /\ prompt \in BOOLEAN /\ dropped \in BOOLEAN
ModemInv == PromptInv /\ EscapeInv /\ DataInv /\ ModeInv /\ ServiceInv

LEMMA Parts == IInv <=> ControlInv /\ Flags /\ ModemInv
BY DEF IInv, TypeOK, ControlInv, Counts, Flags, ModemInv

LEMMA InitIInv == Init => IInv
<1> SUFFICES ASSUME Init PROVE ControlInv /\ Flags /\ ModemInv
  BY Parts
<1>1. ControlInv
  BY CountsType, ModemAssumption DEF Init, ControlInv, Steps, GroupInv, OperatorInv
<1>2. Flags
  BY Zenon DEF Init, Flags
<1>3. ModemInv
  BY DEF Init, ModemInv, PromptInv, EscapeInv, DataInv, ModeInv, ServiceInv
<1> QED
  BY <1>1, <1>2, <1>3

-----------------------------------------------------------------------------
(* Where the exchanges that are repeated lead.                             *)
LEMMA RespondArms ==
  ASSUME ControlInv, NEW ok \in BOOLEAN, Respond(ok)
  PROVE  /\ pc = "respond" /\ UNCHANGED ops
         /\ \/ Go("operators") \/ Go(FirstOfClose)
            \/ k + 1 < Rounds /\ pc' = pc /\ k' = k + 1
<1>1. k \in Nat /\ Rounds \in Nat
  BY ModemAssumption DEF ControlInv, Counts
<1>2. NextRound < Rounds \/ NextRound >= Rounds
  BY <1>1 DEF NextRound
<1>3. \/ Go("operators") \/ Go(FirstOfClose)
      \/ NextRound < Rounds /\ pc' = pc /\ k' = NextRound
  <2>1. CASE ok
    BY <2>1 DEF Respond
  <2>2. CASE ~ok /\ NextRound < Rounds
    BY <2>2, Zenon DEF Respond
  <2>3. CASE ~ok /\ ~(NextRound < Rounds)
    BY <1>2, <2>3, Zenon DEF Respond
  <2> QED
    BY <2>1, <2>2, <2>3
<1> QED
  BY <1>3 DEF NextRound, Respond

LEMMA WaitArms ==
  ASSUME ControlInv, NEW ok \in BOOLEAN, WaitUntilRegistered(ok)
  PROVE  /\ pc = "creg"
         /\ \/ Go("sics") /\ ops' = 0
            \/ k + 1 < Rounds /\ pc' = pc /\ k' = k + 1 /\ UNCHANGED ops
            \/ Go("setop") /\ ops' = ops - 1
<1>1. k \in Nat /\ Rounds \in Nat
  BY ModemAssumption DEF ControlInv, Counts
<1>2. NextRound < Rounds \/ NextRound >= Rounds
  BY <1>1 DEF NextRound
<1>3. \/ Go("sics") /\ ops' = 0
      \/ NextRound < Rounds /\ pc' = pc /\ k' = NextRound /\ UNCHANGED ops
      \/ Go("setop") /\ ops' = OthersLeft
  <2>1. CASE ok
    BY <2>1 DEF WaitUntilRegistered
  <2>2. CASE ~ok /\ NextRound < Rounds
    BY <2>2, Zenon DEF WaitUntilRegistered
  <2>3. CASE ~ok /\ ~(NextRound < Rounds)
    BY <1>2, <2>3, Zenon DEF WaitUntilRegistered
  <2> QED
    BY <2>1, <2>2, <2>3
<1> QED
  BY <1>3 DEF NextRound, OthersLeft, WaitUntilRegistered

LEMMA ProfileArms ==
  ASSUME ControlInv, NEW ok \in BOOLEAN,
         SetupConnectionProfile(ok) \/ SetupServiceProfile(ok)
  PROVE  /\ pc \in {"sics", "siss"} /\ UNCHANGED ops
         /\ \/ Go("siss") \/ Go("imei") \/ Go(FirstOfClose)
            \/ k < 2 /\ pc' = pc /\ k' = k + 1
<1>1. PICK from \in {"sics", "siss"}, to \in {"siss", "imei"} :
        Profile(from, to, ok)
  BY DEF SetupConnectionProfile, SetupServiceProfile
<1>2. k < 2 \/ k = 2
  BY <1>1 DEF ControlInv, GroupInv, Counts, Profile
<1>3. \/ Go(to) \/ Go(FirstOfClose)
      \/ k < 2 /\ pc' = pc /\ k' = k + 1
  <2>1. CASE ~ok
    BY <1>1, <2>1, Zenon DEF Profile
  <2>2. CASE ok /\ k < 2
    BY <1>1, <2>2, Zenon DEF Profile
  <2>3. CASE ok /\ k = 2
    BY <1>1, <2>3, Zenon DEF Profile
  <2> QED
    BY <1>2, <2>1, <2>2, <2>3
<1> QED
  BY <1>1, <1>3 DEF Profile

(* No exchange leaves the program's steps, counts past its group or tries  *)
(* an operator that is not in the list.                                    *)
LEMMA ControlStep == ControlInv /\ [Next]_vars => ControlInv'
<1> SUFFICES ASSUME ControlInv, [Next]_vars PROVE ControlInv'
  OBVIOUS
<1> USE CountsType, CloseType, ModemAssumption DEF ControlInv, Steps, GroupInv, OperatorInv, Go
<1>0. k \in Nat /\ Rounds \in Nat /\ ops \in Nat
  BY DEF Counts
<1>1. ASSUME NEW ok \in BOOLEAN, EchoOff(ok) \/ Scfg(ok) PROVE ControlInv'
  BY <1>1 DEF EchoOff, Scfg, Exchange
<1>2. ASSUME NEW ok \in BOOLEAN, Respond(ok) PROVE ControlInv'
  BY <1>2, RespondArms
<1>3. ASSUME NEW ok \in BOOLEAN, SetOperator(ok) PROVE ControlInv'
  BY <1>3 DEF SetOperator, OthersLeft
<1>4. ASSUME NEW ok \in BOOLEAN, WaitUntilRegistered(ok) PROVE ControlInv'
  BY <1>4, WaitArms
<1>5. ASSUME NEW ok \in BOOLEAN,
             SetupConnectionProfile(ok) \/ SetupServiceProfile(ok)
      PROVE  ControlInv'
  BY <1>5, ProfileArms
<1>6. ASSUME NEW ok \in BOOLEAN, GetIMEI(ok) \/ MqttUp(ok) \/ CloseService(ok)
      PROVE  ControlInv'
  BY <1>6 DEF GetIMEI, MqttUp, CloseService
<1>7. ASSUME NEW ok \in BOOLEAN, NEW obeyed \in BOOLEAN,
             \/ OpenService(obeyed, ok) \/ EnterDataMode(obeyed, ok)
             \/ LeaveDataMode(obeyed, ok)
      PROVE  ControlInv'
  BY <1>7 DEF OpenService, EnterDataMode, LeaveDataMode, AfterEscape
<1>8. CASE GetOperators
  <2>1. Listed \subseteq 0 .. MaxOps
    BY DEF Listed
  <2> QED
    BY <1>8, <2>1 DEF GetOperators
<1>9. CASE GetOperatorsFails \/ NoOperatorLeft
  <2>1. CASE GetOperatorsFails
    BY <2>1 DEF GetOperatorsFails
  <2>2. CASE NoOperatorLeft
    BY <2>2 DEF NoOperatorLeft
  <2> QED
    BY <1>9, <2>1, <2>2
<1>10. CASE Drop \/ UNCHANGED vars
  BY <1>10 DEF Drop, vars
<1> QED
  BY <1>1, <1>2, <1>3, <1>4, <1>5, <1>6, <1>7, <1>8, <1>9, <1>10 DEF Next, Step

(* The flags stay flags.                                                   *)
LEMMA FlagsStep == Flags /\ [Next]_vars => Flags'
<1> SUFFICES ASSUME Flags, [Next]_vars PROVE Flags'
  OBVIOUS
<1> USE DEF Flags
<1>0. ASSUME NEW ok \in BOOLEAN, NEW orderly \in BOOLEAN, Answer(ok, orderly)
      PROVE  late' \in BOOLEAN /\ prompt' \in BOOLEAN /\ dropped' \in BOOLEAN
  BY <1>0, Zenon DEF Answer
<1>1. ASSUME NEW ok \in BOOLEAN,
             \/ EchoOff(ok) \/ Scfg(ok) \/ Respond(ok)
             \/ SetOperator(ok) \/ WaitUntilRegistered(ok)
             \/ SetupConnectionProfile(ok) \/ SetupServiceProfile(ok)
             \/ GetIMEI(ok)
      PROVE  Flags'
  BY <1>0, <1>1 DEF EchoOff, Scfg, Exchange, Respond, SetOperator,
     WaitUntilRegistered, SetupConnectionProfile, SetupServiceProfile, Profile,
     GetIMEI
<1>2. ASSUME NEW ok \in BOOLEAN, MqttUp(ok) PROVE Flags'
  BY <1>2 DEF MqttUp
<1>3. ASSUME NEW ok \in BOOLEAN, CloseService(ok) PROVE Flags'
  BY <1>3, Zenon DEF CloseService
<1>4. ASSUME NEW ok \in BOOLEAN, NEW obeyed \in BOOLEAN,
             OpenService(obeyed, ok) \/ EnterDataMode(obeyed, ok)
      PROVE  Flags'
  <2>1. late' \in BOOLEAN /\ prompt' \in BOOLEAN /\ dropped' \in BOOLEAN
    BY <1>0, <1>4 DEF OpenService, EnterDataMode, Obeys
  <2> QED
    BY <1>4, <2>1, Zenon DEF OpenService, EnterDataMode
<1>5. ASSUME NEW ok \in BOOLEAN, NEW obeyed \in BOOLEAN,
             LeaveDataMode(obeyed, ok)
      PROVE  Flags'
  BY <1>5, Zenon DEF LeaveDataMode
<1>6. CASE GetOperators \/ GetOperatorsFails
  BY <1>0, <1>6 DEF GetOperators, GetOperatorsFails
<1>7. CASE NoOperatorLeft \/ UNCHANGED vars
  BY <1>7 DEF NoOperatorLeft, vars
<1>8. CASE Drop
  BY <1>8, Zenon DEF Drop
<1> QED
  BY <1>1, <1>2, <1>3, <1>4, <1>5, <1>6, <1>7, <1>8 DEF Next, Step

-----------------------------------------------------------------------------
(* What the modem does and what the program believes stay in step.         *)
LEMMA ModemStep == ControlInv /\ Flags /\ ModemInv /\ [Next]_vars => ModemInv'
<1> SUFFICES ASSUME ControlInv, Flags, ModemInv, [Next]_vars PROVE ModemInv'
  OBVIOUS
<1> USE CloseType DEF ModemInv, PromptInv, EscapeInv, DataInv, ModeInv,
                      ServiceInv, Flags, Go
(* An answer to a command without effect on the modem's mode, before or    *)
(* outside data mode.                                                      *)
<1>0. ASSUME NEW ok \in BOOLEAN, NEW orderly \in BOOLEAN, Answer(ok, orderly),
             UNCHANGED <<transparentMode, data, service>>,
             pc \notin {"sist", "mqtt", "up", "plus", "sisc"},
             pc' = "plus" => transparentMode
      PROVE  ModemInv'
  BY <1>0 DEF Answer
<1>1. ASSUME NEW ok \in BOOLEAN,
             \/ EchoOff(ok) \/ Scfg(ok) \/ Respond(ok)
             \/ SetOperator(ok) \/ WaitUntilRegistered(ok)
             \/ SetupConnectionProfile(ok) \/ SetupServiceProfile(ok)
             \/ GetIMEI(ok)
      PROVE  ModemInv'
  <2>1. CASE EchoOff(ok) \/ Scfg(ok) \/ SetOperator(ok) \/ GetIMEI(ok)
    BY <1>0, <2>1 DEF EchoOff, Scfg, Exchange, SetOperator, GetIMEI
  <2>2. CASE Respond(ok)
    <3>1. Answer(ok, TRUE) /\ UNCHANGED <<transparentMode, data, service>>
      BY <2>2 DEF Respond
    <3> QED
      BY <1>0, <2>2, <3>1, RespondArms
  <2>3. CASE WaitUntilRegistered(ok)
    <3>1. Answer(ok, TRUE) /\ UNCHANGED <<transparentMode, data, service>>
      BY <2>3 DEF WaitUntilRegistered
    <3> QED
      BY <1>0, <2>3, <3>1, WaitArms
  <2>4. CASE SetupConnectionProfile(ok) \/ SetupServiceProfile(ok)
    <3>1. Answer(ok, TRUE) /\ UNCHANGED <<transparentMode, data, service>>
      BY <2>4 DEF SetupConnectionProfile, SetupServiceProfile, Profile
    <3> QED
      BY <1>0, <2>4, <3>1, ProfileArms
  <2> QED
    BY <1>1, <2>1, <2>2, <2>3, <2>4
<1>2. ASSUME NEW ok \in BOOLEAN, MqttUp(ok) PROVE ModemInv'
  BY <1>2 DEF MqttUp, FirstOfClose
<1>3. ASSUME NEW ok \in BOOLEAN, CloseService(ok) PROVE ModemInv'
  BY <1>3 DEF CloseService
(* AT^SISO: with a prompt modem the service is open if and only if the     *)
(* program goes on to data mode.                                           *)
<1>4. ASSUME NEW ok \in BOOLEAN, NEW obeyed \in BOOLEAN, OpenService(obeyed, ok)
      PROVE  ModemInv'
  BY <1>4 DEF OpenService, Obeys, Answer
(* AT^SIST: the modem enters data mode when transparentMode is set.        *)
<1>5. ASSUME NEW ok \in BOOLEAN, NEW obeyed \in BOOLEAN,
             EnterDataMode(obeyed, ok)
      PROVE  ModemInv'
  BY <1>5 DEF EnterDataMode, Obeys, Answer, FirstOfClose
(* The escape ends data mode, or the connection had been lost.             *)
<1>6. ASSUME NEW ok \in BOOLEAN, NEW obeyed \in BOOLEAN,
             LeaveDataMode(obeyed, ok)
      PROVE  ModemInv'
  BY <1>6 DEF LeaveDataMode, AfterEscape
<1>7. CASE GetOperators \/ GetOperatorsFails
  BY <1>0, <1>7 DEF GetOperators, GetOperatorsFails
<1>8. CASE NoOperatorLeft
  BY <1>8 DEF NoOperatorLeft
<1>9. CASE Drop
  BY <1>9 DEF Drop
<1>10. CASE UNCHANGED vars
  BY <1>10 DEF vars
<1> QED
  BY <1>1, <1>2, <1>3, <1>4, <1>5, <1>6, <1>7, <1>8, <1>9, <1>10 DEF Next, Step

-----------------------------------------------------------------------------
(* The inductive invariant holds for any number of rounds and operators.   *)
THEOREM Invariance == Spec => []IInv
<1>1. IInv /\ [Next]_vars => IInv'
  <2> SUFFICES ASSUME ControlInv, Flags, ModemInv, [Next]_vars PROVE IInv'
    BY Parts
  <2>1. ControlInv' /\ Flags' /\ ModemInv'
    BY ControlStep, FlagsStep, ModemStep
  <2>2. (IInv <=> ControlInv /\ Flags /\ ModemInv)'
    BY Parts, PTL
  <2> QED
    BY <2>1, <2>2
<1> QED
  BY <1>1, InitIInv, PTL DEF Spec

(* Every variable keeps its type, and no index leaves the list of          *)
(* operators.                                                              *)
THEOREM TypeCorrect == Spec => []TypeOK
<1>1. IInv => TypeOK
  BY DEF IInv
<1> QED
  BY <1>1, Invariance, PTL

(* With a prompt modem no command of the bring-up is taken for payload.    *)
THEOREM CommandsAreHeard == Spec => []CommandsReachModem
<1>1. IInv => CommandsReachModem
  BY DEF IInv, DataInv, BringUp, CommandsReachModem
<1> QED
  BY <1>1, Invariance, PTL

(* With a prompt modem that kept its connection, a new try finds the       *)
(* service closed.                                                         *)
THEOREM FailCloses == Spec => []FailDisconnects
<1>1. IInv => FailDisconnects
  BY DEF IInv, ServiceInv, FailDisconnects
<1> QED
  BY <1>1, Invariance, PTL
=============================================================================
