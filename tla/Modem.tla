------------------------------- MODULE Modem -------------------------------
(***************************************************************************)
(* How the door gets its connection and gives it up: run_mqtt and on_fail  *)
(* of smart_door.c on top of MQTTClient.c, socket_linux_modem.c and        *)
(* cellular.c, with the modem at the other end of the serial line.         *)
(*                                                                         *)
(* Every exchange of an AT command and its answer is one action: the modem *)
(* carries the command out or not, and the code finds the answer it looks  *)
(* for or not.  A modem in data mode takes commands for payload.  An       *)
(* answer that comes after its time-out is taken for the answer to a later *)
(* command, unless the flush before that command drops it.                 *)
(***************************************************************************)
EXTENDS Integers

CONSTANTS
  Rounds,    \* ROUNDS: tries until the modem responds, or is registered
  MaxOps     \* length of oplist, 25 in the code

ASSUME ModemAssumption ==
  /\ Rounds \in Nat \ {0}
  /\ MaxOps \in Nat \ {0}

VARIABLES
  pc,               \* the exchange run_mqtt is at
  k,                \* round, or number of the command in a group of them
  ops,              \* operators of oplist still to try
  transparentMode,
  data,             \* modem: in data (transparent) mode
  service,          \* modem: the socket service is open
  late,             \* an answer is under way to a command given up on
  prompt,           \* history: so far the modem has left data mode and
                    \*   closed when told to, and what it carried out it
                    \*   confirmed before the read timed out
  dropped           \* history: the connection was lost at some time

vars == <<pc, k, ops, transparentMode, data, service, late, prompt, dropped>>

Steps == {"echo", "scfg", "respond", "operators", "setop", "creg", "sics",
          "siss", "imei", "siso", "sist", "mqtt", "up", "plus", "sisc", "hung"}

(* The exchanges that bring the connection up, before data mode.           *)
BringUp == {"echo", "scfg", "respond", "operators", "setop", "creg", "sics",
            "siss", "imei", "siso", "sist"}

(* run_mqtt fails: on_fail sends a DISCONNECT packet, whatever the mode of *)
(* the modem, and CellularClose begins.                                    *)
FirstOfClose_NoEscape == "sisc"
FirstOfClose == IF transparentMode THEN "plus" ELSE "sisc"

Go(to) == pc' = to /\ k' = 0

(* The answer the code looks for is the one to this command, which a modem *)
(* in data mode does not give, or a late one.  What was not read may come  *)
(* later still.                                                            *)
Answer(ok, orderly) ==
  /\ ok => late \/ ~data
  /\ late' \in BOOLEAN
  /\ late' => IF ok THEN late /\ ~data ELSE late \/ ~data
  /\ prompt' = (prompt /\ orderly /\ ~late')
  /\ UNCHANGED dropped

(* A command without effect on the modem's mode: the code goes on when it  *)
(* finds the answer.                                                       *)
Exchange(from, to, ok) ==
  /\ pc = from
  /\ Answer(ok, TRUE)
  /\ Go(IF ok THEN to ELSE FirstOfClose)
  /\ UNCHANGED <<ops, transparentMode, data, service>>

(* A command that changes the modem: its own answer means that it was      *)
(* obeyed, and a prompt modem gives one.                                   *)
Obeys(obeyed, ok) ==
  /\ ok => obeyed \/ late
  /\ Answer(ok, obeyed => ok)

-----------------------------------------------------------------------------
Init ==
  /\ pc = "echo" /\ k = 0 /\ ops = 0
  /\ transparentMode = FALSE
  /\ data = FALSE /\ service = FALSE
  /\ late = FALSE /\ prompt = TRUE /\ dropped = FALSE

(* CellularInit.                                                           *)
EchoOff(ok) == Exchange("echo", "scfg", ok)
Scfg(ok)    == Exchange("scfg", "respond", ok)

(* CellularWaitUntilModemResponds.                                         *)
NextRound == k + 1

Respond(ok) ==
  /\ pc = "respond"
  /\ Answer(ok, TRUE)
  /\ CASE ok                          -> Go("operators")
       [] ~ok /\ NextRound < Rounds   -> pc' = pc /\ k' = NextRound
       [] ~ok /\ NextRound >= Rounds  -> Go(FirstOfClose)
  /\ UNCHANGED <<ops, transparentMode, data, service>>

(* CellularGetOperators: an answer without an operator, or no answer, is   *)
(* success with an empty list; an operator that cannot be parsed is not.   *)
Listed_PastEnd == IF data THEN {0} ELSE 0 .. MaxOps + 1
Listed == IF data THEN {0} ELSE 0 .. MaxOps

GetOperators ==
  /\ pc = "operators"
  /\ \E ok \in BOOLEAN : Answer(ok, TRUE)
  /\ \E found \in Listed :
       /\ ops' = found
       /\ Go("setop")
  /\ UNCHANGED <<transparentMode, data, service>>

GetOperatorsFails ==
  /\ pc = "operators"
  /\ Answer(TRUE, TRUE)
  /\ Go(FirstOfClose)
  /\ UNCHANGED <<ops, transparentMode, data, service>>

(* SocketInit tries the operators in turn until the modem is registered    *)
(* with one, and goes on when it is registered with none.                  *)
OthersLeft_Same == ops
OthersLeft == ops - 1

SetOperator(ok) ==
  /\ pc = "setop" /\ ops > 0
  /\ Answer(ok, TRUE)
  /\ IF ok THEN Go("creg") /\ UNCHANGED ops
           ELSE Go("setop") /\ ops' = OthersLeft
  /\ UNCHANGED <<transparentMode, data, service>>

WaitUntilRegistered(registered) ==
  /\ pc = "creg"
  /\ Answer(registered, TRUE)
  /\ CASE registered ->
            Go("sics") /\ ops' = 0
       [] ~registered /\ NextRound < Rounds ->
            pc' = pc /\ k' = NextRound /\ UNCHANGED ops
       [] ~registered /\ NextRound >= Rounds ->
            Go("setop") /\ ops' = OthersLeft
  /\ UNCHANGED <<transparentMode, data, service>>

NoOperatorLeft ==
  /\ pc = "setop" /\ ops = 0
  /\ Go("sics")
  /\ UNCHANGED <<ops, transparentMode, data, service, late, prompt, dropped>>

(* The two profiles, three commands each.                                  *)
Profile(from, to, ok) ==
  /\ pc = from
  /\ Answer(ok, TRUE)
  /\ CASE ok /\ k < 2 -> pc' = pc /\ k' = k + 1
       [] ok /\ k = 2 -> Go(to)
       [] ~ok         -> Go(FirstOfClose)
  /\ UNCHANGED <<ops, transparentMode, data, service>>

SetupConnectionProfile(ok) == Profile("sics", "siss", ok)
SetupServiceProfile(ok)    == Profile("siss", "imei", ok)

(* CellularGetIMEI, whose result NetConnect ignores: with an empty answer  *)
(* its search for the first character does not end.                        *)
GetIMEI(answered) ==
  /\ pc = "imei"
  /\ Answer(answered, answered)
  /\ Go(IF answered THEN "siso" ELSE "hung")
  /\ UNCHANGED <<ops, transparentMode, data, service>>

(* CellularConnect opens the service and enters data mode.                 *)
OpenService(obeyed, ok) ==
  /\ pc = "siso"
  /\ Obeys(obeyed, ok)
  /\ obeyed => ~data
  /\ service' = (service \/ obeyed)
  /\ Go(IF ok THEN "sist" ELSE FirstOfClose)
  /\ UNCHANGED <<ops, transparentMode, data>>

EnterDataMode(obeyed, ok) ==
  /\ pc = "sist"
  /\ Obeys(obeyed, ok)
  /\ obeyed => service /\ ~data
  /\ data' = (data \/ obeyed)
  /\ transparentMode' = (transparentMode \/ ok)
  /\ Go(IF ok THEN "mqtt" ELSE FirstOfClose)
  /\ UNCHANGED <<ops, service>>

(* MQTT connect, will, subscription; then the main loop for ever.          *)
MqttUp(ok) ==
  /\ pc = "mqtt"
  /\ ok => data
  /\ Go(IF ok THEN "up" ELSE FirstOfClose)
  /\ UNCHANGED <<ops, transparentMode, data, service, late, prompt, dropped>>

(* CellularClose: back to command mode.  The answer it looks for is OK or  *)
(* the NO CARRIER of a connection that has dropped; without one it returns *)
(* and transparentMode stays set.  Next is AT^SISC, whose result           *)
(* SocketDeInit ignores, CellularDisable, and run_mqtt from the start.     *)
AfterEscape_Done == "echo"
AfterEscape == "sisc"

LeaveDataMode(obeyed, ok) ==
  /\ pc = "plus"
  /\ ok => obeyed \/ ~data \/ late
  /\ obeyed => data
  /\ late' \in BOOLEAN
  /\ late' => IF ok THEN late /\ obeyed ELSE late \/ obeyed \/ ~data
  /\ prompt' = (prompt /\ (data => ok) /\ ~late')
  /\ data' = (data /\ ~obeyed)
  /\ transparentMode' = ~ok
  /\ Go(IF ok THEN AfterEscape ELSE "echo")
  /\ UNCHANGED <<ops, service, dropped>>

CloseService(obeyed) ==
  /\ pc = "sisc"
  /\ obeyed => ~data
  /\ late' \in BOOLEAN
  /\ late' => late \/ ~data
  /\ prompt' = (prompt /\ (~data => obeyed) /\ ~late')
  /\ service' = (service /\ ~obeyed)
  /\ Go("echo")
  /\ UNCHANGED <<ops, transparentMode, data, dropped>>

(* The broker or the network ends the connection.                          *)
Drop ==
  /\ service
  /\ service' = FALSE
  /\ data' = FALSE
  /\ dropped' = TRUE
  /\ UNCHANGED <<pc, k, ops, transparentMode, late, prompt>>

Step ==
  \/ \E ok \in BOOLEAN :
       \/ EchoOff(ok) \/ Scfg(ok) \/ Respond(ok)
       \/ SetOperator(ok) \/ WaitUntilRegistered(ok)
       \/ SetupConnectionProfile(ok) \/ SetupServiceProfile(ok)
       \/ GetIMEI(ok) \/ MqttUp(ok) \/ CloseService(ok)
       \/ \E obeyed \in BOOLEAN :
            OpenService(obeyed, ok) \/ EnterDataMode(obeyed, ok)
              \/ LeaveDataMode(obeyed, ok)
  \/ GetOperators \/ GetOperatorsFails \/ NoOperatorLeft

Next == Step \/ Drop

Spec == Init /\ [][Next]_vars

(* Every exchange ends, with an answer or with the time-out of the read.   *)
FairSpec == Spec /\ WF_vars(Step)

-----------------------------------------------------------------------------
(* Every variable has its type.                                            *)
TypeOK ==
  /\ pc \in Steps
  /\ k \in 0 .. (IF Rounds > 3 THEN Rounds ELSE 3) - 1
  /\ ops \in 0 .. MaxOps
  /\ transparentMode \in BOOLEAN
  /\ data \in BOOLEAN /\ service \in BOOLEAN
  /\ late \in BOOLEAN /\ prompt \in BOOLEAN /\ dropped \in BOOLEAN

(* As long as the modem is prompt, no command of the bring-up is taken for *)
(* payload: a try that failed, however far it got and whether or not the   *)
(* connection dropped, leaves the modem in command mode.                   *)
CommandsReachModem == prompt /\ pc \in BringUp => ~data

(* A try ends, however the modem behaves and whichever answer is taken for *)
(* another: run_mqtt is up or starts again.  The only exchange that may    *)
(* never end is the one for the IMEI.                                      *)
TriesEnd == pc # "up" ~> pc \in {"up", "echo", "hung"}

(* on_fail disconnects: as long as the modem is prompt and never lost the  *)
(* connection, a new try finds the service closed.                         *)
FailDisconnects == prompt /\ ~dropped /\ pc = "echo" => ~service

(* The inductive invariant behind all three.  The command of a profile is  *)
(* one of its three, and an operator is tried when registration is waited  *)
(* for.  A prompt modem owes no answer; it is in data mode only while      *)
(* transparentMode is set, and between entering that mode and the end of   *)
(* the escape from it.  Unless the connection was lost, the two agree, and *)
(* the service is open only from AT^SISO to AT^SISC.                       *)
GroupInv    == pc \in {"sics", "siss"} => k < 3
OperatorInv == pc = "creg" => ops > 0
PromptInv   == prompt => ~late
EscapeInv   == pc = "plus" => transparentMode
DataInv ==
  prompt /\ data => transparentMode /\ pc \in {"mqtt", "up", "plus"}
ModeInv == prompt /\ ~dropped /\ transparentMode => data
ServiceInv ==
  prompt /\ ~dropped /\ service =>
    pc \in {"sist", "mqtt", "up", "plus", "sisc"}
IInv ==
  /\ TypeOK /\ GroupInv /\ OperatorInv /\ PromptInv /\ EscapeInv
  /\ DataInv /\ ModeInv /\ ServiceInv
=============================================================================
