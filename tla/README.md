# SmartDoorLock: verification project

TLA+ models of the SmartDoorLock program, TLC runs that check them on small
instances, and TLAPS proofs of what matters most for every instance. The program
has two halves: firmware in C for an EFR32 board that drives the lock
(`src/smartDoor`), and a Python server that decides who may enter
(`src/server`). They talk MQTT through a public broker.

## 1. Inventory

| Part | Source | State | Operations | Hard about it |
|---|---|---|---|---|
| Door status and bolt | `smart_door.c` 78-90, 135-164, 476-515; `timer.c` | `dr_iot.stat`, `dr_iot.open_time`, `LED_INSTANCE0`, `time_since_start` | `mqtt_message_cb`, `periodic_timeout`, `SysTick_Handler` | a timer interrupt preempts the handler between two stores; the clock wraps |
| Bluetooth scan list and reports | `smart_door.c` 92-103, 367-457, 506-514 | `bt_lst`, `sent_lst` | `add_bt_device`, `send_device`, `is_available` | a ring and a hash table with expiry, time stamps that wrap |
| UART transmit ring | `serial_io_EFR32BG1P232F256GM48.c` | `txBuf`, the TXBL interrupt enable | `SerialSend`, `UartPutData`, TX interrupt | a counter changed by thread and interrupt without masking |
| UART receive ring | same | `rxBuf` | `SerialRecv`, `UartGetData`, `SerialFlushInputBuff`, RX interrupt | the same, and a flush of three stores |
| Connection | `cellular.c`, `socket_linux_modem.c`, `MQTTClient.c`, `smart_door.c` 183-346 | `transparentMode`, `oplist`, the modem's mode and service | AT exchanges, `NetConnect`, `run_mqtt`, `on_fail` | partial failure at any exchange, retry from the start |
| Door main loop | `smart_door.c` 201-346, 405-421, 497-515; `cellular.c` 789-796 | where the thread waits, packets on the way, the session at the broker | `run_mqtt`, `publish_msg`, `read_msg`, `run_app` | commands are handled inside any wait; every write flushes what has arrived; errors ignored; restart |
| Server | `main.py`, `mqtt.py`, `db.py`, `telegram.py` | table `Device`, `device_whit_for_save`, out-queue of paho | `on_mqtt_message`, owner's commands, buttons, texts | two transactions per message; worker threads; reconnection |
| System | the two halves and the broker | reports and commands on the way | a report, an order, a lost connection, a restart | a device's `open_door` and the owner's orders cross; repeated deliveries |
| Debug display, entry, unused AT queries and timers | `EFR32Print/`, `main.c`, parts of `cellular.c` and `timer.c` | none that matters | | not modelled |

How they interact: a near phone is put into `bt_lst` by the Bluetooth event
handler, `send_device` publishes its MAC address, the broker passes it to the
server's paho thread, which looks it up and publishes `open_door`. The owner
publishes `open_door`, `lock`, `unlock` or `normal` from Telegram. On the door
every command runs `mqtt_message_cb` inside a wolfMQTT read. `dr_iot` is shared
with the sleeptimer interrupt, the rings with the USART interrupts; no interrupt
is ever masked. Below wolfMQTT, `NetRead`/`NetWrite` go through the socket and
the cellular modem to the UART.

What makes each part correct:

* Door: an opening ends, and in time; `locked` is left by `unlock` and `normal`
  only; the bolt follows the status; a command acts as if at one instant.
* Reports: a device is reported once per lifetime, not lost while there is room,
  and remembered only if its report went out.
* Rings: bytes leave in the order in which they entered, none invented; the calls
  return; the counter agrees with the indices.
* Main loop: a command takes effect once and in order, and is acknowledged only then; the
  status and the commands agree; a lock silences the door; the loop goes on.
* System: the owner's last order stands; a known device is let in.
* Connection: AT commands reach the modem as commands; every try ends; a failed
  try leaves nothing open.
* Server: the door is opened for entitled devices only, and is opened for them; the
  thread that hears the door lives and stays subscribed.

## 2. Modules

| Module | Models | Extended by |
|---|---|---|
| `DoorCommands` | what a command does to the status; extended by `Door`, `CommandLink`, `DoorApp`, `SmartLock` | |
| `DoorLock` | abstract specification of the lock: commands act in one step | |
| `Door` | `mqtt_message_cb`, `periodic_timeout`, clock; refines `DoorLock` | `MCDoor`, `DoorProofs` |
| `BtReport` | scan list, hash table, main-loop passes | `MCBtReport`, `BtReportProofs` |
| `SerialTx` | transmit ring | `MCSerialTx`, `SerialTxProofs` |
| `SerialRx` | receive ring | `MCSerialRx`, `SerialRxProofs` |
| `Server` | the Python server | `MCServer`, `ServerProofs` |
| `Modem` | bring-up, failure and close of the connection | `MCModem`, `ModemProofs` |
| `CommandLink` | abstract specification of the delivery of commands | |
| `DoorApp` | main thread of the door, its packets, its session; refines `CommandLink` | `MCDoorApp`, `DoorAppProofs` |
| `SmartLock` | `Server` and `DoorApp` joined by the broker | `MCSmartLock`, `SmartLockProofs` |

Conventions. Variables carry the names of the source. Variables marked *history*
observe the system and guard nothing, except that `unread` bounds what the modem sends in
`SerialRx`. A definition `X_Something` before `X` is a faulty form of `X`, kept to
show that a property is sensitive to it; no specification uses one.

**Door.** The interrupt is one action (`PeriodicTimeout`), because the thread
cannot preempt it. The handler is `Deliver` (choose the branch), then one action
per store (`StoreOpenTime`, `StoreStat`). It reads `dr_iot.stat` up to four
times; only `open -> closed` can happen in between, and both take the same
branches for every command (lemma `BranchStable`), so one read stands for all.
`StatFirst` says in which order the build makes the two stores of lines 147-148:
nothing in C fixes it. `Init` allows every status, because commands the broker
had queued are handled before the timer is started. Histories: `held`, the true
age of an opening; `lagging`, how long the bolt has disagreed with the status; `first`,
whether the timer has not interrupted yet.
Ticks are milliseconds; `Period` is what the 10000 sleeptimer ticks of line 503 come to in them (that call
does not convert milliseconds to ticks, as `timer.c` 57 does); `CbTicks` bounds one run of the handler, `BootTicks` the
time from a queued `open_door` to the start of the timer.

**BtReport.** One action per `sl_bt_step`, per visited slot and per change of
phase of the loop; `Tick` may happen anywhere. `Following`, `Available` and
`Reportable` are the conditions of the code. `report` holds the report just
published, `age` and `quiet` the true ages of scans and reports, counted up to
`Cap`. Which bucket an address falls into is the constant `Bucket`. Passes of the
loop in which the door is not closed only let time pass and are ticks in phase
`read`.

**SerialTx, SerialRx.** The grain is the single access to the shared counter:
`pendingBytes++` is `Load` and `Store`, a flush three stores, and each interrupt one
action that may come anywhere. Bytes are numbers in the order of sending, modulo
`Tags`; `next`, `out`, `expect`, `unread` say which byte ought to be next. In
`SerialRx` a slot of `data` is taken with the move of `rdI`. `Calls` limits what the thread
does, so that a run shows one cause.

**Server.** A `db_session` is one action. The paho thread takes a message through
`Receive`, `Lookup`, `ReadName`, `OpenForDevice`; the owner's handlers run on
`Workers`. A device is `absent`, or without an end (`never`), with one `ahead`, or
`over`. A message to
Telegram changes nothing when it succeeds. `telegram.send_message` catches two exceptions only, and the
message with the keyboard (`main.py` 27-30) is sent without a `try`: any other error ends the paho thread, which sends one
for each text of the door (`Announce`), for each device it does not know (`Lookup`), before each `open_door`
(`OpenForDevice`) and at each connection (`Reconnect`). All four may end in `dead` (`Leave`). In a worker an error ends one
handler, before or after the one thing it does, and is left out. `was_valid` records whether the device at hand was entitled at any moment
since its message arrived. Paho is external: QoS 1 messages are queued also while
offline, reconnection is automatic with a clean session.

**Modem.** One action per AT exchange, with two free choices: whether the modem
carried the command out (`obeyed`) and whether the code found the answer it looks
for (`ok`). In data mode the modem takes commands for payload. An answer that was given up
on may still come (`late`) and be taken for the answer to a later command; of which kind it
is is left open. The history `prompt` stays true as long as the modem left data mode and
closed when told to and confirmed what it did in time, so that no answer was late; two
properties speak of such a modem only, the behaviours are never restricted.

**DoorApp.** `pc` is the call the main thread waits in; `connack`, `suback` and `hello` are
`run_mqtt` after `NetConnect` (the rest of it is `Modem`), the others `run_app`. `net` holds the
packets between broker and `mqtt_message_cb`, on the air or in the receive ring: when a
packet arrives is open, so the flush in `Write` takes any number of them, the
oldest first. A command is handled in `TakeCommand` whatever the thread waits for, and
acknowledged in `Ack`, a step of its own, so that more may arrive, or the power fail, between
them. `SerialRecv` and `SerialSend` never return an error, so a lost connection shows as
time-outs, whose results `run_app` ignores. `session` is what the broker keeps for the door
(`CLEAN_SEASON` is 0, QoS 1): `Connect` delivers again what was not acknowledged. `Restart` is a
loss of power. Time is left to `Door`, what is due for a report to `BtReport`. Histories: `done`,
the command took effect in this connection; `clean`, no flush has dropped one; `mode`,
what the commands accepted so far amount to, with an opening counted as closed; `late`, the
reports since the door was locked. The subscription exists from the first life of the door on; the
will and the text `connected` carry no state and only their packets are kept.

**CommandLink** is what remains of that for the owner: a status and a queue of commands that
each take effect at most once per connection, none before an older one that does as well,
and leave the queue only afterwards. `session` without `sent` is the queue.

**SmartLock** takes both modules as they are: `uplink` is joined to `Server!Receive`, the
out-queue of paho to `session`. `SendTwice` is the loss of the server's connection between
the broker's acceptance and its acknowledgement, after which paho sends again. `order` is the owner's
order published last, `kept` whether since then no command was flushed, the door did not
restart and the network thread lives.

## 3. Runs

Passing runs:

| Run | Checks | Bounds |
|---|---|---|
| `door` | `TypeOK`, `OpenBounded`, `LedFollows`, `IInv`, `ImplementsDoorLock`, `OpeningEnds` | clock of 10 values, opening 4, period 2, handler 2, boot 6 ticks |
| `bt_report` | `TypeOK`, `HoldOff`, `NoTwins`, `IInv` | 3 devices, two of them in one bucket, list of 2, lifetime 2, 2 scans a pass, clock of 4 values, histories to 3 |
| `serial_tx` | `TypeOK`, `AllSent`, `IInv`, `WireInOrder`, `SendReturns` | ring of 4, sends up to 4, 6 byte numbers |
| `serial_rx` | `TypeOK`, `ReadsInOrder`, `NeverAhead`, `IInv` | ring of 3, requests up to 4, at most 3 bytes outstanding |
| `server` | `TypeOK`, `IInv`, `OpenAuthorised`, `EntitledLetIn` | 2 devices, 2 workers, two orders, queue of 2, one name asked for |
| `modem` | `TypeOK`, `CommandsReachModem`, `FailDisconnects`, `IInv`, `TriesEnd` | 4 rounds, 4 operators |
| `door_app` | `TypeOK`, `Agreement`, `LockSilences`, `IInv`, `HistoryInv`, `ImplementsCommandLink`, `Delivered`, `LoopGoesOn` | 1 device, passes of 2 reports, 2 commands held, 2 packets under way when the broker sends, 1 late at a time-out |
| `smart_lock` | `TypeOK`, `OrderStands`, `IInv`, `EntryGranted` | 1 device, 1 worker, orders `lock` and `normal`, out-queue of 2, 1 command held, passes of 1 report |

Why the bounds are enough: the clocks are so short that openings, lifetimes and
entries cross several wraps; the opening is longer than a period and the boot
time longer than the opening, so an interrupt finds openings of every age; the
rings wrap several times and a chunk may fill them; the list and the hash table
fill up; two workers and the network thread are the smallest set in which each
pair of steps interleaves. In `door_app` two commands are enough for one to be
flushed, overtaken or repeated while the other is not, and a pass of two reports for a lock to
come in its middle; in `smart_lock` an order waits behind an `open_door` in the out-queue while another
is in the session, and `door_app` has the longer session. For every safety property of a passing run and for
both refinements the proofs of section 5 remove the bounds; `IInv` and `HistoryInv` are checked so that
the invariants the proofs rest on are known to hold of reachable states.

What the passing runs say of what is easy to get wrong:

* `OpenBounded`, `OpeningEnds`: an opening is over before `OpenFor` plus one period of
  the timer have passed, also when the clock wraps and when it is renewed at the last moment. The exception
  is one from before the timer was started: nobody looks at it before the first interrupt, so it
  may be `BootTicks` plus a period old by then (8 ticks in the run, where 5 is the most afterwards);
  `MaxHeld` is the larger of the two bounds. `LedFollows`: a `lock` takes up to a period to move the bolt, never longer.
* `HoldOff`, `NoTwins`: the time stamps of `bt_lst` and `sent_lst` are compared after any
  number of wraps; they may make a device wait longer, never report it early.
* `WireInOrder`, `AllSent`, `SendReturns`: `pendingBytes` has two writers, but the
  transmit interrupt is off while a first chunk is put in. `ReadsInOrder`, `NeverAhead`: the receive counter does
  lose updates, and errs on the safe side: no byte is read before it has arrived. That
  the modem has at most a ring of bytes outstanding is assumed (`Burst`).
* `OpenAuthorised`: the lookup and the command are separate steps, and the owner may
  remove or extend the device between them; the door still opens only for a
  device that was entitled after its message arrived. `EntitledLetIn` is the other direction, and holds
  as long as the network thread lives: the message to the log channel comes before the command, and an
  error of Telegram there keeps an entitled device out and ends the thread.
* `CommandsReachModem`, `FailDisconnects`, `TriesEnd`: `transparentMode` and the mode of the modem
  may disagree after a drop; the bring-up still never talks to a modem in data mode. A failed try
  leaves no service open, unless the connection was lost at some time. A try ends even when
  late answers are taken for others.
* `Agreement`: while no flush drops a command, the status and the commands still to come amount
  to what all commands amount to. A new connection repeats commands that took effect already;
  that does no harm because repeating the last few commands in order leads to the same status.
* `ImplementsCommandLink`: nothing is acknowledged unheard, nothing takes effect twice in a
  connection or out of order, although commands are handled inside six different waits.
* `LockSilences`: a lock in the middle of a pass lets the rest of this pass through, at most
  `BT_LST_SIZE - 1` reports, and no other begins.
* `Delivered`, `LoopGoesOn`: a command held is handled while the connection stands and no command
  is flushed; the loop comes round even when no acknowledgement ever comes.
* `OrderStands`: after `lock` the door is locked, after `normal` neither locked nor unlocked, as soon
  as no order is on its way, whatever devices do and however often a connection fails.
  `EntryGranted`: the report of a known device opens the door, through all four queues.

Runs that show a disagreement between the code and what it or its documentation says:

| Run | Property | What happens |
|---|---|---|
| `server_thread` | `SearchSurvives` | the device is removed between two transactions and the paho thread dies |
| `server_hears` | `ConnectedHears` | no subscription after a reconnection |
| `door_app_flush` | `CommandObeyed` | a command arrives while the thread is busy; the next packet the door writes flushes it, and the broker keeps it until the door connects again |
| `smart_lock_unlock` | `UnlockStands` | a device is reported, the owner unlocks the door, the `open_door` for the device comes after the `unlock` and makes it an opening of 30 seconds |

Deadlock is checked everywhere except in the runs of `Modem`, where the system
really may stop: connected with nothing left that can drop, or hung.

Known from the models and not a run of their own: a build that stores `stat` before `open_time`
(`StatFirst`) loses an `open_door` when the timer interrupt comes between the two; the ring index of
`bt_lst` moves on when nothing was stored, so an unreported device may be overwritten beside an
empty slot; an increment of the receive counter may be lost, and the count stays too small
until the next flush; after a drop in data mode `transparentMode` stays set, and when a later try fails
after AT^SISO the close gives up and leaves the service open; when the answer to AT^SIST is late the
modem stays in data mode and no try sends `+++`; a restart forgets a lock that was acknowledged; the
will of the door is taken for the address of an unknown device; two devices that share a bucket of `sent_lst` are
reported again and again; a stored scan is reported when the hold-off of the last report ends, without
a new scan; a send longer than the ring can lose a decrement (no packet of the program is that
long); a byte that arrives during a flush is in the ring and not in the count; `UartGetData`
takes more than asked for when bytes arrive between its two reads of the count; each retry of `open_door` while
offline queues another one; the loop of `CellularGetIMEI` does not end without an answer; the
search for operators succeeds with an empty list; an error of Telegram other than `ConnectionError` and
`PeerIdInvalid` ends the paho thread wherever it sends a message, before `open_door` for a device that may enter.

## 4. Fairness

* `Door`: the clock tick, the timer interrupt and the handler's stores are weakly
  fair: two are hardware and the handler has no loop. Commands are not fair, so
  `OpeningEnds` does not rely on one arriving. Its escape clause (`phase # "idle"`)
  excuses an opening that is being renewed or ended by a command at that moment.
* `SerialTx`: the thread goes on (nothing else runs on the board) and the transmitter
  raises its interrupt as long as it is enabled and has room.
* `Server`: the paho thread works a received message off. Nothing is assumed of owner,
  door or connection. `EntitledLetIn` excuses a device that loses its right on the way
  and a thread that has died.
* `DoorApp`: the thread goes on (weak fairness), because every wait has its time-out. A packet under
  way is read at last, not missed by one time-out after the other (strong fairness of `TakeCommand`
  and `Packet`): the network's delay is finite and the loop reads for ever. While the connection
  stands the broker sends what it holds. Nothing is assumed of connecting again, of the timer
  or of the server. `Delivered` excuses the end of the connection and a flushed command;
  `LoopGoesOn` only that commands keep coming.
* `SmartLock`: the same, and that the broker passes reports to a subscribed server and the server its
  out-queue to the broker, while connected. `EntryGranted` excuses a lost connection, a lost
  subscription, a dead network thread, a flushed command and a device that loses its right.
* `Modem`: every exchange ends, with an answer or the time-out of `SerialRecv`. The
  outcome is not fair: `TriesEnd` holds whatever the modem answers.

## 5. Proofs

`DoorProofs`, for every clock width, opening time, period, handler delay and boot
time under `DoorAssumption` (the handler is shorter than an opening, and the longest
opening shorter than a turn of the clock):

* `TypeCorrect`: `TypeOK` is inductive by itself, in both builds.
* `Invariance`: for a build that stores the time first, `IInv`. `OpenBounded` is not
  inductive: that the interrupt's clock difference is the true age (`AgeInv`) is
  needed to know that it closes an old opening, that age plus the time to the next interrupt is
  bounded (`BoundInv`) to know that it comes in time, and that a half-made opening
  is young and its branch still right (`HandlerInv`) to know that the second store
  does not revive an old one. `LedInv` plays the part of `BoundInv` for the bolt.
* `OpeningBounded`, `LedFollowsStat`: consequences of `IInv`. `OpeningBounded` gives `OpenFor` plus one
  period, strictly, from the first interrupt of the timer on, and `MaxHeld` until then.
* `Refinement`: `Door` implements `DoorLock`. `StoreStat` is the instant of a command,
  or `StoreOpenTime` when an open door is opened again; the interrupt is `Close` or a stutter,
  a tick is `Tick` or a stutter. `IInv` supplies that a command still finds the
  status it was decided for and that time does not run beyond the longest opening.

`BtReportProofs`, for every set of addresses, list, table, lifetime and clock under
`BtAssumption`:

* `TypeCorrect`: `TypeOK` with `EmptyInv`; the latter makes a reportable slot
  one of a real device.
* `ScanListUnique`: `NoTwins`, from `AgeInv`: a clock difference, wrapped or not, never
  exceeds the true age, so an entry that looks expired is.
* `ReportsHeldOff`: `HoldOff`, from `QuietInv`: the last report of an address that is alone
  in its bucket is still there, no younger than it looks. Without the condition `Alone` it is
  false: two devices in one bucket evict each other.

`DoorAppProofs`, for every number of devices, slots, commands held, packets under way and late
packets under `AppAssumption` (the scan list has a slot, no identifier is `None`):

* `Invariance`: `IInv`. The invariant relates three places a command can be in. Commands of the
  session have different identifiers and are sent in order (`SessionInv`); those under
  way stand in the order of the session, and none that stands there or later has taken effect
  (`NetInv`, `OrderInv`); the one being acknowledged is held and has (`AckInv`). Most steps
  only lose, take or answer packets and leave the session alone: they *thin* `net`
  (`QuietSteps`), and thinning keeps the invariant whatever was lost (`QuietStep`). The
  five others, `TakeCommand`, `Ack`, `Connect`, `Accept` and `Forward`, have a lemma each.
* `LockSilenced`: `LockSilences`, from `PassInv`: while the door is locked the reports made and
  the slots left are together fewer than the list has.
* `Refinement`: `DoorApp` implements `CommandLink`. `NetInv` and `OrderInv` give the guard of
  `Obey` (nothing at or after the command has taken effect), `AckInv` that of `Settle`; `Connect` is
  `Reconnect`, `Accept` is `Accept`, a restart or the end of an opening is `Reset`, the
  rest stutters.

* `HistoryInvariance`, and from it `StatusAgrees` (`Agreement`) and `TypeCorrect` (`TypeOK`).
  `Agreement` by itself says too little at a new connection, where all commands held are to
  come again. `RepeatInv` adds that this leads to the same status, which is kept
  because a sequence of commands either forgets the status it began with or consists of
  `open_door` only, which may be repeated (`CourseKind`, `AmountRepeated`). That a
  command taken is the next of all that have not taken effect needs `SentInv`: what was sent
  and not handled is under way, unless it was cut off by a lost connection together with everything
  behind it; and that one let go is the first of the session needs `FirstInv`.
  `Amount` runs over the session. Its lemmas are inductions over the length, and since the
  theorems of the library for induction take an operator, `Induct` states it for a set of
  numbers, from the least element of its complement (`Least`).

`SerialTxProofs`, for every ring and every way the interrupt meets loads and stores, under
`TxAssumption`:

* `Invariance`: `IInv`, if no send is longer than the ring (`MaxLen =< BufSize`). The condition is
  needed: in a longer send the interrupt stays enabled while the next chunk is put in, and a
  decrement between the load and the store of `pendingBytes++` is lost. No packet of the program is that long
  (section 3). `IrqInv` is the core: the interrupt is enabled only while the thread
  drains, so the load of `pendingBytes++` is never stale (`ChunkInv`); hence `pendingBytes` is the distance of
  the indices, and the slots between them are the bytes still to go (`RingInv`).
* `TypeCorrect`, `SentWhenReturned` (`AllSent`), `WireKeepsOrder` (`WireInOrder`): consequences.

`SerialRxProofs`, for every ring, every length asked for and every modem, under `RxAssumption`:

* `Invariance`: `IInv`. The count does lose increments here, so no equation holds; `CountInv` is one-sided: it
  never exceeds the bytes that are there, except by the one whose decrement is under way,
  and what a load has put into the register may be too small but not too large.
* `TypeCorrect`, `CountIsSafe` (`NeverAhead`): without a condition.
* `ReadsKeepOrder` (`ReadsInOrder`): if the modem has at most a ring of bytes outstanding (`Burst =<
  BufSize`). Without that the interrupt overwrites bytes that nobody has read, in the code as in
  the model.

`ServerProofs`, for every set of addresses, workers and orders and any bounds of the queues, under
`ServerAssumption`:

* `Invariance`: `IInv`. `HandInv` says that `was_valid` covers the present state of the device during the
  lookup and is true once it is found, whatever becomes of the device in between; `JobInv` that a worker
  that publishes has a command; `RoomInv` that the place kept for the network thread is free when it
  needs it.
* `TypeCorrect`, `OnlyAuthorised` (`OpenAuthorised`, an action property).

`ModemProofs`, for any number of rounds and operators, under `ModemAssumption`:

* `Invariance`: `IInv`. Three pieces of state are to agree: `transparentMode`, the mode of the modem and
  the service. `DataInv` holds whatever drops, `ModeInv` and `ServiceInv` until the first drop; all three
  speak of a prompt modem, which owes no answer (`PromptInv`).
* `TypeCorrect`, `CommandsAreHeard` (`CommandsReachModem`), `FailCloses` (`FailDisconnects`).

`SmartLockProofs`, for every number of devices, workers, orders and commands under way, under
`LockAssumption`. `ServerProofs` and `DoorAppProofs` are taken as instances, so their lemmas are used and
not proved again:

* `Composition`: every behaviour of the system is one of `Server` and one of `DoorApp`. What is
  proved of all behaviours of these holds in the system, for one `OpenAuthorised`, `LockSilences` and
  the refinement of `CommandLink`.
* `Invariance`: `IInv`, the invariants of the parts with `OrderInv`. `OrderStands` speaks of an order that has
  left all queues, so the invariant follows it from the place where it is published: in the
  out-queue with nothing behind it but `open_door` (`OrderOut`), then so in the session, or let go
  (`OrderHeld`). The door can do four things to the commands it holds (`DoorMoves`):
  nothing, take one into effect after all that have, let the first go, or have all repeated; each
  keeps `OrderHeld` (`MovesKeepHeld`). That a command is handled after all earlier ones and let go as the
  first is what `IInv` and `HistoryInv` of `DoorApp` supply. `Agreement` alone would not do:
  an unlocked door with an `open_door` still to come amounts to `closed` as well.
* `TypeCorrect`, `LastOrderStands` (`OrderStands`): consequences.

Only model-checked: all liveness (`OpeningEnds`, `SendReturns`, `EntitledLetIn`, `TriesEnd`, `Delivered`,
`LoopGoesOn`, `EntryGranted`), because the prover has no rules for fairness and `ENABLED`; and the runs that show
a disagreement, whose point is a counterexample.

## 6. Not modelled

The LCD (`EFR32Print`), `main.c`, register set-up of the UART, AT queries and
timers without a caller; the insides of wolfMQTT, paho, Pyrogram, Pony, the broker and
the modem, except what the code relies on; wording of messages, dates and names.
Packets are whole: that a flush, or a time-out, takes half a packet and the rest is read as the start of
another is not modelled, because what follows is up to wolfMQTT. In `SmartLock` the will, the text `connected` and the
buttons that change the end of a device or open the door are left out (`Server` has the
buttons). The hazards these leave open are listed in `PROJECT.json`, each with a note.

## 7. Plan

Done: 1 `DoorLock`, `Door`, `DoorProofs`; 2 `BtReport`, `BtReportProofs`; 3 `SerialTx`,
`SerialRx`; 4 `Server`; 5 `Modem`, with late answers; 6 `CommandLink`, `DoorApp`; 7 `SmartLock`;
8 `DoorAppProofs`; 9 `SerialTxProofs`, `SerialRxProofs`, `ServerProofs`, `ModemProofs`, and
`Agreement` in `DoorAppProofs`; 10 `SmartLockProofs`.

Next, proofs:

11. The safety half of `EntryGranted`: a report of a known device that is not lost leads to an `open_door`
   in the out-queue or the session, as an invariant over both halves of the system.
12. What a refinement of the abstract modules gives on its own: invariants of `DoorLock` and `CommandLink`
   (an opening ends in time; a command let go has taken effect) carried to `Door` and `DoorApp`.
