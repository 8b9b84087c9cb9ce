------------------------------ MODULE SerialRx ------------------------------
(***************************************************************************)
(* The receiving half of smartDoor/serial_io_EFR32BG1P232F256GM48.c: the   *)
(* receive interrupt fills the ring rxBuf, the main thread empties it in   *)
(* SerialRecv / UartGetData or drops its contents in SerialFlushInputBuff. *)
(* Nothing masks the interrupt: pendingBytes-- of the thread is a load and *)
(* a store, a flush is three stores.                                       *)
(*                                                                         *)
(* A byte is its number, modulo Tags, in the order of arrival.             *)
(***************************************************************************)
EXTENDS Integers

CONSTANTS
  BufSize,  \* CIRCULAR_BUF_SIZE, 256 in the code
  MaxLen,   \* most bytes a caller of SerialRecv asks for
  Burst,    \* most bytes the modem has sent that are not read or flushed
  Tags,     \* number of different bytes
  Calls     \* what callers do, a subset of {"recv", "flush"}

ASSUME RxAssumption ==
  /\ BufSize \in Nat \ {0}
  /\ MaxLen \in Nat \ {0}
  /\ Burst \in Nat \ {0}
  /\ Tags \in Nat
  /\ Tags > BufSize /\ Tags > Burst
  /\ Calls \subseteq {"recv", "flush"}

VARIABLES
  data,          \* rxBuf.data
  rdI,           \* rxBuf.rdI, moved by the thread
  wrI,           \* rxBuf.wrI, moved by the interrupt
  pendingBytes,  \* rxBuf.pendingBytes, changed by both
  overflow,      \* rxBuf.overflow
  pc,            \* where the thread is
  remaining,     \* bytes SerialRecv has still to read (max_len - total_read)
  left,          \* bytes UartGetData has still to take
  reg,           \* the register between load and store of pendingBytes--
  unread,        \* history: bytes that arrived since rdI was last moved
                 \*   past them, by a read or by a flush
  expect         \* history: number of the first of them

ring   == <<data, rdI, wrI>>
thread == <<remaining, left, reg>>
vars == <<ring, pendingBytes, overflow, pc, thread, unread, expect>>

Slots   == 0 .. BufSize - 1
Numbers == 0 .. Tags - 1

(* j steps around a circle of m.                                           *)
Plus_OffByOne(k, j, m) == IF k + j > m THEN k + j - m ELSE k + j
Plus(k, j, m) == IF k + j >= m THEN k + j - m ELSE k + j
Succ(k, m)    == Plus(k, 1, m)

arrived == Plus(expect, unread, Tags)

-----------------------------------------------------------------------------
Init ==
  /\ data = [s \in Slots |-> 0]
  /\ rdI = 0 /\ wrI = 0
  /\ pendingBytes = 0
  /\ overflow = FALSE
  /\ pc = "idle"
  /\ remaining = 0 /\ left = 0 /\ reg = 0
  /\ unread = 0 /\ expect = 0

(* USART0_RX_IRQHandler takes a byte.                                      *)
RxInterrupt ==
  /\ unread < Burst
  /\ data' = [data EXCEPT ![wrI] = arrived]
  /\ wrI' = Succ(wrI, BufSize)
  /\ pendingBytes' = pendingBytes + 1
  /\ overflow' = (overflow \/ pendingBytes' > BufSize)
  /\ unread' = unread + 1
  /\ UNCHANGED <<rdI, pc, thread, expect>>

SerialRecv(max_len) ==
  /\ "recv" \in Calls
  /\ pc = "idle"
  /\ pc' = "wait"
  /\ remaining' = max_len
  /\ UNCHANGED <<ring, pendingBytes, overflow, left, reg, unread, expect>>

(* The time is up, in SerialRecv or in UartGetData: what was read so far   *)
(* is the result.                                                          *)
Timeout ==
  /\ pc = "wait"
  /\ pc' = "idle"
  /\ remaining' = 0
  /\ UNCHANGED <<ring, pendingBytes, overflow, left, reg, unread, expect>>

(* UartGetData finds a byte.  If it is asked for more than there is, it    *)
(* reads pendingBytes again to take that many; more bytes may arrive       *)
(* between the two reads.                                                  *)
Wanted == IF remaining > BufSize THEN BufSize ELSE remaining

Short_Never == FALSE
Short == Wanted > pendingBytes

Start ==
  /\ pc = "wait"
  /\ pendingBytes >= 1
  /\ IF Short THEN pc' = "clamp" /\ UNCHANGED left
              ELSE pc' = "take" /\ left' = Wanted
  /\ UNCHANGED <<ring, pendingBytes, overflow, remaining, reg, unread, expect>>

Clamp ==
  /\ pc = "clamp"
  /\ pc' = "take"
  /\ left' = pendingBytes
  /\ UNCHANGED <<ring, pendingBytes, overflow, remaining, reg, unread, expect>>

(* One turn of its loop: the byte and rdI, then pendingBytes--.            *)
Take ==
  /\ pc = "take"
  /\ rdI' = Succ(rdI, BufSize)
  /\ expect' = Succ(expect, Tags)
  /\ unread' = unread - 1
  /\ left' = left - 1
  /\ remaining' = remaining - 1
  /\ pc' = "load"
  /\ UNCHANGED <<data, wrI, pendingBytes, overflow, reg>>

Load ==
  /\ pc = "load"
  /\ reg' = pendingBytes
  /\ pc' = "store"
  /\ UNCHANGED <<ring, pendingBytes, overflow, remaining, left, unread, expect>>

(* SerialRecv goes on until it has all it asked for.                       *)
Store ==
  /\ pc = "store"
  /\ pendingBytes' = reg - 1
  /\ reg' = 0
  /\ pc' = CASE left > 0                     -> "take"
            [] left = 0 /\ remaining > 0    -> "wait"
            [] left = 0 /\ remaining =< 0   -> "idle"
  /\ UNCHANGED <<ring, overflow, remaining, left, unread, expect>>

(* SerialFlushInputBuff.  An interrupt between the load of wrI and the     *)
(* store of rdI has the same effect as one right after it.                 *)
FlushIndex ==
  /\ "flush" \in Calls
  /\ pc = "idle"
  /\ rdI' = wrI
  /\ expect' = arrived
  /\ unread' = 0
  /\ pc' = "count"
  /\ UNCHANGED <<data, wrI, pendingBytes, overflow, thread>>

FlushCount_NoReset ==
  /\ pc = "count"
  /\ pc' = "flag"
  /\ UNCHANGED <<ring, pendingBytes, overflow, thread, unread, expect>>

FlushCount ==
  /\ pc = "count"
  /\ pendingBytes' = 0
  /\ pc' = "flag"
  /\ UNCHANGED <<ring, overflow, thread, unread, expect>>

FlushFlag ==
  /\ pc = "flag"
  /\ overflow' = FALSE
  /\ pc' = "idle"
  /\ UNCHANGED <<ring, pendingBytes, thread, unread, expect>>

Next ==
  \/ RxInterrupt
  \/ \E len \in 1 .. MaxLen : SerialRecv(len)
  \/ Timeout \/ Start \/ Clamp \/ Take \/ Load \/ Store
  \/ FlushIndex \/ FlushCount \/ FlushFlag

Spec == Init /\ [][Next]_vars

-----------------------------------------------------------------------------
(* Every variable has its type.                                            *)
TypeOK ==
  /\ data \in [Slots -> Numbers]
  /\ rdI \in Slots /\ wrI \in Slots
  /\ pendingBytes \in Nat
  /\ overflow \in BOOLEAN
  /\ pc \in {"idle", "wait", "clamp", "take", "load", "store", "count", "flag"}
  /\ remaining \in Int
  /\ left \in Nat
  /\ reg \in Nat
  /\ unread \in 0 .. Burst
  /\ expect \in Numbers

(* The bytes reach the callers of SerialRecv in the order of arrival, none *)
(* twice and none left out except by a flush, as long as the modem never   *)
(* has more than a ring of them outstanding.                               *)
ReadsInOrder == pc = "take" => unread > 0 /\ data[rdI] = expect

(* The thread never believes in more bytes than there are, and never       *)
(* counts below zero, although it loses updates of the interrupt.          *)
NeverAhead == pc \in {"idle", "wait", "clamp", "take", "flag"} => pendingBytes =< unread

(* The inductive invariant behind both.  While the thread takes bytes, the *)
(* count covers those it has still to take, and exceeds the bytes that are *)
(* there by the one whose decrement is under way, no more; the value in    *)
(* the register may be too small, never too large.  In a flush the count   *)
(* is wrong until it is reset.  The slots from rdI up to wrI hold the      *)
(* bytes that are expected, unless the modem sends more than the ring      *)
(* holds.                                                                  *)
CountInv ==
  /\ NeverAhead
  /\ pc = "wait"  => remaining > 0
  /\ pc = "clamp" => pendingBytes > 0
  /\ pc = "take"  => left > 0 /\ left =< pendingBytes
  /\ pc = "load"  => left < pendingBytes /\ pendingBytes =< unread + 1
  /\ pc = "store" => left < reg /\ reg =< unread + 1
RingInv ==
  /\ wrI = Plus(rdI, unread, BufSize)
  /\ \A j \in 0 .. unread - 1 :
       data[Plus(rdI, j, BufSize)] = Plus(expect, j, Tags)
IInv == TypeOK /\ CountInv /\ (Burst =< BufSize => RingInv)
=============================================================================
