------------------------------ MODULE SerialTx ------------------------------
(***************************************************************************)
(* The sending half of smartDoor/serial_io_EFR32BG1P232F256GM48.c: the     *)
(* main thread fills the ring txBuf in SerialSend / UartPutData, the       *)
(* transmit interrupt of the USART empties it.  Nothing masks the          *)
(* interrupt, and pendingBytes++ of the thread is a load and a store.      *)
(*                                                                         *)
(* A byte is its number, modulo Tags, in the order in which callers of     *)
(* SerialSend hand bytes over.                                             *)
(***************************************************************************)
EXTENDS Integers

CONSTANTS
  BufSize,  \* CIRCULAR_BUF_SIZE, 256 in the code
  MaxLen,   \* longest send of a caller
  Tags      \* number of different bytes

ASSUME TxAssumption ==
  /\ BufSize \in Nat \ {0}
  /\ MaxLen \in Nat \ {0}
  /\ Tags \in Nat
  /\ Tags > BufSize

VARIABLES
  data,          \* txBuf.data
  rdI,           \* txBuf.rdI, moved by the interrupt
  wrI,           \* txBuf.wrI, moved by the thread
  pendingBytes,  \* txBuf.pendingBytes, changed by both
  irq,           \* the transmit interrupt is enabled (USART_IF_TXBL)
  pc,            \* where SerialSend is
  remain_size,   \* bytes that are not in a chunk yet
  left,          \* bytes of the chunk that UartPutData has still to put
  reg,           \* the register between load and store of pendingBytes++
  next,          \* history: number of the next byte to put
  out            \* history: number of the next byte the wire should carry

ring   == <<data, rdI, wrI>>
thread == <<remain_size, left>>
vars == <<ring, pendingBytes, irq, pc, thread, reg, next, out>>

Slots   == 0 .. BufSize - 1
Numbers == 0 .. Tags - 1

(* One step around a circle of m.                                          *)
Succ_OffByOne(k, m) == IF k = m THEN 0 ELSE k + 1
Succ(k, m) == IF k + 1 = m THEN 0 ELSE k + 1

-----------------------------------------------------------------------------
Init ==
  /\ data = [s \in Slots |-> 0]
  /\ rdI = 0 /\ wrI = 0
  /\ pendingBytes = 0
  /\ irq = FALSE
  /\ pc = "idle"
  /\ remain_size = 0 /\ left = 0 /\ reg = 0
  /\ next = 0 /\ out = 0

(* SerialSend cuts the next chunk off and calls UartPutData.               *)
Chunk(size) == IF size > BufSize THEN BufSize ELSE size

Cut(size) ==
  /\ left' = Chunk(size)
  /\ remain_size' = size - Chunk(size)
  /\ pc' = "room"

SerialSend(size) ==
  /\ pc = "idle"
  /\ Cut(size)
  /\ UNCHANGED <<ring, pendingBytes, irq, reg, next, out>>

(* UartPutData waits until the whole chunk fits.                           *)
Fits == pendingBytes + left =< BufSize

Wait_EnableFirst ==
  /\ pc = "room"
  /\ Fits
  /\ pc' = "write"
  /\ irq' = TRUE
  /\ UNCHANGED <<ring, pendingBytes, thread, reg, next, out>>

Wait ==
  /\ pc = "room"
  /\ Fits
  /\ pc' = "write"
  /\ UNCHANGED <<ring, pendingBytes, irq, thread, reg, next, out>>

(* One turn of its loop: the byte and wrI, then pendingBytes++.            *)
Write ==
  /\ pc = "write"
  /\ data' = [data EXCEPT ![wrI] = next]
  /\ wrI' = Succ(wrI, BufSize)
  /\ next' = Succ(next, Tags)
  /\ pc' = "load"
  /\ UNCHANGED <<rdI, pendingBytes, irq, thread, reg, out>>

Load ==
  /\ pc = "load"
  /\ reg' = pendingBytes
  /\ pc' = "store"
  /\ UNCHANGED <<ring, pendingBytes, irq, thread, next, out>>

Store ==
  /\ pc = "store"
  /\ pendingBytes' = reg + 1
  /\ left' = left - 1
  /\ pc' = IF left' = 0 THEN "enable" ELSE "write"
  /\ reg' = 0
  /\ UNCHANGED <<ring, irq, remain_size, next, out>>

(* After the last byte of the chunk the interrupt is enabled.              *)
IntEnable ==
  /\ pc = "enable"
  /\ irq' = TRUE
  /\ IF remain_size > 0 THEN Cut(remain_size)
                        ELSE pc' = "drain" /\ UNCHANGED thread
  /\ UNCHANGED <<ring, pendingBytes, reg, next, out>>

(* SerialSend returns when the ring is empty.                              *)
Return_NoDrain ==
  /\ pc = "drain"
  /\ pc' = "idle"
  /\ UNCHANGED <<ring, pendingBytes, irq, thread, reg, next, out>>

Return ==
  /\ pc = "drain"
  /\ pendingBytes = 0
  /\ pc' = "idle"
  /\ UNCHANGED <<ring, pendingBytes, irq, thread, reg, next, out>>
(* USART0_TX_IRQHandler, when the hardware has room for a byte.            *)
Drop_Forgotten(count) == count
Drop(count) == count - 1

TxInterrupt ==
  /\ irq
  /\ IF pendingBytes > 0
       THEN /\ rdI' = Succ(rdI, BufSize)
            /\ pendingBytes' = Drop(pendingBytes)
            /\ out' = Succ(out, Tags)
       ELSE UNCHANGED <<rdI, pendingBytes, out>>
  /\ irq' = (pendingBytes' # 0)
  /\ UNCHANGED <<data, wrI, pc, thread, reg, next>>

Next ==
  \/ \E size \in 1 .. MaxLen : SerialSend(size)
  \/ Wait \/ Write \/ Load \/ Store \/ IntEnable \/ Return
  \/ TxInterrupt

Spec == Init /\ [][Next]_vars

(* The thread goes on, and so does the transmitter: the interrupt is       *)
(* raised again as long as it is enabled.                                  *)
Fairness ==
  /\ WF_vars(Wait \/ Write \/ Load \/ Store \/ IntEnable \/ Return)
  /\ WF_vars(TxInterrupt)

FairSpec == Spec /\ Fairness

-----------------------------------------------------------------------------
(* Every variable has its type.                                            *)
TypeOK ==
  /\ data \in [Slots -> Numbers]
  /\ rdI \in Slots /\ wrI \in Slots
  /\ pendingBytes \in 0 .. BufSize
  /\ irq \in BOOLEAN
  /\ pc \in {"idle", "room", "write", "load", "store", "enable", "drain"}
  /\ remain_size \in 0 .. MaxLen
  /\ left \in 0 .. BufSize
  /\ reg \in 0 .. BufSize
  /\ next \in Numbers /\ out \in Numbers

(* Every byte that goes out on the wire is the next one that was handed    *)
(* over: none is lost, repeated or overtaken, and nothing else is sent.    *)
WireInOrder ==
  [][TxInterrupt /\ out' # out => data[rdI] = out /\ out # next]_vars

(* When SerialSend has returned, all its bytes are on the wire.            *)
AllSent == pc = "idle" => out = next

(* The inductive invariant behind both, for sends that fit the ring: the   *)
(* interrupt is enabled only while bytes wait and the thread waits for     *)
(* them to go, the load of pendingBytes++ is never stale, and the bytes    *)
(* from rdI up to wrI are those from out up to next.  Between the store of *)
(* a byte and that of the count there is one more than pendingBytes says.  *)
Plus(k, j, m) == IF k + j >= m THEN k + j - m ELSE k + j
Held == IF pc \in {"load", "store"} THEN pendingBytes + 1 ELSE pendingBytes

IrqInv == irq => pc = "drain" /\ pendingBytes > 0
ChunkInv ==
  /\ remain_size = 0
  /\ pc \in {"idle", "room"} => pendingBytes = 0
  /\ pc \in {"room", "write", "load", "store"} =>
       left > 0 /\ pendingBytes + left =< BufSize
  /\ pc = "store" => reg = pendingBytes
  /\ pc = "enable" => pendingBytes > 0
RingInv ==
  /\ wrI = Plus(rdI, Held, BufSize)
  /\ next = Plus(out, Held, Tags)
  /\ \A j \in 0 .. Held - 1 :
       data[Plus(rdI, j, BufSize)] = Plus(out, j, Tags)
IInv == TypeOK /\ IrqInv /\ ChunkInv /\ RingInv

(* Once called, SerialSend returns.                                        *)
SendReturns == pc # "idle" ~> pc = "idle"
=============================================================================
