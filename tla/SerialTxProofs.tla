--------------------------- MODULE SerialTxProofs ---------------------------
(***************************************************************************)
(* Proofs about SerialTx for any size of the ring and any number of        *)
(* different bytes, as long as no send is longer than the ring: a longer   *)
(* one puts its second chunk while the interrupt is enabled, and a         *)
(* decrement may be lost.                                                  *)
(***************************************************************************)
EXTENDS SerialTx, TLAPS

(* Steps around a circle of m: they stay on it, add up, and reach no place *)
(* twice within one turn.                                                  *)
LEMMA Circle ==
  ASSUME NEW m \in Nat \ {0}, NEW k \in 0 .. m - 1
  PROVE  /\ Succ(k, m) \in 0 .. m - 1
         /\ Plus(k, 0, m) = k
         /\ \A j \in 0 .. m : Plus(k, j, m) \in 0 .. m - 1
         /\ \A j \in 0 .. m - 1 : /\ Succ(Plus(k, j, m), m) = Plus(k, j + 1, m)
                                  /\ Plus(Succ(k, m), j, m) = Plus(k, j + 1, m)
         /\ \A i, j \in 0 .. m - 1 : i # j => Plus(k, i, m) # Plus(k, j, m)
BY DEF Succ, Plus

(* The circles of the program.                                             *)
LEMMA Circles ==
  /\ BufSize \in Nat \ {0} /\ Tags \in Nat \ {0} /\ BufSize < Tags
  /\ Slots = 0 .. BufSize - 1 /\ Numbers = 0 .. Tags - 1
  /\ 0 \in Slots /\ 0 \in Numbers
BY TxAssumption DEF Slots, Numbers

(* The bytes in the ring are at most as many as it has slots.              *)
LEMMA HeldType ==
  ASSUME TypeOK, ChunkInv
  PROVE  /\ Held \in 0 .. BufSize
         /\ pc = "write" => Held \in 0 .. BufSize - 1
         /\ pc \notin {"load", "store"} => Held = pendingBytes
         /\ pc \in {"load", "store"} => Held = pendingBytes + 1
<1>1. pendingBytes \in 0 .. BufSize /\ left \in 0 .. BufSize /\ BufSize \in Nat
  BY Circles DEF TypeOK
<1>2. pc \in {"write", "load", "store"} => pendingBytes + 1 =< BufSize
  BY <1>1 DEF ChunkInv
<1> QED
  BY <1>1, <1>2 DEF Held

LEMMA InitIInv == Init => IInv
<1> SUFFICES ASSUME Init PROVE IInv
  OBVIOUS
<1>1. irq \in BOOLEAN
  BY Zenon DEF Init
<1>2. TypeOK
  BY <1>1, Circles, TxAssumption DEF Init, TypeOK
<1>3. IrqInv /\ ChunkInv
  BY DEF Init, IrqInv, ChunkInv
<1>4. RingInv
  BY Circles DEF Init, RingInv, Held, Plus
<1> QED
  BY <1>2, <1>3, <1>4 DEF IInv

-----------------------------------------------------------------------------
(* A send of at most a ring is one chunk.                                  *)
LEMMA OneChunk ==
  ASSUME MaxLen =< BufSize, NEW size \in 1 .. MaxLen, Cut(size)
  PROVE  left' = size /\ left' \in 0 .. BufSize /\ remain_size' = 0 /\ pc' = "room"
BY TxAssumption DEF Cut, Chunk

(* A step that leaves the ring and its count alone.                        *)
LEMMA RingStays ==
  ASSUME RingInv, UNCHANGED <<ring, pendingBytes, next, out>>,
         pc \in {"load", "store"} <=> pc' \in {"load", "store"}
  PROVE  RingInv'
BY DEF RingInv, Held, ring

(* The byte that is put joins those in the ring at their end.              *)
LEMMA WriteStep ==
  ASSUME TypeOK, ChunkInv, RingInv, Write
  PROVE  TypeOK' /\ RingInv'
<1> DEFINE h == Held
<1>1. h \in 0 .. BufSize - 1 /\ Held' = h + 1
  BY HeldType DEF Write, Held
<1>2. /\ rdI \in 0 .. BufSize - 1 /\ out \in 0 .. Tags - 1
      /\ wrI \in 0 .. BufSize - 1 /\ next \in 0 .. Tags - 1
      /\ wrI = Plus(rdI, h, BufSize) /\ next = Plus(out, h, Tags)
  BY Circles DEF TypeOK, RingInv
<1>3. /\ data' = [data EXCEPT ![wrI] = next]
      /\ wrI' = Succ(wrI, BufSize) /\ next' = Succ(next, Tags)
      /\ rdI' = rdI /\ out' = out
  BY DEF Write
<1>4. h \in 0 .. Tags - 1
  BY <1>1, Circles
<1>5. wrI' = Plus(rdI, h + 1, BufSize) /\ next' = Plus(out, h + 1, Tags)
  BY <1>1, <1>2, <1>3, <1>4, Circle, Circles
<1>6. wrI' \in Slots /\ next' \in Numbers /\ data' \in [Slots -> Numbers]
  <2>1. wrI' \in Slots /\ next' \in Numbers
    BY <1>2, <1>3, Circle, Circles
  <2> QED
    BY <1>2, <1>3, <2>1, Circles DEF TypeOK
<1>7. TypeOK'
  BY <1>6 DEF Write, TypeOK, thread
<1> HIDE DEF h
<1>8. ASSUME NEW j \in 0 .. h
      PROVE  data'[Plus(rdI, j, BufSize)] = Plus(out, j, Tags)
  <2>1. Plus(rdI, j, BufSize) \in Slots
    <3>1. j \in 0 .. BufSize
      BY <1>1, Circles
    <3> QED
      BY <1>2, <3>1, Circle, Circles
  <2>2. CASE j = h
    BY <1>2, <1>3, <2>1, <2>2 DEF TypeOK
  <2>3. CASE j # h
    <3>1. j \in 0 .. h - 1 /\ j \in 0 .. BufSize - 1
      BY <1>1, <2>3, Circles
    <3>2. Plus(rdI, j, BufSize) # wrI
      <4>1. \A i \in 0 .. BufSize - 1 : i # h =>
              Plus(rdI, i, BufSize) # Plus(rdI, h, BufSize)
        BY <1>1, <1>2, Circle, Circles
      <4> QED
        BY <1>2, <2>3, <3>1, <4>1
    <3>3. data[Plus(rdI, j, BufSize)] = Plus(out, j, Tags)
      BY <3>1 DEF RingInv, h
    <3> QED
      BY <1>3, <2>1, <3>2, <3>3 DEF TypeOK
  <2> QED
    BY <2>2, <2>3
<1>9. RingInv'
  <2>1. Held' - 1 = h
    BY <1>1
  <2> QED
    BY <1>1, <1>3, <1>5, <1>8, <2>1 DEF RingInv
<1> QED
  BY <1>7, <1>9

(* The byte that is sent is the one in front.                              *)
LEMMA InterruptStep ==
  ASSUME IInv, TxInterrupt
  PROVE  /\ IInv'
         /\ data[rdI] = out /\ out # next
<1> DEFINE h == pendingBytes
<1>1. pc = "drain" /\ h \in 1 .. BufSize /\ Held = h
  BY Circles DEF IInv, IrqInv, TxInterrupt, Held, TypeOK
<1>2. /\ rdI' = Succ(rdI, BufSize) /\ pendingBytes' = h - 1
      /\ out' = Succ(out, Tags)
      /\ irq' = (pendingBytes' # 0)
      /\ UNCHANGED <<data, wrI, pc, thread, reg, next>>
  BY <1>1 DEF TxInterrupt, Drop
<1>3. /\ rdI \in 0 .. BufSize - 1 /\ out \in 0 .. Tags - 1
      /\ wrI = Plus(rdI, h, BufSize) /\ next = Plus(out, h, Tags)
      /\ \A j \in 0 .. h - 1 :
           data[Plus(rdI, j, BufSize)] = Plus(out, j, Tags)
  BY <1>1, Circles DEF IInv, TypeOK, RingInv
<1>4. h \in 1 .. Tags - 1 /\ h - 1 \in 0 .. BufSize - 1 /\ h - 1 \in 0 .. Tags - 1
  BY <1>1, Circles
<1>5. irq' \in BOOLEAN
  <2>1. (pendingBytes' # 0) \in BOOLEAN
    BY SMT
  <2> QED
    BY <1>2, <2>1, Zenon
<1>6. TypeOK'
  <2>1. rdI' \in Slots /\ out' \in Numbers /\ pendingBytes' \in 0 .. BufSize
    BY <1>1, <1>2, <1>3, Circle, Circles
  <2> QED
    BY <1>2, <1>5, <2>1 DEF IInv, TypeOK, thread
<1>7. IrqInv' /\ ChunkInv'
  <2>1. irq' => pendingBytes' > 0
    <3>1. irq' => pendingBytes' # 0
      BY <1>2, Zenon
    <3>2. pendingBytes' # 0 => pendingBytes' > 0
      BY <1>1, <1>2
    <3> QED
      BY <3>1, <3>2
  <2> QED
    BY <1>1, <1>2, <2>1 DEF IInv, IrqInv, ChunkInv, thread
<1> HIDE DEF h
<1>8. Held' = h - 1
  BY <1>1, <1>2 DEF Held
<1>9. wrI' = Plus(rdI', h - 1, BufSize) /\ next' = Plus(out', h - 1, Tags)
  <2>1. Plus(rdI', h - 1, BufSize) = Plus(rdI, (h - 1) + 1, BufSize)
    BY <1>2, <1>3, <1>4, Circle, Circles
  <2>2. Plus(out', h - 1, Tags) = Plus(out, (h - 1) + 1, Tags)
    BY <1>2, <1>3, <1>4, Circle, Circles
  <2>3. (h - 1) + 1 = h
    BY <1>1
  <2> QED
    BY <1>2, <1>3, <2>1, <2>2, <2>3
<1>10. ASSUME NEW j \in 0 .. (h - 1) - 1
       PROVE  data'[Plus(rdI', j, BufSize)] = Plus(out', j, Tags)
  <2>1. /\ j + 1 \in 0 .. h - 1 /\ j \in 0 .. BufSize - 1
        /\ j \in 0 .. Tags - 1
    BY <1>1, <1>4, Circles
  <2>2. Plus(rdI', j, BufSize) = Plus(rdI, j + 1, BufSize)
    BY <1>2, <1>3, <2>1, Circle, Circles
  <2>3. Plus(out', j, Tags) = Plus(out, j + 1, Tags)
    BY <1>2, <1>3, <2>1, Circle, Circles
  <2> QED
    BY <1>2, <1>3, <2>1, <2>2, <2>3
<1>11. RingInv'
  BY <1>8, <1>9, <1>10 DEF RingInv
<1>12. data[rdI] = out
  <2>1. 0 \in 0 .. h - 1
    BY <1>1
  <2>2. data[Plus(rdI, 0, BufSize)] = Plus(out, 0, Tags)
    BY <1>3, <2>1
  <2>3. Plus(rdI, 0, BufSize) = rdI /\ Plus(out, 0, Tags) = out
    BY <1>3, Circle, Circles
  <2> QED
    BY <2>2, <2>3
<1>13. out # next
  <2>1. 0 \in 0 .. Tags - 1 /\ h \in 0 .. Tags - 1 /\ h # 0
    BY <1>4, Circles
  <2>2. Plus(out, 0, Tags) = out /\ Plus(out, h, Tags) # Plus(out, 0, Tags)
    BY <1>3, <2>1, Circle, Circles
  <2> QED
    BY <1>3, <2>2
<1> QED
  BY <1>6, <1>7, <1>11, <1>12, <1>13 DEF IInv

-----------------------------------------------------------------------------
LEMMA StepIInv ==
  ASSUME MaxLen =< BufSize, IInv, [Next]_vars
  PROVE  IInv'
<1> USE DEF IInv
<1>1. ASSUME NEW size \in 1 .. MaxLen, SerialSend(size) PROVE IInv'
  <2>1. /\ left' = size /\ left' \in 0 .. BufSize /\ remain_size' = 0
        /\ pc' = "room" /\ pc = "idle"
        /\ UNCHANGED <<ring, pendingBytes, irq, reg, next, out>>
    BY <1>1, OneChunk DEF SerialSend
  <2>2. TypeOK'
    BY <2>1, TxAssumption DEF TypeOK, ring
  <2>3. IrqInv' /\ ChunkInv'
    BY <2>1, TxAssumption DEF IrqInv, ChunkInv, TypeOK
  <2> QED
    BY <2>1, <2>2, <2>3, RingStays
<1>2. CASE Wait
  <2>1. TypeOK' /\ IrqInv' /\ ChunkInv'
    BY <1>2 DEF Wait, Fits, TypeOK, IrqInv, ChunkInv, ring, thread
  <2>2. RingInv'
    BY <1>2, RingStays DEF Wait
  <2> QED
    BY <2>1, <2>2
<1>3. CASE Write
  <2>1. IrqInv' /\ ChunkInv'
    BY <1>3 DEF Write, IrqInv, ChunkInv, thread
  <2> QED
    BY <1>3, <2>1, WriteStep
<1>4. CASE Load
  <2>1. TypeOK' /\ IrqInv' /\ ChunkInv'
    BY <1>4 DEF Load, TypeOK, IrqInv, ChunkInv, ring, thread
  <2>2. RingInv'
    BY <1>4, RingStays DEF Load
  <2> QED
    BY <2>1, <2>2
<1>5. CASE Store
  <2>0. pendingBytes \in 0 .. BufSize /\ left \in 0 .. BufSize /\ BufSize \in Nat
    BY Circles DEF TypeOK
  <2>1. /\ pc = "store" /\ pendingBytes' = pendingBytes + 1 /\ left' = left - 1
        /\ pc' = IF left' = 0 THEN "enable" ELSE "write"
        /\ reg' = 0 /\ left > 0 /\ pendingBytes + left =< BufSize
        /\ UNCHANGED <<ring, irq, remain_size, next, out>>
    BY <1>5 DEF Store, ChunkInv
  <2>2. TypeOK'
    BY <2>0, <2>1 DEF TypeOK, ring
  <2>3. IrqInv' /\ ChunkInv'
    BY <2>0, <2>1 DEF IrqInv, ChunkInv
  <2>4. Held' = Held
    BY <2>1 DEF Held
  <2>5. RingInv'
    BY <2>1, <2>4 DEF RingInv, ring
  <2> QED
    BY <2>2, <2>3, <2>5
<1>6. CASE IntEnable
  <2>1. /\ pc = "enable" /\ irq' = TRUE /\ pc' = "drain"
        /\ UNCHANGED <<thread, ring, pendingBytes, reg, next, out>>
    BY <1>6 DEF IntEnable, ChunkInv
  <2>2. irq' \in BOOLEAN
    BY <2>1, Zenon
  <2>3. TypeOK' /\ IrqInv' /\ ChunkInv'
    BY <2>1, <2>2 DEF TypeOK, IrqInv, ChunkInv, ring, thread
  <2> QED
    BY <2>1, <2>3, RingStays
<1>7. CASE Return
  <2>1. TypeOK' /\ IrqInv' /\ ChunkInv'
    BY <1>7 DEF Return, TypeOK, IrqInv, ChunkInv, ring, thread
  <2>2. RingInv'
    BY <1>7, RingStays DEF Return
  <2> QED
    BY <2>1, <2>2
<1>8. CASE TxInterrupt
  BY <1>8, InterruptStep
<1>9. CASE UNCHANGED vars
  BY <1>9 DEF vars, ring, thread, TypeOK, IrqInv, ChunkInv, RingInv, Held
<1> QED
  BY <1>1, <1>2, <1>3, <1>4, <1>5, <1>6, <1>7, <1>8, <1>9 DEF Next

(* The inductive invariant holds for sends that fit the ring.              *)
THEOREM Invariance == MaxLen =< BufSize => (Spec => []IInv)
<1> SUFFICES ASSUME MaxLen =< BufSize PROVE Spec => []IInv
  OBVIOUS
<1>1. IInv /\ [Next]_vars => IInv'
  BY StepIInv
<1> QED
  BY <1>1, InitIInv, PTL DEF Spec

(* Every variable keeps its type: the count never exceeds the ring.        *)
THEOREM TypeCorrect == MaxLen =< BufSize => (Spec => []TypeOK)
<1> SUFFICES ASSUME MaxLen =< BufSize PROVE Spec => []TypeOK
  OBVIOUS
<1>1. IInv => TypeOK
  BY DEF IInv
<1> QED
  BY <1>1, Invariance, PTL

(* When SerialSend has returned, all its bytes are on the wire.            *)
THEOREM SentWhenReturned == MaxLen =< BufSize => (Spec => []AllSent)
<1> SUFFICES ASSUME MaxLen =< BufSize PROVE Spec => []AllSent
  OBVIOUS
<1>1. IInv => AllSent
  <2> SUFFICES ASSUME IInv, pc = "idle" PROVE out = next
    BY DEF AllSent
  <2>1. Held = 0 /\ out \in 0 .. Tags - 1
    BY Circles DEF IInv, ChunkInv, Held, TypeOK
  <2> QED
    BY <2>1, Circle, Circles DEF IInv, RingInv
<1> QED
  BY <1>1, Invariance, PTL

(* The bytes go out on the wire in the order in which they were handed     *)
(* over, none lost or repeated, for any size of the ring.                  *)
THEOREM WireKeepsOrder == MaxLen =< BufSize => (Spec => WireInOrder)
<1> SUFFICES ASSUME MaxLen =< BufSize PROVE Spec => WireInOrder
  OBVIOUS
<1>1. IInv /\ [Next]_vars
        => [TxInterrupt /\ out' # out => data[rdI] = out /\ out # next]_vars
  BY InterruptStep
<1> QED
  BY <1>1, Invariance, PTL DEF Spec, WireInOrder
=============================================================================
