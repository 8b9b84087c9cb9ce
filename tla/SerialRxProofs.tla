--------------------------- MODULE SerialRxProofs ---------------------------
(***************************************************************************)
(* Proofs about SerialRx for any size of the ring, any requests and any    *)
(* modem.  The order of the bytes is kept as long as the modem has no more *)
(* of them outstanding than the ring holds; the count is on the safe side  *)
(* even when it has.                                                       *)
(***************************************************************************)
EXTENDS SerialRx, TLAPS

(* Steps around a circle of m: they stay on it, add up, and reach no place *)
(* twice within one turn.                                                  *)
LEMMA Circle ==
  ASSUME NEW m \in Nat \ {0}, NEW k \in 0 .. m - 1
  PROVE  /\ Succ(k, m) \in 0 .. m - 1
         /\ Plus(k, 0, m) = k
         /\ \A j \in 0 .. m : Plus(k, j, m) \in 0 .. m - 1
         /\ \A j \in 0 .. m - 1 : /\ Succ(Plus(k, j, m), m) = Plus(k, j + 1, m)
                                  /\ Plus(Succ(k, m), j, m) = Plus(k, j + 1, m)
         /\ \A i, j \in 0 .. m - 1 : i # j => Plus(k, i, m) # Plus(k, j, m)
<1>1. Succ(k, m) = IF k + 1 >= m THEN k + 1 - m ELSE k + 1
  BY DEF Succ, Plus
<1>2. \A j \in 0 .. m - 1 : Plus(Succ(k, m), j, m) = Plus(k, j + 1, m)
  BY <1>1 DEF Plus
<1>3. \A j \in 0 .. m - 1 : Succ(Plus(k, j, m), m) = Plus(k, j + 1, m)
  BY DEF Succ, Plus
<1> QED
  BY <1>1, <1>2, <1>3 DEF Plus

(* The circles of the program.                                             *)
LEMMA Circles ==
  /\ BufSize \in Nat \ {0} /\ Tags \in Nat \ {0}
  /\ Burst \in Nat \ {0} /\ Burst < Tags /\ MaxLen \in Nat \ {0}
  /\ Slots = 0 .. BufSize - 1 /\ Numbers = 0 .. Tags - 1
  /\ 0 \in Slots /\ 0 \in Numbers
BY RxAssumption DEF Slots, Numbers

LEMMA ArrivedType == TypeOK => arrived \in Numbers
<1> SUFFICES ASSUME TypeOK PROVE arrived \in Numbers
  OBVIOUS
<1>1. unread \in 0 .. Tags /\ expect \in 0 .. Tags - 1
  BY Circles DEF TypeOK
<1> QED
  BY <1>1, Circle, Circles DEF arrived

LEMMA InitIInv == Init => IInv
<1> SUFFICES ASSUME Init PROVE IInv
  OBVIOUS
<1>1. overflow \in BOOLEAN
  BY Zenon DEF Init
<1>2. TypeOK
  BY <1>1, Circles DEF Init, TypeOK
<1>3. CountInv
  BY DEF Init, CountInv, NeverAhead
<1>4. RingInv
  BY Circles DEF Init, RingInv, Plus
<1> QED
  BY <1>2, <1>3, <1>4 DEF IInv

-----------------------------------------------------------------------------
(* No step leaves a variable's type or makes the count too large.          *)
LEMMA CountStep ==
  ASSUME TypeOK, CountInv, [Next]_vars
  PROVE  TypeOK' /\ CountInv'
<1>0. /\ pendingBytes \in Nat /\ remaining \in Int /\ left \in Nat /\ reg \in Nat
      /\ unread \in Nat /\ unread =< Burst /\ Burst \in Nat
      /\ BufSize \in Nat \ {0}
  BY Circles DEF TypeOK
<1>1. CASE RxInterrupt
  <2>1. overflow' \in BOOLEAN
    <3>1. (pendingBytes' > BufSize) \in BOOLEAN
      BY SMT
    <3> QED
      BY <1>1, <3>1, Zenon DEF RxInterrupt, TypeOK
  <2>2. wrI' \in Slots /\ data' \in [Slots -> Numbers]
    BY <1>1, ArrivedType, Circle, Circles DEF RxInterrupt, TypeOK
  <2>3. TypeOK'
    BY <1>0, <1>1, <2>1, <2>2 DEF RxInterrupt, TypeOK, thread
  <2>4. CountInv'
    BY <1>0, <1>1 DEF RxInterrupt, CountInv, NeverAhead, thread
  <2> QED
    BY <2>3, <2>4
<1>2. ASSUME NEW len \in 1 .. MaxLen, SerialRecv(len) PROVE TypeOK' /\ CountInv'
  BY <1>0, <1>2, Circles DEF SerialRecv, TypeOK, CountInv, NeverAhead, ring
<1>3. CASE Timeout
  BY <1>0, <1>3 DEF Timeout, TypeOK, CountInv, NeverAhead, ring
<1>4. CASE Start
  <2>1. Wanted \in Nat /\ Wanted > 0
    BY <1>0, <1>4 DEF Start, Wanted, CountInv
  <2>2. CASE Short
    BY <1>0, <1>4, <2>2 DEF Start, TypeOK, CountInv, NeverAhead, ring
  <2>3. CASE ~Short
    <3>1. Wanted =< pendingBytes
      BY <1>0, <2>1, <2>3 DEF Short
    <3> QED
      BY <1>0, <1>4, <2>1, <2>3, <3>1
         DEF Start, TypeOK, CountInv, NeverAhead, ring
  <2> QED
    BY <2>2, <2>3
<1>5. CASE Clamp
  BY <1>0, <1>5 DEF Clamp, TypeOK, CountInv, NeverAhead, ring
<1>6. CASE Take
  <2>1. left > 0 /\ left =< pendingBytes /\ pendingBytes =< unread
    BY <1>6 DEF Take, CountInv, NeverAhead
  <2>2. rdI' \in Slots /\ expect' \in Numbers
    BY <1>6, Circle, Circles DEF Take, TypeOK
  <2> QED
    BY <1>0, <1>6, <2>1, <2>2 DEF Take, TypeOK, CountInv, NeverAhead
<1>7. CASE Load
  BY <1>0, <1>7 DEF Load, TypeOK, CountInv, NeverAhead, ring
<1>8. CASE Store
  <2>1. left < reg /\ reg =< unread + 1
    BY <1>8 DEF Store, CountInv
  <2>2. /\ pendingBytes' = reg - 1 /\ reg' = 0
        /\ UNCHANGED <<ring, overflow, remaining, left, unread, expect>>
    BY <1>8 DEF Store
  <2>3. \/ left > 0 /\ pc' = "take"
        \/ remaining > 0 /\ pc' = "wait"
        \/ pc' = "idle"
    <3>1. CASE left > 0
      BY <1>0, <1>8, <3>1 DEF Store
    <3>2. CASE left = 0 /\ remaining > 0
      BY <1>0, <1>8, <3>2 DEF Store
    <3>3. CASE left = 0 /\ remaining =< 0
      BY <1>0, <1>8, <3>3 DEF Store
    <3> QED
      BY <1>0, <3>1, <3>2, <3>3
  <2> QED
    BY <1>0, <2>1, <2>2, <2>3 DEF TypeOK, CountInv, NeverAhead, ring
<1>9. CASE FlushIndex
  <2>1. expect' \in Numbers
    BY <1>9, ArrivedType DEF FlushIndex
  <2> QED
    BY <1>0, <1>9, <2>1 DEF FlushIndex, TypeOK, CountInv, NeverAhead, thread
<1>10. CASE FlushCount
  BY <1>0, <1>10 DEF FlushCount, TypeOK, CountInv, NeverAhead, ring, thread
<1>11. CASE FlushFlag
  <2>1. overflow' \in BOOLEAN
    BY <1>11, Zenon DEF FlushFlag
  <2> QED
    BY <1>0, <1>11, <2>1
       DEF FlushFlag, TypeOK, CountInv, NeverAhead, ring, thread
<1>12. CASE UNCHANGED vars
  BY <1>12 DEF vars, TypeOK, CountInv, NeverAhead, ring, thread
<1> QED
  BY <1>1, <1>2, <1>3, <1>4, <1>5, <1>6, <1>7, <1>8, <1>9, <1>10, <1>11, <1>12
     DEF Next

-----------------------------------------------------------------------------
(* A byte that arrives joins those in the ring at their end.               *)
LEMMA InterruptJoins ==
  ASSUME Burst =< BufSize, TypeOK, RingInv, RxInterrupt
  PROVE  RingInv'
<1> DEFINE u == unread
<1>1. /\ u \in 0 .. BufSize - 1 /\ u \in 0 .. Tags - 1
      /\ rdI \in 0 .. BufSize - 1 /\ expect \in 0 .. Tags - 1
      /\ wrI \in Slots /\ wrI = Plus(rdI, u, BufSize)
  BY Circles DEF RxInterrupt, TypeOK, RingInv
<1>2. /\ data' = [data EXCEPT ![wrI] = Plus(expect, u, Tags)]
      /\ wrI' = Succ(wrI, BufSize) /\ unread' = u + 1
      /\ rdI' = rdI /\ expect' = expect
  BY DEF RxInterrupt, arrived
<1>3. \A j \in 0 .. u - 1 : data[Plus(rdI, j, BufSize)] = Plus(expect, j, Tags)
  BY DEF RingInv
<1>4. data \in [Slots -> Numbers]
  BY DEF TypeOK
<1> HIDE DEF u
<1>5. wrI' = Plus(rdI, u + 1, BufSize)
  BY <1>1, <1>2, Circle, Circles
<1>6. ASSUME NEW j \in 0 .. u
      PROVE  data'[Plus(rdI, j, BufSize)] = Plus(expect, j, Tags)
  <2>1. Plus(rdI, j, BufSize) \in Slots
    <3>1. j \in 0 .. BufSize
      BY <1>1, Circles
    <3> QED
      BY <1>1, <3>1, Circle, Circles
  <2>2. CASE j = u
    BY <1>1, <1>2, <1>4, <2>2
  <2>3. CASE j # u
    <3>1. j \in 0 .. u - 1 /\ j \in 0 .. BufSize - 1
      BY <1>1, <2>3, Circles
    <3>2. Plus(rdI, j, BufSize) # wrI
      <4>1. \A i \in 0 .. BufSize - 1 : i # u =>
              Plus(rdI, i, BufSize) # Plus(rdI, u, BufSize)
        BY <1>1, Circle, Circles
      <4> QED
        BY <1>1, <2>3, <3>1, <4>1
    <3> QED
      BY <1>2, <1>3, <1>4, <2>1, <3>1, <3>2
  <2> QED
    BY <2>2, <2>3
<1> QED
  <2>1. unread' - 1 = u
    BY <1>1, <1>2
  <2> QED
    BY <1>2, <1>5, <1>6, <2>1 DEF RingInv

(* The byte that is taken leaves it in front.                              *)
LEMMA TakeLeaves ==
  ASSUME Burst =< BufSize, TypeOK, CountInv, RingInv, Take
  PROVE  RingInv'
<1> DEFINE u == unread
<1>1. /\ u \in 1 .. BufSize /\ u \in 1 .. Tags
      /\ rdI \in 0 .. BufSize - 1 /\ expect \in 0 .. Tags - 1
      /\ wrI = Plus(rdI, u, BufSize)
  <2>1. u > 0 /\ u =< Burst /\ u \in Nat
    BY DEF Take, TypeOK, CountInv, NeverAhead
  <2> QED
    BY <2>1, Circles DEF TypeOK, RingInv
<1>2. /\ rdI' = Succ(rdI, BufSize) /\ expect' = Succ(expect, Tags)
      /\ unread' = u - 1 /\ UNCHANGED <<data, wrI>>
  BY DEF Take
<1>3. \A j \in 0 .. u - 1 : data[Plus(rdI, j, BufSize)] = Plus(expect, j, Tags)
  BY DEF RingInv
<1> HIDE DEF u
<1>4. wrI' = Plus(rdI', u - 1, BufSize)
  <2>1. u - 1 \in 0 .. BufSize - 1 /\ (u - 1) + 1 = u
    BY <1>1, Circles
  <2>2. Plus(Succ(rdI, BufSize), u - 1, BufSize) = Plus(rdI, (u - 1) + 1, BufSize)
    BY <1>1, <2>1, Circle, Circles
  <2> QED
    BY <1>1, <1>2, <2>1, <2>2
<1>5. ASSUME NEW j \in 0 .. (u - 1) - 1
      PROVE  data'[Plus(rdI', j, BufSize)] = Plus(expect', j, Tags)
  <2>1. j + 1 \in 0 .. u - 1 /\ j \in 0 .. BufSize - 1 /\ j \in 0 .. Tags - 1
    BY <1>1, Circles
  <2>2. Plus(rdI', j, BufSize) = Plus(rdI, j + 1, BufSize)
    BY <1>1, <1>2, <2>1, Circle, Circles
  <2>3. Plus(expect', j, Tags) = Plus(expect, j + 1, Tags)
    BY <1>1, <1>2, <2>1, Circle, Circles
  <2> QED
    BY <1>2, <1>3, <2>1, <2>2, <2>3
<1> QED
  BY <1>2, <1>4, <1>5 DEF RingInv

LEMMA RingStep ==
  ASSUME Burst =< BufSize, TypeOK, CountInv, RingInv, [Next]_vars
  PROVE  RingInv'
<1>1. ASSUME UNCHANGED <<ring, unread, expect>> PROVE RingInv'
  BY <1>1 DEF ring, RingInv
<1>2. CASE FlushIndex
  <2>1. wrI \in 0 .. BufSize - 1 /\ rdI' = wrI /\ wrI' = wrI /\ unread' = 0
    BY <1>2, Circles DEF FlushIndex, TypeOK
  <2>2. wrI' = Plus(rdI', unread', BufSize)
    BY <2>1, Circle, Circles
  <2> QED
    BY <2>1, <2>2 DEF RingInv
<1>3. ASSUME NEW len \in 1 .. MaxLen, SerialRecv(len) PROVE RingInv'
  BY <1>1, <1>3 DEF SerialRecv
<1>4. CASE Timeout \/ Start \/ Clamp \/ Load \/ Store \/ FlushCount \/ FlushFlag
  BY <1>1, <1>4 DEF Timeout, Start, Clamp, Load, Store, FlushCount, FlushFlag
<1>5. CASE UNCHANGED vars
  BY <1>1, <1>5 DEF vars
<1> QED
  BY <1>2, <1>3, <1>4, <1>5, InterruptJoins, TakeLeaves DEF Next

-----------------------------------------------------------------------------
(* The inductive invariant holds for any ring, requests and modem.         *)
THEOREM Invariance == Spec => []IInv
<1>1. IInv /\ [Next]_vars => IInv'
  <2> SUFFICES ASSUME IInv, [Next]_vars PROVE IInv'
    OBVIOUS
  <2>1. TypeOK' /\ CountInv'
    BY CountStep DEF IInv
  <2>2. Burst =< BufSize => RingInv'
    BY RingStep DEF IInv
  <2> QED
    BY <2>1, <2>2 DEF IInv
<1> QED
  BY <1>1, InitIInv, PTL DEF Spec

(* Every variable keeps its type: the count never falls below zero.        *)
THEOREM TypeCorrect == Spec => []TypeOK
<1>1. IInv => TypeOK
  BY DEF IInv
<1> QED
  BY <1>1, Invariance, PTL

(* The lost updates err on the safe side: outside a decrement or a flush   *)
(* the thread never believes in more bytes than there are.                 *)
THEOREM CountIsSafe == Spec => []NeverAhead
<1>1. IInv => NeverAhead
  BY DEF IInv, CountInv
<1> QED
  BY <1>1, Invariance, PTL

(* The bytes are read in the order of arrival, as long as the modem has no *)
(* more of them outstanding than the ring holds.                           *)
THEOREM ReadsKeepOrder == Burst =< BufSize => (Spec => []ReadsInOrder)
<1> SUFFICES ASSUME Burst =< BufSize PROVE Spec => []ReadsInOrder
  OBVIOUS
<1>1. IInv => ReadsInOrder
  <2> SUFFICES ASSUME IInv, pc = "take"
               PROVE  unread > 0 /\ data[rdI] = expect
    BY DEF ReadsInOrder
  <2>1. unread > 0 /\ 0 \in 0 .. unread - 1
    BY DEF IInv, TypeOK, CountInv, NeverAhead
  <2>2. rdI \in 0 .. BufSize - 1 /\ expect \in 0 .. Tags - 1
    BY Circles DEF IInv, TypeOK
  <2>3. data[Plus(rdI, 0, BufSize)] = Plus(expect, 0, Tags)
    BY <2>1 DEF IInv, RingInv
  <2>4. Plus(rdI, 0, BufSize) = rdI /\ Plus(expect, 0, Tags) = expect
    BY <2>2, Circle, Circles
  <2> QED
    BY <2>1, <2>3, <2>4
<1> QED
  BY <1>1, Invariance, PTL
=============================================================================
