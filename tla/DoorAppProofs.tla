--------------------------- MODULE DoorAppProofs ---------------------------
(***************************************************************************)
(* Proofs about DoorApp for every number of devices, slots of the scan     *)
(* list, commands held by the broker and packets under way.  What the      *)
(* commands amount to is a function defined along the session, so proofs   *)
(* about it go by induction over the session, with sets of numbers.        *)
(***************************************************************************)
EXTENDS DoorApp, SequenceTheorems, WellFoundedInduction, TLAPS

(* An answer to the door is no command.                                    *)
LEMMA ReplyType ==
  ASSUME NEW t \in Replies
  PROVE  /\ <<Reply(t)>> \in Seq(Packets)
         /\ \A n \in DOMAIN <<Reply(t)>> : <<Reply(t)>>[n].type # "publish"
<1>1. Reply(t) \in Packets /\ Reply(t).type # "publish"
  BY DEF Packets, Replies, Reply
<1> QED
  BY <1>1

(* What a command makes of the status is a status.                         *)
LEMMA ObeyedType ==
  \A s \in Statuses, c \in Commands : Obeyed(s, c) \in Statuses
BY DEF Obeyed, Branch, Ignored, Statuses, Commands

(* The commands in new are a later part of the commands in old.            *)
Thinned(new, old) ==
  \E d \in Nat : \A n \in DOMAIN new :
    new[n].type = "publish" => n + d \in DOMAIN old /\ new[n] = old[n + d]

(* What a write leaves under way, less its answer, was there before.       *)
LEMMA WriteThins ==
  ASSUME NEW rest \in Seq(Packets), NEW answer \in Seq(Packets),
         \A n \in DOMAIN answer : answer[n].type # "publish",
         Write(rest, answer)
  PROVE  net' \in Seq(Packets) /\ Thinned(net', rest)
<1>1. PICK k \in 0 .. Len(rest) :
        net' = SubSeq(rest, k + 1, Len(rest)) \o (IF link THEN answer ELSE <<>>)
  BY DEF Write
<1> DEFINE kept == SubSeq(rest, k + 1, Len(rest))
           more == IF link THEN answer ELSE <<>>
<1>2. /\ kept \in Seq(Packets) /\ Len(kept) = Len(rest) - k
      /\ \A n \in 1 .. Len(rest) - k : kept[n] = rest[n + k]
  <2>1. Len(rest) \in Nat /\ k \in Nat /\ k =< Len(rest)
    BY LenProperties
  <2>2. \A n \in k + 1 .. Len(rest) : rest[n] \in Packets
    BY <2>1, ElementOfSeq
  <2> QED
    BY <2>1, <2>2, SubSeqProperties
<1>3. /\ more \in Seq(Packets)
      /\ \A n \in 1 .. Len(more) : more[n].type # "publish"
  BY EmptySeq, LenProperties
<1> HIDE DEF kept, more
<1>4. /\ net' \in Seq(Packets) /\ Len(net') = Len(kept) + Len(more)
      /\ \A n \in 1 .. Len(kept) + Len(more) :
           net'[n] = IF n =< Len(kept) THEN kept[n] ELSE more[n - Len(kept)]
  <2>1. net' = kept \o more
    BY <1>1 DEF kept, more
  <2> QED
    BY <1>2, <1>3, <2>1, ConcatProperties
<1>5. ASSUME NEW n \in DOMAIN net', net'[n].type = "publish"
      PROVE  n + k \in DOMAIN rest /\ net'[n] = rest[n + k]
  <2>1. /\ Len(kept) \in Nat /\ Len(more) \in Nat /\ Len(rest) \in Nat
        /\ DOMAIN rest = 1 .. Len(rest)
        /\ n \in 1 .. Len(kept) + Len(more)
    BY <1>2, <1>3, <1>4, LenProperties
  <2>2. n =< Len(kept)
    <3> SUFFICES ASSUME ~(n =< Len(kept)) PROVE FALSE
      OBVIOUS
    <3>1. n - Len(kept) \in 1 .. Len(more)
      BY <2>1
    <3>2. net'[n] = more[n - Len(kept)]
      BY <1>4, <2>1
    <3> QED
      BY <1>3, <1>5, <3>1, <3>2
  <2>3. n \in 1 .. Len(rest) - k /\ n + k \in 1 .. Len(rest)
    BY <1>2, <2>1, <2>2
  <2>4. net'[n] = kept[n]
    BY <1>4, <2>1, <2>2
  <2> QED
    BY <1>2, <2>1, <2>3, <2>4
<1> QED
  BY <1>4, <1>5 DEF Thinned

(* Taking the first packet thins.                                          *)
LEMMA TailThins ==
  ASSUME NEW old \in Seq(Packets), old # <<>>
  PROVE  Tail(old) \in Seq(Packets) /\ Thinned(Tail(old), old)
<1>1. /\ Tail(old) \in Seq(Packets) /\ Len(Tail(old)) = Len(old) - 1
      /\ \A n \in 1 .. Len(Tail(old)) : Tail(old)[n] = old[n + 1]
      /\ Len(old) \in Nat /\ Len(Tail(old)) \in Nat
      /\ DOMAIN old = 1 .. Len(old)
      /\ DOMAIN Tail(old) = 1 .. Len(Tail(old))
  BY HeadTailProperties, LenProperties
<1>2. \A n \in DOMAIN Tail(old) :
        n + 1 \in DOMAIN old /\ Tail(old)[n] = old[n + 1]
  BY <1>1
<1> QED
  BY <1>1, <1>2 DEF Thinned

(* Thinning twice thins.                                                   *)
LEMMA ThinnedTwice ==
  ASSUME NEW a, NEW b \in Seq(Packets), NEW c \in Seq(Packets),
         a \in Seq(Packets), Thinned(a, b), Thinned(b, c)
  PROVE  Thinned(a, c)
<1>1. PICK d \in Nat : \A n \in DOMAIN a :
        a[n].type = "publish" => n + d \in DOMAIN b /\ a[n] = b[n + d]
  BY DEF Thinned
<1>2. PICK e \in Nat : \A n \in DOMAIN b :
        b[n].type = "publish" => n + e \in DOMAIN c /\ b[n] = c[n + e]
  BY DEF Thinned
<1>3. \A n \in DOMAIN a : n \in Nat
  BY LenProperties
<1>4. ASSUME NEW n \in DOMAIN a, a[n].type = "publish"
      PROVE  n + (d + e) \in DOMAIN c /\ a[n] = c[n + (d + e)]
  <2>1. n + d \in DOMAIN b /\ a[n] = b[n + d]
    BY <1>1, <1>4
  <2>2. (n + d) + e \in DOMAIN c /\ b[n + d] = c[(n + d) + e]
    BY <1>2, <1>4, <2>1
  <2>3. (n + d) + e = n + (d + e)
    BY <1>3
  <2> QED
    BY <2>1, <2>2, <2>3
<1>5. d + e \in Nat
  OBVIOUS
<1> QED
  BY <1>4, <1>5 DEF Thinned

(* Leaving the packets alone thins.                                        *)
LEMMA SameThins ==
  ASSUME NEW a \in Seq(Packets)
  PROVE  Thinned(a, a)
<1>1. \A n \in DOMAIN a : n + 0 = n
  BY LenProperties
<1> QED
  BY <1>1 DEF Thinned

-----------------------------------------------------------------------------
(* A message of the session, marked or not, is a message.                  *)
LEMMA MessagesType ==
  ASSUME NEW s \in Seq(Messages), NEW k \in DOMAIN s
  PROVE  /\ s[k] \in Messages /\ DOMAIN s = 1 .. Len(s) /\ Len(s) \in Nat
         /\ [s EXCEPT ![k].done = TRUE] \in Seq(Messages)
         /\ [s EXCEPT ![k].sent = TRUE] \in Seq(Messages)
<1>1. s[k] \in Messages /\ DOMAIN s = 1 .. Len(s) /\ Len(s) \in Nat
  BY LenProperties, ElementOfSeq
<1>2. /\ [s[k] EXCEPT !.done = TRUE] \in Messages
      /\ [s[k] EXCEPT !.sent = TRUE] \in Messages
  BY <1>1 DEF Messages
<1> QED
  BY <1>1, <1>2, ExceptSeq

(* A sequence without its element k.                                       *)
Removed(s, k) == SubSeq(s, 1, k - 1) \o SubSeq(s, k + 1, Len(s))

(* The removal keeps the others in order.                                  *)
LEMMA RemovedType ==
  ASSUME NEW S, NEW s \in Seq(S), NEW k \in DOMAIN s
  PROVE  /\ Removed(s, k) \in Seq(S) /\ Len(Removed(s, k)) = Len(s) - 1
         /\ \A n \in 1 .. Len(s) - 1 :
              Removed(s, k)[n] = IF n < k THEN s[n] ELSE s[n + 1]
<1>1. /\ Len(s) \in Nat /\ DOMAIN s = 1 .. Len(s)
      /\ \A n \in 1 .. Len(s) : s[n] \in S
  BY LenProperties, ElementOfSeq
<1> DEFINE a == SubSeq(s, 1, k - 1)
           b == SubSeq(s, k + 1, Len(s))
<1>2. /\ a \in Seq(S) /\ Len(a) = k - 1
      /\ \A n \in 1 .. k - 1 : a[n] = s[n]
  <2>1. k - 1 \in Int /\ \A n \in 1 .. k - 1 : s[n] \in S
    BY <1>1
  <2>2. /\ a \in Seq(S)
        /\ Len(a) = IF 1 =< k - 1 THEN k - 1 - 1 + 1 ELSE 0
        /\ \A n \in 1 .. k - 1 - 1 + 1 : a[n] = s[1 + n - 1]
    BY <2>1, SubSeqProperties
  <2> QED
    BY <1>1, <2>2
<1>3. /\ b \in Seq(S) /\ Len(b) = Len(s) - k
      /\ \A n \in 1 .. Len(s) - k : b[n] = s[n + k]
  <2>1. /\ k + 1 \in Int
        /\ \A n \in k + 1 .. Len(s) : s[n] \in S
    BY <1>1
  <2>2. /\ b \in Seq(S)
        /\ Len(b) = IF k + 1 =< Len(s)
                    THEN Len(s) - (k + 1) + 1 ELSE 0
        /\ \A n \in 1 .. Len(s) - (k + 1) + 1 :
             b[n] = s[k + 1 + n - 1]
    BY <1>1, <2>1, SubSeqProperties
  <2>3. Len(s) - (k + 1) + 1 = Len(s) - k
    BY <1>1
  <2>4. Len(b) = Len(s) - k
    BY <1>1, <2>2
  <2>5. ASSUME NEW n \in 1 .. Len(s) - k
        PROVE  b[n] = s[n + k]
    <3>1. k + 1 + n - 1 = n + k
      BY <1>1
    <3> QED
      BY <2>2, <2>3, <3>1
  <2> HIDE DEF b
  <2> QED
    BY <2>2, <2>4, <2>5
<1> HIDE DEF a, b
<1>4. /\ a \o b \in Seq(S) /\ Len(a \o b) = Len(a) + Len(b)
      /\ \A n \in 1 .. Len(a) + Len(b) :
           (a \o b)[n] = IF n =< Len(a) THEN a[n] ELSE b[n - Len(a)]
  BY <1>2, <1>3, ConcatProperties
<1>5. Removed(s, k) = a \o b
  BY DEF Removed, a, b
<1>6. ASSUME NEW n \in 1 .. Len(s) - 1
      PROVE  Removed(s, k)[n] = IF n < k THEN s[n] ELSE s[n + 1]
  <2>1. Removed(s, k)[n] = IF n =< k - 1 THEN a[n] ELSE b[n - (k - 1)]
    <3>1. n \in 1 .. Len(a) + Len(b) /\ Len(a) = k - 1
      BY <1>1, <1>2, <1>3
    <3>2. (a \o b)[n] = IF n =< Len(a) THEN a[n] ELSE b[n - Len(a)]
      BY <1>4, <3>1
    <3> QED
      BY <1>5, <3>1, <3>2
  <2>2. CASE n < k
    BY <1>1, <1>2, <2>1, <2>2
  <2>3. CASE ~(n < k)
    <3>1. /\ n - (k - 1) \in 1 .. Len(s) - k
          /\ (n - (k - 1)) + k = n + 1
      BY <1>1, <2>3
    <3> QED
      BY <1>1, <1>3, <2>1, <2>3, <3>1
  <2> QED
    BY <2>2, <2>3
<1>7. Removed(s, k) \in Seq(S) /\ Len(Removed(s, k)) = Len(s) - 1
  <2>1. Len(a) + Len(b) = Len(s) - 1
    BY <1>1, <1>2, <1>3
  <2> QED
    BY <1>4, <1>5, <2>1
<1> QED
  BY <1>6, <1>7

(* What the broker holds after it let a command go.                        *)
LEMMA WithoutType ==
  ASSUME session \in Seq(Messages), NEW k \in DOMAIN session
  PROVE  /\ Without(k) \in Seq(Messages)
         /\ Len(Without(k)) = Len(session) - 1
         /\ \A n \in 1 .. Len(session) - 1 :
              Without(k)[n] = IF n < k THEN session[n] ELSE session[n + 1]
BY RemovedType DEF Without, Removed

-----------------------------------------------------------------------------
(* A step that leaves the session alone and only lets packets arrive, be   *)
(* lost or be taken keeps what relates the two.                            *)
LEMMA QuietStep ==
  ASSUME IInv, session' = session, acking' \in {acking, None},
         net' \in Seq(Packets), Thinned(net', net)
  PROVE  SessionInv' /\ NetInv' /\ OrderInv' /\ AckInv'
<1>1. SessionInv' /\ AckInv'
  BY DEF IInv, SessionInv, AckInv
<1>2. PICK d \in Nat : \A n \in DOMAIN net' :
        net'[n].type = "publish" =>
          n + d \in DOMAIN net /\ net'[n] = net[n + d]
  BY DEF Thinned
<1>3. NetInv'
  BY <1>2 DEF IInv, NetInv, Carries
<1>4. OrderInv'
  <2> SUFFICES ASSUME NEW m \in DOMAIN net', NEW n \in DOMAIN net',
                      NEW j \in DOMAIN session, NEW k \in DOMAIN session,
                      m < n, Carries(m, j)', Carries(n, k)'
               PROVE  j < k
    BY DEF OrderInv
  <2>1. /\ m + d \in DOMAIN net /\ Carries(m + d, j)
        /\ n + d \in DOMAIN net /\ Carries(n + d, k)
    BY <1>2 DEF Carries
  <2>2. m + d < n + d
    BY LenProperties
  <2> QED
    BY <2>1, <2>2 DEF IInv, OrderInv
<1> QED
  BY <1>1, <1>3, <1>4

(* The command at the head of net is one the broker holds.                 *)
LEMMA HeadHeld ==
  ASSUME IInv, net # <<>>, Head(net).type = "publish"
  PROVE  LET k == Place(Head(net).id) IN
         /\ k \in DOMAIN session /\ Carries(1, k) /\ session[k].sent
         /\ \A j \in DOMAIN session : k =< j => ~session[j].done
<1>1. 1 \in DOMAIN net /\ Head(net) = net[1]
  BY EmptySeq, LenProperties DEF IInv, SystemOK
<1>2. PICK k \in DOMAIN session :
        /\ Carries(1, k) /\ session[k].sent
        /\ \A j \in DOMAIN session : k =< j => ~session[j].done
  BY <1>1 DEF IInv, NetInv
<1>3. Place(Head(net).id) = k
  BY <1>1, <1>2 DEF Place, Carries, IInv, SessionInv
<1> QED
  BY <1>2, <1>3

(* The command being acknowledged is held and has taken effect.            *)
LEMMA AckedHeld ==
  ASSUME IInv, acking # None
  PROVE  LET k == Place(Confirmed) IN
         k \in DOMAIN session /\ session[k].id = acking /\ session[k].done
<1>1. PICK k \in DOMAIN session : session[k].id = acking /\ session[k].done
  BY DEF IInv, AckInv
<1>2. Place(Confirmed) = k
  BY <1>1 DEF Place, Confirmed, IInv, SessionInv
<1> QED
  BY <1>1, <1>2

-----------------------------------------------------------------------------
(* Taking a command: it takes effect after all that came before it.        *)
LEMMA TakeCommandStep ==
  ASSUME IInv, TakeCommand
  PROVE  /\ stat' \in Statuses /\ acking' \in Ids
         /\ net' \in Seq(Packets) /\ session' \in Seq(Messages)
         /\ SessionInv' /\ NetInv' /\ OrderInv' /\ AckInv'
<1> DEFINE k == Place(Head(net).id)
<1>1. /\ net # <<>> /\ Head(net).type = "publish" /\ net' = Tail(net)
      /\ stat' = Obeyed(stat, session[k].cmd)
      /\ session' = [session EXCEPT ![k].done = TRUE]
      /\ acking' = session[k].id
  BY DEF TakeCommand, Handle
<1>2. /\ k \in DOMAIN session /\ Carries(1, k) /\ session[k].sent
      /\ \A j \in DOMAIN session : k =< j => ~session[j].done
  BY <1>1, HeadHeld
<1> HIDE DEF k
<1>3. /\ session \in Seq(Messages) /\ net \in Seq(Packets) /\ stat \in Statuses
      /\ SessionInv /\ NetInv /\ OrderInv
  BY DEF IInv, SystemOK
<1>4. /\ session[k] \in Messages /\ session' \in Seq(Messages)
      /\ \A j \in DOMAIN session : j \in Nat /\ session[j] \in Messages
  <2>1. /\ session[k] \in Messages
        /\ [session EXCEPT ![k].done = TRUE] \in Seq(Messages)
    BY <1>2, <1>3, MessagesType
  <2>2. session' \in Seq(Messages)
    BY <1>1, <2>1 DEF k
  <2>3. \A j \in DOMAIN session : j \in Nat /\ session[j] \in Messages
    BY <1>3, LenProperties, ElementOfSeq
  <2> QED
    BY <2>1, <2>2, <2>3
<1>5. /\ DOMAIN session' = DOMAIN session
      /\ \A j \in DOMAIN session :
           /\ session'[j].id = session[j].id /\ session'[j].sent = session[j].sent
           /\ session'[j].done = IF j = k THEN TRUE ELSE session[j].done
  BY <1>1, <1>2, <1>4 DEF Messages
<1>6. stat' \in Statuses /\ acking' \in Ids
  BY <1>1, <1>3, <1>4, ObeyedType DEF Messages
<1>7. /\ net' \in Seq(Packets)
      /\ 1 \in DOMAIN net
      /\ \A n \in DOMAIN net' :
           n \in Nat \ {0} /\ n + 1 \in DOMAIN net /\ net'[n] = net[n + 1]
  <2>1. /\ Tail(net) \in Seq(Packets) /\ Len(Tail(net)) = Len(net) - 1
        /\ \A n \in 1 .. Len(Tail(net)) : Tail(net)[n] = net[n + 1]
    BY <1>1, <1>3, HeadTailProperties
  <2>2. /\ Len(net) \in Nat /\ DOMAIN net = 1 .. Len(net)
        /\ Len(Tail(net)) \in Nat /\ DOMAIN Tail(net) = 1 .. Len(Tail(net))
    BY <1>3, <2>1, LenProperties
  <2> QED
    BY <1>1, <2>1, <2>2
<1>8. SessionInv'
  <2> SUFFICES ASSUME NEW j \in DOMAIN session, NEW l \in DOMAIN session
               PROVE  /\ session'[j].id = session'[l].id => j = l
                      /\ j < l /\ session'[l].sent => session'[j].sent
                      /\ session'[l].done => session'[l].sent
    BY <1>5 DEF SessionInv
  <2>1. /\ session[j].id = session[l].id => j = l
        /\ j < l /\ session[l].sent => session[j].sent
        /\ session[l].done => session[l].sent
    BY <1>3 DEF SessionInv
  <2>2. session'[l].done => session'[l].sent
    BY <1>2, <1>5, <2>1
  <2> QED
    BY <1>5, <2>1, <2>2
<1>9. NetInv'
  <2> SUFFICES ASSUME NEW n \in DOMAIN net', net'[n].type = "publish"
               PROVE  \E l \in DOMAIN session' :
                        /\ Carries(n, l)' /\ session'[l].sent
                        /\ \A j \in DOMAIN session' : l =< j => ~session'[j].done
    BY DEF NetInv
  <2>1. /\ n \in Nat \ {0} /\ n + 1 \in DOMAIN net /\ net'[n] = net[n + 1]
    BY <1>7
  <2>2. PICK l \in DOMAIN session :
          /\ Carries(n + 1, l) /\ session[l].sent
          /\ \A j \in DOMAIN session : l =< j => ~session[j].done
    BY <1>3, <2>1 DEF NetInv
  <2>3. k < l
    <3>1. 1 < n + 1
      BY <2>1
    <3> QED
      BY <1>2, <1>3, <1>7, <2>1, <2>2, <3>1 DEF OrderInv
  <2>4. Carries(n, l)' /\ session'[l].sent
    BY <1>5, <2>1, <2>2 DEF Carries
  <2>5. ASSUME NEW j \in DOMAIN session', l =< j
        PROVE  ~session'[j].done
    <3>1. j \in DOMAIN session /\ ~session[j].done
      BY <1>5, <2>2, <2>5
    <3>2. j # k
      BY <1>2, <1>4, <2>3, <2>5, <3>1
    <3> QED
      BY <1>5, <3>1, <3>2
  <2> QED
    BY <1>5, <2>4, <2>5
<1>10. OrderInv'
  <2> SUFFICES ASSUME NEW m \in DOMAIN net', NEW n \in DOMAIN net',
                      NEW j \in DOMAIN session', NEW l \in DOMAIN session',
                      m < n, Carries(m, j)', Carries(n, l)'
               PROVE  j < l
    BY DEF OrderInv
  <2>1. /\ m + 1 \in DOMAIN net /\ Carries(m + 1, j)
        /\ n + 1 \in DOMAIN net /\ Carries(n + 1, l)
    BY <1>5, <1>7 DEF Carries
  <2>2. m + 1 < n + 1
    BY <1>7
  <2> QED
    BY <1>3, <1>5, <2>1, <2>2 DEF OrderInv
<1>11. AckInv'
  BY <1>1, <1>2, <1>5 DEF AckInv
<1> QED
  BY <1>4, <1>6, <1>7, <1>8, <1>9, <1>10, <1>11

(* Acknowledging it: what is under way was sent after it and moves up.     *)
LEMMA AckStep ==
  ASSUME IInv, Ack
  PROVE  /\ net' \in Seq(Packets) /\ session' \in Seq(Messages)
         /\ SessionInv' /\ NetInv' /\ OrderInv' /\ AckInv'
<1>1. /\ session \in Seq(Messages) /\ net \in Seq(Packets)
      /\ SessionInv /\ NetInv /\ OrderInv
  BY DEF IInv, SystemOK
<1>2. net' \in Seq(Packets) /\ Thinned(net', net)
  <2>1. Write(net, <<>>) /\ <<>> \in Seq(Packets) /\ DOMAIN <<>> = {}
    BY EmptySeq DEF Ack
  <2> QED
    BY <1>1, <2>1, WriteThins
<1>3. acking # None /\ acking' = None
  BY DEF Ack
<1>4. CASE session' = session
  BY <1>1, <1>2, <1>3, <1>4, QuietStep
<1>5. CASE session' = Without(Place(Confirmed))
  <2> DEFINE k == Place(Confirmed)
  <2>1. k \in DOMAIN session /\ session[k].done
    BY <1>3, AckedHeld
  <2> HIDE DEF k
  <2>2. /\ session' \in Seq(Messages) /\ Len(session') = Len(session) - 1
        /\ \A n \in 1 .. Len(session) - 1 :
             session'[n] = IF n < k THEN session[n] ELSE session[n + 1]
    BY <1>1, <1>5, <2>1, WithoutType DEF k
  <2>3. /\ Len(session) \in Nat /\ DOMAIN session = 1 .. Len(session)
        /\ DOMAIN session' = 1 .. Len(session) - 1 /\ k \in 1 .. Len(session)
    BY <1>1, <2>1, <2>2, LenProperties
  <2> DEFINE old(n) == IF n < k THEN n ELSE n + 1
  <2>4. /\ \A n \in DOMAIN session' :
             old(n) \in DOMAIN session /\ session'[n] = session[old(n)]
        /\ \A m, n \in DOMAIN session' : m < n <=> old(m) < old(n)
        /\ \A m, n \in DOMAIN session' : old(m) = old(n) => m = n
    BY <2>2, <2>3
  <2>5. \A j \in DOMAIN session :
          k < j => \E n \in DOMAIN session' : old(n) = j
    <3> SUFFICES ASSUME NEW j \in DOMAIN session, k < j
                 PROVE  j - 1 \in DOMAIN session' /\ old(j - 1) = j
      OBVIOUS
    <3> QED
      BY <2>3
  <2>6. \A m, n \in DOMAIN session' : m =< n <=> old(m) =< old(n)
    BY <2>3
  <2> HIDE DEF old
  <2>7. SessionInv'
    BY <1>1, <2>4 DEF SessionInv
  <2>8. PICK d \in Nat : \A n \in DOMAIN net' :
          net'[n].type = "publish" =>
            n + d \in DOMAIN net /\ net'[n] = net[n + d]
    BY <1>2 DEF Thinned
  <2>9. NetInv'
    <3> SUFFICES ASSUME NEW n \in DOMAIN net', net'[n].type = "publish"
                 PROVE  \E l \in DOMAIN session' :
                          /\ Carries(n, l)' /\ session'[l].sent
                          /\ \A j \in DOMAIN session' :
                               l =< j => ~session'[j].done
      BY DEF NetInv
    <3>1. PICK j \in DOMAIN session :
            /\ Carries(n + d, j) /\ session[j].sent
            /\ \A i \in DOMAIN session : j =< i => ~session[i].done
      BY <1>1, <2>8 DEF NetInv
    <3>2. k < j
      BY <2>1, <2>3, <3>1
    <3>3. PICK l \in DOMAIN session' : old(l) = j
      BY <2>5, <3>2
    <3>4. Carries(n, l)' /\ session'[l].sent
      BY <2>4, <2>8, <3>1, <3>3 DEF Carries
    <3>5. \A i \in DOMAIN session' : l =< i => ~session'[i].done
      BY <2>4, <2>6, <3>1, <3>3
    <3> QED
      BY <3>4, <3>5
  <2>10. OrderInv'
    <3> SUFFICES ASSUME NEW m \in DOMAIN net', NEW n \in DOMAIN net',
                        NEW j \in DOMAIN session', NEW l \in DOMAIN session',
                        m < n, Carries(m, j)', Carries(n, l)'
                 PROVE  j < l
      BY DEF OrderInv
    <3>1. /\ m + d \in DOMAIN net /\ Carries(m + d, old(j))
          /\ n + d \in DOMAIN net /\ Carries(n + d, old(l))
      BY <2>4, <2>8 DEF Carries
    <3>2. m + d < n + d
      BY <1>2, LenProperties
    <3>3. old(j) < old(l)
      BY <1>1, <2>4, <3>1, <3>2 DEF OrderInv
    <3> QED
      BY <2>4, <3>3
  <2> QED
    BY <1>2, <1>3, <2>2, <2>7, <2>9, <2>10 DEF AckInv
<1> QED
  BY <1>4, <1>5 DEF Ack

(* A new connection: nothing is sent yet and nothing has taken effect.     *)
LEMMA ConnectStep ==
  ASSUME IInv, Connect
  PROVE  /\ net' \in Seq(Packets) /\ session' \in Seq(Messages)
         /\ SessionInv' /\ NetInv' /\ OrderInv' /\ AckInv'
<1>1. /\ session \in Seq(Messages) /\ SessionInv
      /\ net' = <<Reply("connack")>> /\ acking' = None
      /\ session' = [k \in DOMAIN session |->
                       [session[k] EXCEPT !.sent = FALSE, !.done = FALSE]]
  BY DEF IInv, SystemOK, Connect, Free
<1>2. /\ net' \in Seq(Packets)
      /\ \A n \in DOMAIN net' : net'[n].type # "publish"
  BY <1>1, ReplyType DEF Replies
<1>3. /\ Len(session) \in Nat /\ DOMAIN session = 1 .. Len(session)
      /\ \A k \in DOMAIN session : session[k] \in Messages
  BY <1>1, LenProperties, ElementOfSeq
<1>4. \A k \in DOMAIN session :
        /\ [session[k] EXCEPT !.sent = FALSE, !.done = FALSE] \in Messages
        /\ session'[k].id = session[k].id
        /\ ~session'[k].sent /\ ~session'[k].done
  BY <1>1, <1>3 DEF Messages
<1>5. session' \in [1 .. Len(session) -> Messages]
  BY <1>1, <1>3, <1>4
<1>6. session' \in Seq(Messages)
  BY <1>3, <1>5, SeqDef
<1>7. SessionInv'
  <2>1. DOMAIN session' = DOMAIN session
    BY <1>1
  <2>2. \A j, k \in DOMAIN session :
          /\ session'[j].id = session'[k].id => j = k
          /\ ~session'[k].sent /\ ~session'[k].done
    <3>1. SessionInv
      BY DEF IInv
    <3>2. \A j, k \in DOMAIN session : session[j].id = session[k].id => j = k
      BY <3>1 DEF SessionInv
    <3> QED
      BY <1>4, <3>2
  <2> QED
    BY <2>1, <2>2 DEF SessionInv
<1>8. NetInv' /\ OrderInv' /\ AckInv'
  BY <1>1, <1>2 DEF NetInv, OrderInv, AckInv, Carries
<1> QED
  BY <1>2, <1>6, <1>7, <1>8

(* The broker accepts a command under a new identifier, after all others.  *)
LEMMA AcceptStep ==
  ASSUME IInv, NEW i \in Ids, NEW c \in Commands, Accept(i, c)
  PROVE  /\ session' \in Seq(Messages)
         /\ SessionInv' /\ NetInv' /\ OrderInv' /\ AckInv'
<1> DEFINE e == [id |-> i, cmd |-> c, sent |-> FALSE, done |-> FALSE]
<1>1. /\ session \in Seq(Messages) /\ SessionInv /\ NetInv /\ OrderInv /\ AckInv
      /\ session' = Append(session, e) /\ net' = net /\ acking' = acking
      /\ \A k \in DOMAIN session : session[k].id # i
  BY DEF IInv, SystemOK, Accept, HeldIds
<1>2. e \in Messages /\ e.id = i /\ ~e.sent /\ ~e.done
  BY DEF Messages
<1> HIDE DEF e
<1>3. /\ session' \in Seq(Messages)
      /\ Len(session) \in Nat /\ DOMAIN session = 1 .. Len(session)
      /\ DOMAIN session' = 1 .. Len(session) + 1
      /\ \A k \in 1 .. Len(session) : session'[k] = session[k]
      /\ session'[Len(session) + 1] = e
  BY <1>1, <1>2, LenProperties, AppendProperties
<1> DEFINE last == Len(session) + 1
<1>4. /\ DOMAIN session' = DOMAIN session \union {last}
      /\ last \notin DOMAIN session
      /\ \A k \in DOMAIN session : k < last /\ ~(last < k) /\ k \in Nat
      /\ ~(last < last)
  BY <1>3
<1>5. /\ \A k \in DOMAIN session : session'[k] = session[k]
      /\ session'[last] = e
  BY <1>3
<1> HIDE DEF last
<1>6. SessionInv'
  <2> SUFFICES ASSUME NEW j \in DOMAIN session', NEW k \in DOMAIN session'
               PROVE  /\ session'[j].id = session'[k].id => j = k
                      /\ j < k /\ session'[k].sent => session'[j].sent
                      /\ session'[k].done => session'[k].sent
    BY DEF SessionInv
  <2>1. CASE j \in DOMAIN session /\ k \in DOMAIN session
    BY <1>1, <1>5, <2>1 DEF SessionInv
  <2>2. CASE j = last \/ k = last
    BY <1>1, <1>2, <1>4, <1>5, <2>2 DEF SessionInv
  <2> QED
    BY <1>4, <2>1, <2>2
<1>7. ASSUME NEW n \in DOMAIN net, net[n].type = "publish"
      PROVE  \E k \in DOMAIN session :
               /\ Carries(n, k) /\ session[k].sent
               /\ \A j \in DOMAIN session : k =< j => ~session[j].done
  BY <1>1, <1>7 DEF NetInv
<1>8. NetInv'
  <2> SUFFICES ASSUME NEW n \in DOMAIN net, net[n].type = "publish"
               PROVE  \E k \in DOMAIN session' :
                        /\ Carries(n, k)' /\ session'[k].sent
                        /\ \A j \in DOMAIN session' : k =< j => ~session'[j].done
    BY <1>1 DEF NetInv
  <2>1. PICK k \in DOMAIN session :
          /\ Carries(n, k) /\ session[k].sent
          /\ \A j \in DOMAIN session : k =< j => ~session[j].done
    BY <1>7
  <2>2. Carries(n, k)' /\ session'[k].sent
    BY <1>1, <1>5, <2>1 DEF Carries
  <2>3. \A j \in DOMAIN session' : k =< j => ~session'[j].done
    BY <1>2, <1>4, <1>5, <2>1
  <2> QED
    BY <1>4, <2>2, <2>3
<1>9. ASSUME NEW n \in DOMAIN net, NEW k \in DOMAIN session', Carries(n, k)'
      PROVE  k \in DOMAIN session /\ Carries(n, k)
  <2>1. net[n].type = "publish" /\ net[n].id = session'[k].id
    BY <1>1, <1>9 DEF Carries
  <2>2. net[n].id # i
    BY <1>1, <1>7, <2>1 DEF Carries
  <2> QED
    BY <1>2, <1>4, <1>5, <2>1, <2>2 DEF Carries
<1>10. OrderInv'
  BY <1>1, <1>9 DEF OrderInv
<1>11. AckInv'
  BY <1>1, <1>4, <1>5 DEF AckInv
<1> QED
  BY <1>3, <1>6, <1>8, <1>10, <1>11

(* The broker sends the oldest command it has not sent.                    *)
LEMMA ForwardStep ==
  ASSUME IInv, NEW k \in DOMAIN session, Forward(k)
  PROVE  /\ net' \in Seq(Packets) /\ session' \in Seq(Messages)
         /\ SessionInv' /\ NetInv' /\ OrderInv' /\ AckInv'
<1> DEFINE p == [type |-> "publish", id |-> session[k].id]
<1>1. /\ session \in Seq(Messages) /\ net \in Seq(Packets)
      /\ SessionInv /\ NetInv /\ OrderInv /\ AckInv
      /\ ~session[k].sent /\ \A j \in 1 .. k - 1 : session[j].sent
      /\ net' = Append(net, p) /\ acking' = acking
      /\ session' = [session EXCEPT ![k].sent = TRUE]
  BY DEF IInv, SystemOK, Forward
<1>2. /\ session' \in Seq(Messages)
      /\ \A j \in DOMAIN session : j \in Nat \ {0} /\ session[j] \in Messages
  <2>1. [session EXCEPT ![k].sent = TRUE] \in Seq(Messages)
    BY <1>1, MessagesType
  <2>2. \A j \in DOMAIN session : j \in Nat \ {0} /\ session[j] \in Messages
    BY <1>1, LenProperties, ElementOfSeq
  <2> QED
    BY <1>1, <2>1, <2>2
<1>3. /\ DOMAIN session' = DOMAIN session
      /\ \A j \in DOMAIN session :
           /\ session'[j].id = session[j].id /\ session'[j].done = session[j].done
           /\ session'[j].sent = IF j = k THEN TRUE ELSE session[j].sent
  BY <1>1, <1>2 DEF Messages
<1>4. p \in Packets /\ p.type = "publish" /\ p.id = session[k].id
  BY <1>2 DEF Packets, Messages
<1> HIDE DEF p
<1> DEFINE last == Len(net) + 1
<1>5. /\ net' \in Seq(Packets)
      /\ DOMAIN net' = DOMAIN net \union {last} /\ last \notin DOMAIN net
      /\ \A n \in DOMAIN net : net'[n] = net[n] /\ ~(last < n)
      /\ net'[last] = p /\ ~(last < last)
  BY <1>1, <1>4, LenProperties, AppendProperties
<1> HIDE DEF last
<1>6. ASSUME NEW j \in DOMAIN session, j < k
      PROVE  session[j].sent
  <2>1. j \in Nat \ {0} /\ k \in Nat \ {0}
    BY <1>2
  <2>2. j \in 1 .. k - 1
    BY <1>6, <2>1
  <2> QED
    BY <1>1, <2>2
<1>7. \A j \in DOMAIN session : k =< j => ~session[j].sent /\ ~session[j].done
  <2> SUFFICES ASSUME NEW j \in DOMAIN session, k =< j
               PROVE  ~session[j].sent /\ ~session[j].done
    OBVIOUS
  <2>1. k < j \/ k = j
    BY <1>2
  <2>2. ~session[j].sent
    BY <1>1, <2>1 DEF SessionInv
  <2> QED
    BY <1>1, <2>2 DEF SessionInv
<1>8. SessionInv'
  <2> SUFFICES ASSUME NEW j \in DOMAIN session, NEW l \in DOMAIN session
               PROVE  /\ session'[j].id = session'[l].id => j = l
                      /\ j < l /\ session'[l].sent => session'[j].sent
                      /\ session'[l].done => session'[l].sent
    BY <1>3 DEF SessionInv
  <2>1. /\ session[j].id = session[l].id => j = l
        /\ j < l /\ session[l].sent => session[j].sent
        /\ session[l].done => session[l].sent
    BY <1>1 DEF SessionInv
  <2>2. j < l /\ session'[l].sent => session'[j].sent
    BY <1>3, <1>6, <2>1
  <2> QED
    BY <1>3, <2>1, <2>2
<1>9. NetInv'
  <2> SUFFICES ASSUME NEW n \in DOMAIN net', net'[n].type = "publish"
               PROVE  \E l \in DOMAIN session :
                        /\ Carries(n, l)' /\ session'[l].sent
                        /\ \A j \in DOMAIN session : l =< j => ~session'[j].done
    BY <1>3 DEF NetInv
  <2>1. CASE n \in DOMAIN net
    <3>1. PICK l \in DOMAIN session :
            /\ Carries(n, l) /\ session[l].sent
            /\ \A j \in DOMAIN session : l =< j => ~session[j].done
      BY <1>1, <1>5, <2>1 DEF NetInv
    <3> QED
      BY <1>3, <1>5, <2>1, <3>1 DEF Carries
  <2>2. CASE n = last
    BY <1>3, <1>4, <1>5, <1>7, <2>2 DEF Carries
  <2> QED
    BY <1>5, <2>1, <2>2
<1>10. OrderInv'
  <2> SUFFICES ASSUME NEW m \in DOMAIN net', NEW n \in DOMAIN net',
                      NEW j \in DOMAIN session, NEW l \in DOMAIN session,
                      m < n, Carries(m, j)', Carries(n, l)'
               PROVE  j < l
    BY <1>3 DEF OrderInv
  <2>1. m \in DOMAIN net /\ Carries(m, j)
    BY <1>3, <1>5 DEF Carries
  <2>2. CASE n \in DOMAIN net
    BY <1>1, <1>3, <1>5, <2>1, <2>2 DEF Carries, OrderInv
  <2>3. CASE n = last
    <3>1. l = k
      BY <1>1, <1>3, <1>4, <1>5, <2>3 DEF Carries, SessionInv
    <3>2. session[j].sent
      BY <1>1, <2>1 DEF NetInv, Carries, SessionInv
    <3>3. ~(k =< j)
      BY <1>7, <3>2
    <3> QED
      BY <1>2, <3>1, <3>3
  <2> QED
    BY <1>5, <2>2, <2>3
<1>11. AckInv'
  BY <1>1, <1>3 DEF AckInv
<1> QED
  BY <1>2, <1>5, <1>8, <1>9, <1>10, <1>11

-----------------------------------------------------------------------------
(* The steps of the thread and of the network that leave the session be.   *)
Quiet ==
  \/ Packet \/ Top \/ EndPass \/ \E d \in Devices : Report(d)
  \/ TimeoutConnect \/ Timeout \/ Ping
  \/ PeriodicTimeout \/ Restart \/ Drop \/ \E d \in Devices : ServerTakes(d)
  \/ UNCHANGED vars

(* They thin the packets under way.                                        *)
LEMMA QuietSteps ==
  ASSUME IInv, Quiet
  PROVE  /\ session' = session /\ acking' \in {acking, None}
         /\ net' \in Seq(Packets) /\ Thinned(net', net)
<1>1. net \in Seq(Packets)
  BY DEF IInv, SystemOK
<1>2. session' = session /\ acking' \in {acking, None}
  BY DEF Quiet, Packet, TakeOther, Subscribe, SayConnected, EnterLoop,
         Acknowledged, ReadSomething, Top, EndPass, Report, TimeoutConnect,
         Timeout, Ping, PeriodicTimeout, Restart, Drop, ServerTakes, vars, broker
<1> SUFFICES net' \in Seq(Packets) /\ Thinned(net', net)
  BY <1>2
<1>3. CASE net' = net
  BY <1>1, <1>3, SameThins
<1>4. CASE net # <<>> /\ net' = Tail(net)
  BY <1>1, <1>4, TailThins
<1>5. CASE net' = <<>>
  BY <1>5, EmptySeq DEF Thinned
<1>6. ASSUME NEW t \in Replies, net # <<>>, Write(Tail(net), <<Reply(t)>>)
      PROVE  net' \in Seq(Packets) /\ Thinned(net', net)
  <2>1. Tail(net) \in Seq(Packets) /\ Thinned(Tail(net), net)
    BY <1>1, <1>6, TailThins
  <2>2. net' \in Seq(Packets) /\ Thinned(net', Tail(net))
    BY <1>6, <2>1, ReplyType, WriteThins
  <2> QED
    BY <1>1, <2>1, <2>2, ThinnedTwice
<1>7. ASSUME NEW t \in Replies, Write(net, <<Reply(t)>>)
      PROVE  net' \in Seq(Packets) /\ Thinned(net', net)
  BY <1>1, <1>7, ReplyType, WriteThins
<1>8. ASSUME NEW k \in 0 .. Len(net), net' = SubSeq(net, 1, k)
      PROVE  net' \in Seq(Packets) /\ Thinned(net', net)
  <2>1. /\ Len(net) \in Nat /\ DOMAIN net = 1 .. Len(net)
        /\ \A n \in 1 .. k : net[n] \in Packets
    BY <1>1, LenProperties, ElementOfSeq
  <2>2. /\ net' \in Seq(Packets)
        /\ Len(net') = IF 1 =< k THEN k - 1 + 1 ELSE 0
        /\ \A n \in 1 .. k - 1 + 1 : net'[n] = net[1 + n - 1]
    BY <1>8, <2>1, SubSeqProperties
  <2>3. \A n \in 1 .. k : n + 0 \in DOMAIN net /\ net'[n] = net[n + 0]
    BY <2>1, <2>2
  <2>4. DOMAIN net' = 1 .. k
    <3>1. Len(net') = k
      BY <2>1, <2>2
    <3> QED
      BY <2>2, <3>1, LenProperties
  <2> QED
    BY <2>2, <2>3, <2>4 DEF Thinned
<1>9. CASE Subscribe \/ SayConnected
  BY <1>6, <1>9 DEF Subscribe, SayConnected, Arrives, Replies
<1>10. CASE Ping
  BY <1>7, <1>10 DEF Ping, Replies
<1>11. ASSUME NEW d \in Devices, Report(d)
       PROVE  net' \in Seq(Packets) /\ Thinned(net', net)
  BY <1>7, <1>11 DEF Report, Replies
<1>12. ASSUME NEW d \in Devices, ServerTakes(d)
       PROVE  net' \in Seq(Packets) /\ Thinned(net', net)
  BY <1>3, <1>12 DEF ServerTakes
<1>13. CASE TakeOther \/ EnterLoop \/ Acknowledged \/ ReadSomething
  BY <1>4, <1>13 DEF TakeOther, EnterLoop, Acknowledged, ReadSomething, Arrives
<1>14. CASE TimeoutConnect \/ Restart
  BY <1>5, <1>14 DEF TimeoutConnect, Restart
<1>15. CASE Drop
  BY <1>8, <1>15 DEF Drop
<1>16. CASE Top \/ EndPass \/ Timeout \/ PeriodicTimeout
  BY <1>3, <1>16 DEF Top, EndPass, Timeout, PeriodicTimeout
<1>17. CASE UNCHANGED vars
  BY <1>3, <1>17 DEF vars
<1>18. CASE Packet
  BY <1>9, <1>13, <1>18 DEF Packet
<1> QED
  BY <1>10, <1>14, <1>15, <1>16, <1>18, <1>11, <1>12, <1>17 DEF Quiet

(* The remaining variables keep their type.                                *)
Scalars ==
  /\ stat \in Statuses /\ pc \in Places /\ left \in 0 .. PassSize
  /\ acking \in Ids \union {None} /\ link \in BOOLEAN /\ uplink \subseteq Devices
  /\ late \in Nat

(* They do, and no report is left over from a pass that is over.           *)
LEMMA ScalarStep ==
  ASSUME IInv, [Next]_vars
  PROVE  Scalars' /\ PassInv'
<1> USE AppAssumption DEF IInv, SystemOK, PassInv, Scalars, Places, Loop, Waits
<1>1. CASE TakeCommand
  <2>1. stat' \in Statuses /\ acking' \in Ids
    BY <1>1, TakeCommandStep
  <2> QED
    BY <1>1, <2>1 DEF TakeCommand, broker
<1>2. CASE Ack
  BY <1>2 DEF Ack
<1>3. CASE Packet
  BY <1>3 DEF Packet, TakeOther, Subscribe, SayConnected, EnterLoop, Acknowledged,
              ReadSomething, broker, history
<1>4. CASE Top \/ EndPass
  BY <1>4 DEF Top, EndPass, broker, history, Statuses
<1>5. ASSUME NEW d \in Devices, Report(d)
      PROVE  Scalars' /\ PassInv'
  BY <1>5 DEF Report, Unreported
<1>6. CASE TimeoutConnect \/ Timeout \/ Ping
  BY <1>6 DEF TimeoutConnect, Timeout, Ping, GiveUp, broker, history
<1>7. CASE Connect
  <2>1. /\ pc' = "connack" /\ pc = "off" /\ link' = TRUE
        /\ UNCHANGED <<stat, left, acking, uplink, late>>
    BY <1>7 DEF Connect
  <2> QED
    BY <2>1
<1>8. CASE PeriodicTimeout
  BY <1>8 DEF PeriodicTimeout, broker, history, Statuses
<1>9. CASE Restart
  <2>1. /\ stat' = "closed" /\ pc' = "off" /\ left' = 0 /\ acking' = None
        /\ late' = 0 /\ uplink' = uplink
    BY <1>9 DEF Restart, broker
  <2>2. link' \in BOOLEAN
    BY <1>9, Zenon DEF Restart
  <2> QED
    BY <2>1, <2>2 DEF Statuses
<1>10. CASE Drop
  BY <1>10 DEF Drop, broker, history
<1>11. ASSUME NEW i \in Ids, NEW c \in Commands, Accept(i, c)
      PROVE  Scalars' /\ PassInv'
  BY <1>11 DEF Accept
<1>12. ASSUME NEW k \in DOMAIN session, Forward(k)
      PROVE  Scalars' /\ PassInv'
  BY <1>12 DEF Forward, history
<1>13. ASSUME NEW d \in Devices, ServerTakes(d)
       PROVE  Scalars' /\ PassInv'
  BY <1>13 DEF ServerTakes, history
<1>14. CASE UNCHANGED vars
  BY <1>14 DEF vars, broker, history
<1> QED
  BY <1>1, <1>2, <1>3, <1>4, <1>5, <1>6, <1>7, <1>11, <1>12, <1>13, <1>14,
     <1>8, <1>9, <1>10
     DEF Next, Door, Thread

-----------------------------------------------------------------------------
(* The invariant holds at the start.                                       *)
LEMMA InitIInv == Init => IInv
<1> SUFFICES ASSUME Init PROVE IInv
  OBVIOUS
<1>1. /\ stat \in Statuses /\ pc \in Places /\ left \in 0 .. PassSize
      /\ acking \in Ids \union {None} /\ link \in BOOLEAN /\ uplink \subseteq Devices
      /\ late \in Nat /\ PassInv
  <2>1. /\ stat = "closed" /\ pc = "off" /\ left = 0 /\ acking = None
        /\ late = 0 /\ uplink = {}
    BY DEF Init
  <2>2. link \in BOOLEAN
    BY Zenon DEF Init
  <2> QED
    BY <2>1, <2>2, AppAssumption DEF PassInv, Statuses, Places, Loop, Waits
<1>2. net \in Seq(Packets) /\ session \in Seq(Messages)
  BY EmptySeq DEF Init
<1>3. SessionInv /\ NetInv /\ OrderInv /\ AckInv
  BY DEF Init, SessionInv, NetInv, OrderInv, AckInv
<1> QED
  BY <1>1, <1>3, <1>2 DEF IInv, SystemOK

(* Every step keeps it.                                                    *)
LEMMA StepIInv == IInv /\ [Next]_vars => IInv'
<1> SUFFICES ASSUME IInv, [Next]_vars PROVE IInv'
  OBVIOUS
<1>1. Scalars' /\ PassInv'
  BY ScalarStep
<1> DEFINE Others == /\ net' \in Seq(Packets) /\ session' \in Seq(Messages)
                     /\ SessionInv' /\ NetInv' /\ OrderInv' /\ AckInv'
<1>2. net \in Seq(Packets) /\ session \in Seq(Messages)
  BY DEF IInv, SystemOK
<1> SUFFICES Others
  BY <1>1 DEF Scalars, IInv, SystemOK
<1>3. CASE TakeCommand
  BY <1>3, TakeCommandStep
<1>4. CASE Ack
  BY <1>4, AckStep
<1>5. CASE Connect
  BY <1>5, ConnectStep
<1>6. ASSUME NEW i \in Ids, NEW c \in Commands, Accept(i, c)
      PROVE  Others
  BY <1>2, <1>6, AcceptStep DEF Accept
<1>7. ASSUME NEW k \in DOMAIN session, Forward(k)
      PROVE  Others
  BY <1>7, ForwardStep
<1>8. CASE Quiet
  BY <1>2, <1>8, QuietSteps, QuietStep
<1>9. \/ TakeCommand \/ Ack \/ Connect \/ Quiet
      \/ \E i \in Ids, c \in Commands : Accept(i, c)
      \/ \E k \in DOMAIN session : Forward(k)
  BY DEF Next, Door, Thread, Quiet
<1> HIDE DEF Others
<1> QED
  BY <1>3, <1>4, <1>5, <1>6, <1>7, <1>8, <1>9

(* The broker sends the commands in order, those under way keep it, and    *)
(* one that is being acknowledged has taken effect, over all time-outs,    *)
(* flushes, lost connections and restarts.                                 *)
THEOREM Invariance == Spec => []IInv
BY InitIInv, StepIInv, PTL DEF Spec

(* A pass that a lock interrupts ends with fewer reports than it has       *)
(* slots, and no other pass begins while the door is locked.               *)
THEOREM LockSilenced == Spec => []LockSilences
<1>1. IInv => LockSilences
  BY AppAssumption DEF IInv, SystemOK, PassInv, LockSilences
<1> QED
  BY <1>1, Invariance, PTL

-----------------------------------------------------------------------------
(* A nonempty set of numbers has a least element.                          *)
LEMMA Least ==
  ASSUME NEW T \in SUBSET Nat, T # {}
  PROVE  \E m \in T : \A k \in T : m =< k
<1> DEFINE R == OpToRel(<, Nat)
<1>1. IsWellFoundedOn(R, Nat)
  BY NatLessThanWellFounded
<1>2. \A x, y \in Nat : <<x, y>> \in R <=> x < y
  BY DEF OpToRel
<1> HIDE DEF R
<1>3. PICK m \in T : \A k \in T : ~(<<k, m>> \in R)
  BY <1>1, WFMin, T \subseteq Nat
<1>4. ASSUME NEW k \in T
      PROVE  m =< k
  <2>1. m \in Nat /\ k \in Nat
    OBVIOUS
  <2>2. ~(k < m)
    BY <1>2, <1>3, <2>1
  <2> QED
    BY <2>1, <2>2
<1> QED
  BY <1>4

(* Induction: a set of numbers that starts at 0 and is closed up to n.     *)
LEMMA Induct ==
  ASSUME NEW n \in Nat, NEW S, 0 \in S,
         \A k \in 1 .. n : k - 1 \in S => k \in S
  PROVE  \A k \in 0 .. n : k \in S
<1> DEFINE T == {k \in 0 .. n : k \notin S}
<1> SUFFICES ASSUME T # {} PROVE FALSE
  OBVIOUS
<1>1. T \in SUBSET Nat
  OBVIOUS
<1>2. PICK m \in T : \A k \in T : m =< k
  BY <1>1, Least
<1>3. m # 0 /\ m \in 1 .. n /\ m - 1 \in 0 .. n
  OBVIOUS
<1>4. m - 1 \notin T
  BY <1>2, <1>3
<1> QED
  BY <1>2, <1>3, <1>4

(* What the command k of q makes of x.                                     *)
Step(q, k, x) == IF q[k].done THEN x ELSE After(x, q[k].cmd)

(* No opening, again.                                                      *)
LEMMA StepType ==
  ASSUME NEW q \in Seq(Messages), NEW k \in DOMAIN q, NEW x \in Plain
  PROVE  Step(q, k, x) \in Plain
<1>1. q[k].cmd \in Commands
  <2>1. q[k] \in Messages
    BY ElementOfSeq, LenProperties
  <2> QED
    BY <2>1 DEF Messages
<1>2. \A c \in Commands : After(x, c) \in Plain
  BY DEF After, Settled, Obeyed, Branch, Ignored, Plain, Statuses, Commands
<1> QED
  BY <1>1, <1>2 DEF Step

(* f is a course of q from s on.                                           *)
Courses(s, q, f) ==
  f = [k \in 0 .. Len(q) |->
         IF k = 0 THEN s
         ELSE IF q[k].done THEN f[k - 1] ELSE After(f[k - 1], q[k].cmd)]

(* There is one, by induction over its length.                             *)
LEMMA CourseExists ==
  ASSUME NEW s \in Plain, NEW q \in Seq(Messages)
  PROVE  \E f : Courses(s, q, f)
<1>1. Len(q) \in Nat /\ DOMAIN q = 1 .. Len(q)
  BY LenProperties
<1> DEFINE Good(n, f) == f[0] = s /\ \A k \in 1 .. n : f[k] = Step(q, k, f[k - 1])
           S == {n \in 0 .. Len(q) : \E f \in [0 .. n -> Plain] : Good(n, f)}
<1>2. 0 \in S
  <2> DEFINE f == [k \in 0 .. 0 |-> s]
  <2>1. f \in [0 .. 0 -> Plain] /\ Good(0, f)
    OBVIOUS
  <2>2. \E h \in [0 .. 0 -> Plain] : Good(0, h)
    BY <2>1
  <2> HIDE DEF f, Good
  <2>3. 0 \in 0 .. Len(q)
    BY <1>1
  <2> QED
    BY <2>2, <2>3
<1>3. ASSUME NEW n \in 1 .. Len(q), n - 1 \in S
      PROVE  n \in S
  <2>1. PICK f \in [0 .. n - 1 -> Plain] : Good(n - 1, f)
    BY <1>3
  <2> DEFINE g == [k \in 0 .. n |-> IF k = n THEN Step(q, n, f[n - 1]) ELSE f[k]]
  <2>2. Step(q, n, f[n - 1]) \in Plain
    BY <1>1, StepType
  <2>3. g \in [0 .. n -> Plain]
    BY <2>2
  <2>4. g[0] = s
    BY <2>1
  <2>5. ASSUME NEW k \in 1 .. n PROVE g[k] = Step(q, k, g[k - 1])
    <3>1. k - 1 \in 0 .. n - 1 /\ g[k - 1] = f[k - 1]
      OBVIOUS
    <3>2. CASE k = n
      BY <3>1, <3>2
    <3>3. CASE k # n
      BY <2>1, <3>1, <3>3
    <3> QED
      BY <3>2, <3>3
  <2> HIDE DEF g
  <2> QED
    BY <2>3, <2>4, <2>5
<1>4. Len(q) \in S
  <2> HIDE DEF S
  <2>1. \A n \in 1 .. Len(q) : n - 1 \in S => n \in S
    BY <1>3
  <2>2. \A n \in 0 .. Len(q) : n \in S
    BY <1>1, <1>2, <2>1, Induct
  <2> QED
    BY <1>1, <2>2
<1>5. PICK f \in [0 .. Len(q) -> Plain] : Good(Len(q), f)
  BY <1>4
<1>6. \A k \in 0 .. Len(q) :
        f[k] = IF k = 0 THEN s ELSE
               IF q[k].done THEN f[k - 1] ELSE After(f[k - 1], q[k].cmd)
  BY <1>1, <1>5 DEF Step
<1>7. Courses(s, q, f)
  BY <1>5, <1>6 DEF Courses
<1> QED
  BY <1>7

(* The course of q begins with s and follows its commands.                 *)
LEMMA CourseSteps ==
  ASSUME NEW s \in Plain, NEW q \in Seq(Messages)
  PROVE  /\ Course(s, q)[0] = s
         /\ \A k \in 1 .. Len(q) :
              Course(s, q)[k] = Step(q, k, Course(s, q)[k - 1])
<1>1. Course(s, q) = CHOOSE f : Courses(s, q, f)
  BY DEF Course, Courses
<1>2. Courses(s, q, Course(s, q))
  BY <1>1, CourseExists
<1>3. Len(q) \in Nat
  BY LenProperties
<1> QED
  BY <1>2, <1>3 DEF Courses, Step

(* Every status on the way is one without an opening.                      *)
LEMMA CourseType ==
  ASSUME NEW s \in Plain, NEW q \in Seq(Messages)
  PROVE  \A k \in 0 .. Len(q) : Course(s, q)[k] \in Plain
<1> DEFINE S == {k \in 0 .. Len(q) : Course(s, q)[k] \in Plain}
<1>1. Len(q) \in Nat /\ DOMAIN q = 1 .. Len(q)
  BY LenProperties
<1>2. 0 \in S
  BY <1>1, CourseSteps
<1>3. ASSUME NEW k \in 1 .. Len(q), k - 1 \in S
      PROVE  k \in S
  <2>1. k \in DOMAIN q /\ Course(s, q)[k - 1] \in Plain
    BY <1>1, <1>3
  <2>2. Course(s, q)[k] = Step(q, k, Course(s, q)[k - 1])
    BY CourseSteps
  <2>3. Course(s, q)[k] \in Plain
    BY <2>1, <2>2, StepType
  <2> QED
    BY <1>1, <2>3
<1> HIDE DEF S
<1>4. \A k \in 0 .. Len(q) : k \in S
  BY <1>1, <1>2, <1>3, Induct
<1> QED
  BY <1>4 DEF S

(* Commands that have taken effect are passed over.                        *)
LEMMA CoursePasses ==
  ASSUME NEW s \in Plain, NEW q \in Seq(Messages), NEW m \in 0 .. Len(q),
         \A k \in 1 .. m : q[k].done
  PROVE  Course(s, q)[m] = s
<1> DEFINE S == {k \in 0 .. m : Course(s, q)[k] = s}
<1>1. Len(q) \in Nat /\ m \in Nat
  BY LenProperties
<1>2. 0 \in S
  BY <1>1, CourseSteps
<1>3. ASSUME NEW k \in 1 .. m, k - 1 \in S
      PROVE  k \in S
  <2>1. k \in 1 .. Len(q) /\ k \in 0 .. m
    BY <1>1
  <2>2. Course(s, q)[k] = Step(q, k, Course(s, q)[k - 1])
    BY <2>1, CourseSteps
  <2> QED
    BY <1>3, <2>1, <2>2 DEF Step
<1> HIDE DEF S
<1>4. \A k \in 0 .. m : k \in S
  BY <1>1, <1>2, <1>3, Induct
<1> QED
  BY <1>1, <1>4 DEF S

(* The n commands of q after a are those of r after b.                     *)
Alike(q, a, r, b, n) ==
  /\ a + n =< Len(q) /\ b + n =< Len(r)
  /\ \A i \in 1 .. n : /\ q[a + i].cmd = r[b + i].cmd
                       /\ q[a + i].done = r[b + i].done

(* Two courses that meet and have the same commands ahead stay together.   *)
LEMMA CoursesMeet ==
  ASSUME NEW s \in Plain, NEW q \in Seq(Messages), NEW a \in Nat,
         NEW t \in Plain, NEW r \in Seq(Messages), NEW b \in Nat,
         NEW n \in Nat, Alike(q, a, r, b, n),
         Course(s, q)[a] = Course(t, r)[b]
  PROVE  Course(s, q)[a + n] = Course(t, r)[b + n]
<1> DEFINE S == {i \in 0 .. n : Course(s, q)[a + i] = Course(t, r)[b + i]}
<1>1. Len(q) \in Nat /\ Len(r) \in Nat
  BY LenProperties
<1>2. 0 \in S
  BY <1>1
<1>3. ASSUME NEW i \in 1 .. n, i - 1 \in S
      PROVE  i \in S
  <2>1. /\ a + i \in 1 .. Len(q) /\ (a + i) - 1 = a + (i - 1)
        /\ b + i \in 1 .. Len(r) /\ (b + i) - 1 = b + (i - 1)
    BY <1>1 DEF Alike
  <2>2. /\ Course(s, q)[a + i] = Step(q, a + i, Course(s, q)[(a + i) - 1])
        /\ Course(t, r)[b + i] = Step(r, b + i, Course(t, r)[(b + i) - 1])
    BY <2>1, CourseSteps
  <2>3. Course(s, q)[a + (i - 1)] = Course(t, r)[b + (i - 1)]
    BY <1>3
  <2>4. Course(s, q)[a + i] = Course(t, r)[b + i]
    BY <2>1, <2>2, <2>3 DEF Step, Alike
  <2> QED
    BY <2>4
<1> HIDE DEF S
<1>4. \A i \in 0 .. n : i \in S
  BY <1>2, <1>3, Induct
<1> QED
  BY <1>4 DEF S

(* What a command does to a status without an opening: open_door opens     *)
(* what is not locked, any other command leaves nothing of what was.       *)
LEMMA AfterKind ==
  /\ \A x \in Plain : /\ After(x, "open_door") \in Plain
                      /\ After(After(x, "open_door"), "open_door") =
                         After(x, "open_door")
  /\ \A c \in Commands \ {"open_door"}, x, y \in Plain : After(x, c) = After(y, c)
BY DEF After, Settled, Obeyed, Branch, Ignored, Plain, Statuses, Commands

(* So the commands up to k lead to one status from wherever they start, or *)
(* all of them open the door.                                              *)
Forgets(q, k) == \A x, y \in Plain : Course(x, q)[k] = Course(y, q)[k]
Opens(q, k) ==
  /\ \A j \in 1 .. k : ~q[j].done => q[j].cmd = "open_door"
  /\ \A x \in Plain : Course(x, q)[k] = IF \A j \in 1 .. k : q[j].done
                                        THEN x ELSE After(x, "open_door")

(* By induction over k.                                                    *)
LEMMA CourseKind ==
  ASSUME NEW q \in Seq(Messages)
  PROVE  \A k \in 0 .. Len(q) : Forgets(q, k) \/ Opens(q, k)
<1> DEFINE S == {k \in 0 .. Len(q) : Forgets(q, k) \/ Opens(q, k)}
<1>1. Len(q) \in Nat /\ DOMAIN q = 1 .. Len(q)
  BY LenProperties
<1>2. 0 \in S
  <2>1. \A x \in Plain : Course(x, q)[0] = x
    BY CourseSteps
  <2>2. Opens(q, 0)
    BY <2>1 DEF Opens
  <2> QED
    BY <1>1, <2>2
<1>3. ASSUME NEW k \in 1 .. Len(q), k - 1 \in S
      PROVE  k \in S
  <2>1. \A x \in Plain : Course(x, q)[k] = Step(q, k, Course(x, q)[k - 1])
    BY CourseSteps
  <2>2. \A x \in Plain : Course(x, q)[k - 1] \in Plain
    BY <1>1, CourseType
  <2>3. q[k].cmd \in Commands
    <3>1. q[k] \in Messages
      BY <1>1, ElementOfSeq
    <3> QED
      BY <3>1 DEF Messages
  <2>4. CASE Forgets(q, k - 1)
    BY <2>1, <2>4 DEF Forgets, Step
  <2>5. CASE ~q[k].done /\ q[k].cmd # "open_door"
    BY <2>1, <2>2, <2>3, <2>5, AfterKind DEF Forgets, Step
  <2>6. CASE Opens(q, k - 1) /\ (q[k].done \/ q[k].cmd = "open_door")
    <3>1. \A j \in 1 .. k : j \in 1 .. k - 1 \/ j = k
      BY <1>1
    <3>2. \A j \in 1 .. k - 1 : j \in 1 .. k
      BY <1>1
    <3>3. \A j \in 1 .. k : ~q[j].done => q[j].cmd = "open_door"
      BY <2>6, <3>1 DEF Opens
    <3>4. ASSUME NEW x \in Plain
          PROVE  Course(x, q)[k] = IF \A j \in 1 .. k : q[j].done
                                   THEN x ELSE After(x, "open_door")
      <4>1. /\ Course(x, q)[k] = Step(q, k, Course(x, q)[k - 1])
            /\ Course(x, q)[k - 1] = IF \A j \in 1 .. k - 1 : q[j].done
                                     THEN x ELSE After(x, "open_door")
        BY <2>1, <2>6 DEF Opens
      <4>2. CASE q[k].done
        <5>1. (\A j \in 1 .. k : q[j].done) <=> \A j \in 1 .. k - 1 : q[j].done
          BY <3>1, <3>2, <4>2
        <5> QED
          BY <4>1, <4>2, <5>1 DEF Step
      <4>3. CASE ~q[k].done
        <5>1. ~\A j \in 1 .. k : q[j].done
          BY <4>3
        <5>2. Course(x, q)[k] = After(Course(x, q)[k - 1], "open_door")
          BY <2>6, <4>1, <4>3 DEF Step
        <5> QED
          BY <4>1, <5>1, <5>2, AfterKind
      <4> QED
        BY <4>2, <4>3
    <3> QED
      BY <1>1, <3>3, <3>4 DEF Opens
  <2> QED
    BY <1>1, <1>3, <2>4, <2>5, <2>6
<1> HIDE DEF S
<1>4. \A k \in 0 .. Len(q) : k \in S
  BY <1>1, <1>2, <1>3, Induct
<1> QED
  BY <1>4 DEF S

-----------------------------------------------------------------------------
(* The same commands make the same of a status.                            *)
LEMMA AmountSame ==
  ASSUME NEW s \in Plain, NEW q \in Seq(Messages), NEW r \in Seq(Messages),
         Len(r) = Len(q),
         \A k \in 1 .. Len(q) : q[k].cmd = r[k].cmd /\ q[k].done = r[k].done
  PROVE  Amount(s, q) = Amount(s, r)
<1>1. Len(q) \in Nat /\ 0 \in Nat
  BY LenProperties
<1>2. Course(s, q)[0] = Course(s, r)[0]
  BY CourseSteps
<1>3. Course(s, q)[0 + Len(q)] = Course(s, r)[0 + Len(q)]
  <2>1. Alike(q, 0, r, 0, Len(q))
    BY <1>1 DEF Alike
  <2> QED
    BY <1>1, <1>2, <2>1, CoursesMeet
<1> QED
  BY <1>1, <1>3 DEF Amount

(* What the commands make of a status has no opening.                      *)
LEMMA AmountType ==
  ASSUME NEW s \in Plain, NEW q \in Seq(Messages)
  PROVE  Amount(s, q) \in Plain
<1>1. Len(q) \in 0 .. Len(q)
  BY LenProperties
<1> QED
  BY <1>1, CourseType DEF Amount

(* One more command comes after the others.                                *)
LEMMA AmountAppend ==
  ASSUME NEW s \in Plain, NEW q \in Seq(Messages), NEW e \in Messages, ~e.done
  PROVE  Amount(s, Append(q, e)) = After(Amount(s, q), e.cmd)
<1> DEFINE r == Append(q, e)
<1>1. /\ r \in Seq(Messages) /\ Len(r) = Len(q) + 1 /\ Len(q) \in Nat
      /\ \A k \in 1 .. Len(q) : r[k] = q[k]
      /\ r[Len(q) + 1] = e
  BY AppendProperties, LenProperties
<1> HIDE DEF r
<1>2. Course(s, q)[0] = Course(s, r)[0]
  BY <1>1, CourseSteps
<1>3. Course(s, q)[0 + Len(q)] = Course(s, r)[0 + Len(q)]
  <2>1. Alike(q, 0, r, 0, Len(q))
    BY <1>1 DEF Alike
  <2> QED
    BY <1>1, <1>2, <2>1, CoursesMeet
<1>4. Course(s, r)[Len(r)] = Step(r, Len(r), Course(s, r)[Len(r) - 1])
  BY <1>1, CourseSteps
<1>5. Course(s, r)[Len(r) - 1] = Course(s, q)[Len(q)]
  BY <1>1, <1>3
<1>6. Amount(s, r) = After(Amount(s, q), e.cmd)
  BY <1>1, <1>4, <1>5 DEF Amount, Step
<1> QED
  BY <1>6 DEF r

(* A first command that has taken effect can be left out.                  *)
LEMMA AmountRest ==
  ASSUME NEW s \in Plain, NEW q \in Seq(Messages), NEW r \in Seq(Messages),
         Len(q) = Len(r) + 1, q[1].done,
         \A k \in 1 .. Len(r) : q[k + 1].cmd = r[k].cmd /\ q[k + 1].done = r[k].done
  PROVE  Amount(s, q) = Amount(s, r)
<1>1. Len(r) \in Nat /\ 0 \in Nat /\ 1 \in 0 .. Len(q) /\ 1 \in Nat
  BY LenProperties
<1>2. Course(s, q)[1] = Course(s, r)[0]
  <2>1. Course(s, q)[1] = s
    <3>1. \A k \in 1 .. 1 : q[k].done
      OBVIOUS
    <3> QED
      BY <1>1, <3>1, CoursePasses
  <2> QED
    BY <2>1, CourseSteps
<1>3. Course(s, q)[1 + Len(r)] = Course(s, r)[0 + Len(r)]
  <2>1. Alike(q, 1, r, 0, Len(r))
    <3>1. \A i \in 1 .. Len(r) : 1 + i = i + 1 /\ 0 + i = i
      BY <1>1
    <3>2. 1 + Len(r) =< Len(q) /\ 0 + Len(r) =< Len(r)
      BY <1>1
    <3> QED
      BY <3>1, <3>2 DEF Alike
  <2> QED
    BY <1>1, <1>2, <2>1, CoursesMeet
<1>4. 1 + Len(r) = Len(q) /\ 0 + Len(r) = Len(r)
  BY <1>1
<1> QED
  BY <1>3, <1>4 DEF Amount

(* The first command of q that has not taken effect, k, has in r.          *)
TakesNext(q, r, k) ==
  /\ Len(r) = Len(q) /\ k \in 1 .. Len(q)
  /\ \A j \in 1 .. k - 1 : q[j].done
  /\ ~q[k].done /\ r[k].done
  /\ \A j \in 1 .. Len(q) :
       q[j].cmd = r[j].cmd /\ (j # k => q[j].done = r[j].done)

(* That makes no difference to what the commands amount to.                *)
LEMMA AmountTaken ==
  ASSUME NEW s \in Plain, NEW q \in Seq(Messages), NEW r \in Seq(Messages),
         NEW k, TakesNext(q, r, k)
  PROVE  Amount(After(s, q[k].cmd), r) = Amount(s, q)
<1> USE DEF TakesNext
<1> DEFINE t == After(s, q[k].cmd)
<1>1. Len(q) \in Nat /\ k \in Nat /\ DOMAIN q = 1 .. Len(q)
  BY LenProperties
<1>2. t \in Plain
  BY <1>1, StepType DEF Step
<1>3. Course(s, q)[k] = t
  <2>1. Course(s, q)[k] = Step(q, k, Course(s, q)[k - 1])
    BY CourseSteps
  <2>2. Course(s, q)[k - 1] = s
    <3>1. k - 1 \in 0 .. Len(q)
      BY <1>1
    <3>2. \A j \in 1 .. k - 1 : q[j].done
      OBVIOUS
    <3> HIDE DEF TakesNext
    <3> QED
      BY <3>1, <3>2, CoursePasses
  <2> QED
    BY <2>1, <2>2 DEF Step
<1> HIDE DEF t
<1>4. Course(t, r)[k] = t
  <2>1. k \in 0 .. Len(r)
    BY <1>1
  <2>2. \A j \in 1 .. k : r[j].done
    <3>1. \A j \in 1 .. k : j \in 1 .. Len(q) /\ (j = k \/ j \in 1 .. k - 1)
      BY <1>1
    <3>2. ASSUME NEW j \in 1 .. k
          PROVE  r[j].done
      <4>1. j \in 1 .. Len(q) /\ (j = k \/ j \in 1 .. k - 1)
        BY <3>1
      <4>2. CASE j = k
        BY <4>2
      <4>3. CASE j # k
        BY <4>1, <4>3
      <4> QED
        BY <4>2, <4>3
    <3> QED
      BY <3>2
  <2> QED
    BY <1>2, <2>1, <2>2, CoursePasses
<1> DEFINE n == Len(q) - k
<1>5. /\ n \in Nat /\ k + n =< Len(q) /\ k + n =< Len(r)
      /\ k + n = Len(q) /\ k + n = Len(r)
  BY <1>1
<1>6. Alike(q, k, r, k, n)
  <2>1. \A i \in 1 .. n : k + i \in 1 .. Len(q) /\ k + i # k
    BY <1>1
  <2> HIDE DEF n
  <2> QED
    BY <1>5, <2>1 DEF Alike
<1> HIDE DEF n
<1>7. Course(s, q)[k + n] = Course(t, r)[k + n]
  BY <1>1, <1>2, <1>3, <1>4, <1>5, <1>6, CoursesMeet
<1>8. Amount(t, r) = Amount(s, q)
  BY <1>5, <1>7 DEF Amount
<1> QED
  BY <1>8 DEF t

(* To repeat all commands leads to the same status after one of them.      *)
LEMMA AmountRepeated ==
  ASSUME NEW s \in Plain, NEW q \in Seq(Messages), NEW k \in 1 .. Len(q),
         ~q[k].done
  PROVE  Amount(After(s, q[k].cmd), q) = Amount(s, q)
<1>1. Len(q) \in 0 .. Len(q) /\ DOMAIN q = 1 .. Len(q)
  BY LenProperties
<1>2. After(s, q[k].cmd) \in Plain
  BY <1>1, StepType DEF Step
<1>3. CASE Forgets(q, Len(q))
  BY <1>2, <1>3 DEF Forgets, Amount
<1>4. CASE Opens(q, Len(q))
  <2>1. /\ q[k].cmd = "open_door"
        /\ \A x \in Plain : Course(x, q)[Len(q)] = After(x, "open_door")
    BY <1>4 DEF Opens
  <2> QED
    BY <1>2, <2>1, AfterKind DEF Amount
<1> QED
  BY <1>1, <1>3, <1>4, CourseKind

-----------------------------------------------------------------------------
(* The commands of q with their marks taken off.                           *)
LEMMA UnmarkedType ==
  ASSUME NEW q \in Seq(Messages)
  PROVE  /\ Unmarked(q) \in Seq(Messages) /\ Len(Unmarked(q)) = Len(q)
         /\ Len(q) \in Nat /\ DOMAIN q = 1 .. Len(q)
         /\ \A k \in 1 .. Len(q) :
              Unmarked(q)[k].cmd = q[k].cmd /\ ~Unmarked(q)[k].done
<1>1. /\ Len(q) \in Nat /\ DOMAIN q = 1 .. Len(q)
      /\ \A k \in 1 .. Len(q) : q[k] \in Messages
  BY LenProperties, ElementOfSeq
<1>2. \A k \in 1 .. Len(q) : [q[k] EXCEPT !.done = FALSE] \in Messages
  BY <1>1 DEF Messages
<1>3. Unmarked(q) \in [1 .. Len(q) -> Messages]
  BY <1>1, <1>2 DEF Unmarked
<1>4. Unmarked(q) \in Seq(Messages)
  BY <1>1, <1>3, SeqDef
<1>5. Len(Unmarked(q)) = Len(q)
  BY <1>1, <1>3, <1>4, LenProperties
<1>6. \A k \in 1 .. Len(q) : /\ Unmarked(q)[k].cmd = q[k].cmd
                             /\ ~Unmarked(q)[k].done
  BY <1>1 DEF Unmarked, Messages
<1> QED
  BY <1>1, <1>4, <1>5, <1>6

(* The same commands, whatever their marks, are the same without them.     *)
LEMMA UnmarkedSame ==
  ASSUME NEW s \in Plain, NEW q \in Seq(Messages), NEW r \in Seq(Messages),
         Len(r) = Len(q), \A k \in 1 .. Len(q) : q[k].cmd = r[k].cmd
  PROVE  /\ Amount(s, Unmarked(q)) = Amount(s, Unmarked(r))
         /\ (\A k \in 1 .. Len(q) : ~r[k].done) =>
               Amount(s, Unmarked(q)) = Amount(s, r)
<1>1. /\ Unmarked(q) \in Seq(Messages) /\ Len(Unmarked(q)) = Len(q)
      /\ \A k \in 1 .. Len(q) :
           Unmarked(q)[k].cmd = q[k].cmd /\ ~Unmarked(q)[k].done
  BY UnmarkedType
<1>2. /\ Unmarked(r) \in Seq(Messages) /\ Len(Unmarked(r)) = Len(q)
      /\ \A k \in 1 .. Len(q) :
           Unmarked(r)[k].cmd = r[k].cmd /\ ~Unmarked(r)[k].done
  BY UnmarkedType
<1>3. \A e \in Messages : e.done \in BOOLEAN
  BY DEF Messages
<1>4. \A k \in 1 .. Len(q) : /\ Unmarked(q)[k] \in Messages
                             /\ Unmarked(r)[k] \in Messages
                             /\ r[k] \in Messages
  BY <1>1, <1>2, ElementOfSeq
<1>5. Amount(s, Unmarked(q)) = Amount(s, Unmarked(r))
  <2>1. \A k \in 1 .. Len(q) : Unmarked(q)[k].done = Unmarked(r)[k].done
    BY <1>1, <1>2, <1>3, <1>4
  <2>2. \A k \in 1 .. Len(q) : Unmarked(q)[k].cmd = Unmarked(r)[k].cmd
    BY <1>1, <1>2
  <2> QED
    BY <1>1, <1>2, <2>1, <2>2, AmountSame
<1>6. ASSUME \A k \in 1 .. Len(q) : ~r[k].done
      PROVE  Amount(s, Unmarked(q)) = Amount(s, r)
  <2>1. \A k \in 1 .. Len(q) : Unmarked(q)[k].done = r[k].done
    BY <1>1, <1>3, <1>4, <1>6
  <2>2. \A k \in 1 .. Len(q) : Unmarked(q)[k].cmd = r[k].cmd
    BY <1>1
  <2> QED
    BY <1>1, <2>1, <2>2, AmountSame
<1> QED
  BY <1>5, <1>6

(* The time an opening has left makes no difference to a command.          *)
LEMMA SettledAfter ==
  \A s \in Statuses : /\ Settled(s) \in Plain
                      /\ \A c \in Commands :
                           Settled(Obeyed(s, c)) = After(Settled(s), c)
BY DEF After, Settled, Obeyed, Branch, Ignored, Plain, Statuses, Commands

-----------------------------------------------------------------------------
(* No command of old is missing in new.                                    *)
Kept(new, old) ==
  \A n \in DOMAIN old : old[n].type = "publish" =>
    \E m \in DOMAIN new : new[m] = old[n]

(* new is old up to where it was cut off.                                  *)
Cut(new, old) ==
  /\ \A m \in DOMAIN new : m \in DOMAIN old /\ new[m] = old[m]
  /\ \A n \in DOMAIN old : n \in DOMAIN new \/ \A m \in DOMAIN new : m < n

(* A write that flushes no command keeps those under way.                  *)
LEMMA WriteKeeps ==
  ASSUME NEW rest \in Seq(Packets), NEW answer \in Seq(Packets),
         Write(rest, answer)
  PROVE  clean' => Kept(net', rest)
<1> SUFFICES ASSUME clean' PROVE Kept(net', rest)
  OBVIOUS
<1>1. PICK k \in 0 .. Len(rest) :
        /\ net' = SubSeq(rest, k + 1, Len(rest)) \o (IF link THEN answer ELSE <<>>)
        /\ \A j \in 1 .. k : rest[j].type # "publish"
  BY DEF Write
<1> DEFINE kept == SubSeq(rest, k + 1, Len(rest))
           more == IF link THEN answer ELSE <<>>
<1>2. /\ kept \in Seq(Packets) /\ Len(kept) = Len(rest) - k
      /\ \A n \in 1 .. Len(rest) - k : kept[n] = rest[n + k]
  <2>1. Len(rest) \in Nat /\ k \in Nat /\ k =< Len(rest)
    BY LenProperties
  <2>2. \A n \in k + 1 .. Len(rest) : rest[n] \in Packets
    BY <2>1, ElementOfSeq
  <2> QED
    BY <2>1, <2>2, SubSeqProperties
<1>3. more \in Seq(Packets)
  BY EmptySeq
<1>4. net' = kept \o more
  BY <1>1
<1> HIDE DEF kept, more
<1>5. /\ Len(kept) \in Nat /\ Len(more) \in Nat /\ Len(rest) \in Nat
      /\ DOMAIN rest = 1 .. Len(rest)
      /\ DOMAIN net' = 1 .. Len(kept) + Len(more)
      /\ \A n \in 1 .. Len(kept) : net'[n] = kept[n]
  <2>1. /\ net' \in Seq(Packets) /\ Len(net') = Len(kept) + Len(more)
        /\ \A n \in 1 .. Len(kept) + Len(more) :
             net'[n] = IF n =< Len(kept) THEN kept[n] ELSE more[n - Len(kept)]
    BY <1>2, <1>3, <1>4, ConcatProperties
  <2>2. Len(kept) \in Nat /\ Len(more) \in Nat
    BY <1>2, <1>3, LenProperties
  <2>3. DOMAIN net' = 1 .. Len(kept) + Len(more)
    BY <2>1, LenProperties
  <2> QED
    BY <2>1, <2>2, <2>3, LenProperties
<1>6. ASSUME NEW n \in DOMAIN rest, rest[n].type = "publish"
      PROVE  \E m \in DOMAIN net' : net'[m] = rest[n]
  <2>1. ~(n =< k) /\ n \in 1 .. Len(rest)
    BY <1>1, <1>5, <1>6
  <2>2. /\ n - k \in 1 .. Len(rest) - k /\ (n - k) + k = n
        /\ n - k \in 1 .. Len(kept) /\ n - k \in DOMAIN net'
    BY <1>2, <1>5, <2>1
  <2>3. net'[n - k] = rest[n]
    BY <1>2, <1>5, <2>2
  <2> QED
    BY <2>2, <2>3
<1> QED
  BY <1>6 DEF Kept

(* Taking an answer keeps the commands.                                    *)
LEMMA TailKeeps ==
  ASSUME net \in Seq(Packets), net # <<>>, Head(net).type # "publish"
  PROVE  Kept(Tail(net), net)
<1>1. /\ Len(Tail(net)) = Len(net) - 1 /\ Head(net) = net[1]
      /\ Tail(net) \in Seq(Packets)
      /\ \A n \in 1 .. Len(Tail(net)) : Tail(net)[n] = net[n + 1]
  BY HeadTailProperties
<1>2. /\ Len(net) \in Nat /\ DOMAIN net = 1 .. Len(net)
      /\ DOMAIN Tail(net) = 1 .. Len(Tail(net))
  BY <1>1, LenProperties
<1>3. ASSUME NEW n \in DOMAIN net, net[n].type = "publish"
      PROVE  n - 1 \in DOMAIN Tail(net) /\ Tail(net)[n - 1] = net[n]
  <2>1. n # 1
    BY <1>1, <1>3
  <2>2. n - 1 \in 1 .. Len(Tail(net)) /\ (n - 1) + 1 = n
    BY <1>1, <1>2, <2>1
  <2> QED
    BY <1>1, <1>2, <2>2
<1> QED
  BY <1>3 DEF Kept

(* Keeping twice keeps.                                                    *)
LEMMA KeptTwice ==
  ASSUME NEW a, NEW b, NEW c, Kept(a, b), Kept(b, c)
  PROVE  Kept(a, c)
BY DEF Kept

-----------------------------------------------------------------------------
(* What a step that leaves the session be does to the histories.           *)
Marks ==
  /\ clean' \in BOOLEAN /\ mode' \in Plain
  /\ link' => link /\ acking' = acking
  /\ clean' => /\ clean /\ mode' = mode /\ Settled(stat') = Settled(stat)
               /\ \/ link' = link /\ Kept(net', net)
                  \/ ~link' /\ Cut(net', net)

(* Such a step keeps the invariant.                                        *)
LEMMA MarksKeep ==
  ASSUME IInv, HistoryInv, Marks, session' = session, Thinned(net', net)
  PROVE  HistoryInv'
<1>1. /\ session \in Seq(Messages) /\ net \in Seq(Packets)
      /\ OrderInv /\ SentInv /\ FirstInv /\ RepeatInv /\ Agreement
  BY DEF IInv, SystemOK, HistoryInv
<1>2. RepeatInv' /\ Agreement' /\ FirstInv'
  BY <1>1 DEF Marks, RepeatInv, Agreement, FirstInv
<1>3. SentInv'
  <2> SUFFICES ASSUME clean', NEW j \in DOMAIN session,
                      session[j].sent, ~session[j].done
               PROVE  \/ \E n \in DOMAIN net' : Carries(n, j)'
                      \/ /\ ~link'
                         /\ \A n \in DOMAIN net', k \in DOMAIN session :
                              Carries(n, k)' => k < j
    BY DEF SentInv
  <2>1. clean
    BY DEF Marks
  <2>2. PICK d \in Nat : \A n \in DOMAIN net' :
          net'[n].type = "publish" =>
            n + d \in DOMAIN net /\ net'[n] = net[n + d]
    BY DEF Thinned
  <2>3. CASE ~link /\ \A n \in DOMAIN net, k \in DOMAIN session :
                        Carries(n, k) => k < j
    <3>1. ~link'
      BY <2>3 DEF Marks
    <3>2. ASSUME NEW n \in DOMAIN net', NEW k \in DOMAIN session, Carries(n, k)'
          PROVE  k < j
      <4>1. n + d \in DOMAIN net /\ Carries(n + d, k)
        BY <2>2, <3>2 DEF Carries
      <4> QED
        BY <2>3, <4>1
    <3> QED
      BY <3>1, <3>2
  <2>4. ASSUME NEW n \in DOMAIN net, Carries(n, j), Kept(net', net)
        PROVE  \E m \in DOMAIN net' : Carries(m, j)'
    <3>1. net[n].type = "publish" /\ net[n].id = session[j].id
      BY <2>4 DEF Carries
    <3>2. PICK m \in DOMAIN net' : net'[m] = net[n]
      BY <2>4, <3>1 DEF Kept
    <3> QED
      BY <3>1, <3>2 DEF Carries
  <2>5. ASSUME NEW n \in DOMAIN net, Carries(n, j), ~link', Cut(net', net)
        PROVE  \/ \E m \in DOMAIN net' : Carries(m, j)'
               \/ \A m \in DOMAIN net', k \in DOMAIN session :
                    Carries(m, k)' => k < j
    <3>1. CASE n \in DOMAIN net'
      BY <2>5, <3>1 DEF Cut, Carries
    <3>2. CASE \A m \in DOMAIN net' : m < n
      <4>1. ASSUME NEW m \in DOMAIN net', NEW k \in DOMAIN session,
                   Carries(m, k)'
            PROVE  k < j
        <5>1. m \in DOMAIN net /\ Carries(m, k) /\ m < n
          BY <2>5, <3>2, <4>1 DEF Cut, Carries
        <5> QED
          BY <1>1, <2>5, <5>1 DEF OrderInv
      <4> QED
        BY <4>1
    <3> QED
      BY <2>5, <3>1, <3>2 DEF Cut
  <2>6. \/ \E n \in DOMAIN net : Carries(n, j)
        \/ ~link /\ \A n \in DOMAIN net, k \in DOMAIN session :
                      Carries(n, k) => k < j
    BY <1>1, <2>1 DEF SentInv
  <2> QED
    BY <2>3, <2>4, <2>5, <2>6 DEF Marks
<1> QED
  BY <1>2, <1>3 DEF HistoryInv, Marks

(* A write marks what it flushes.                                          *)
LEMMA WriteMarks ==
  ASSUME clean \in BOOLEAN, mode \in Plain, NEW rest, NEW answer,
         Write(rest, answer)
  PROVE  clean' \in BOOLEAN /\ mode' \in Plain /\ (clean' => clean /\ mode' = mode)
<1>1. clean' \in BOOLEAN
  BY Zenon DEF Write
<1>2. "closed" \in Plain
  BY DEF Plain, Statuses
<1> QED
  BY <1>1, <1>2 DEF Write

(* No answer that is awaited is a command.                                 *)
LEMMA AwaitedReplies ==
  ASSUME pc \in Waits, Arrives
  PROVE  Head(net).type # "publish"
<1>1. Awaited(pc) \subseteq Replies
  BY DEF Waits, Awaited, Replies
<1> QED
  BY <1>1 DEF Arrives, Replies

(* The steps that leave the session be.                                    *)
LEMMA QuietMarks ==
  ASSUME IInv, HistoryInv, Quiet
  PROVE  Marks
<1>1. /\ net \in Seq(Packets) /\ stat \in Statuses /\ link \in BOOLEAN
      /\ clean \in BOOLEAN /\ mode \in Plain
  BY DEF IInv, SystemOK, HistoryInv
<1> DEFINE Same == /\ clean' = clean /\ mode' = mode /\ link' = link
                   /\ acking' = acking
<1>2. CASE Same /\ Settled(stat') = Settled(stat) /\ net' = net
  BY <1>1, <1>2 DEF Marks, Kept
<1>3. CASE /\ Same /\ stat' = stat /\ net # <<>> /\ net' = Tail(net)
           /\ Head(net).type # "publish"
  BY <1>1, <1>3, TailKeeps DEF Marks
<1>4. ASSUME NEW t \in Replies, net # <<>>, Head(net).type # "publish",
             Write(Tail(net), <<Reply(t)>>), stat' = stat, link' = link,
             acking' = acking
      PROVE  Marks
  <2>1. Tail(net) \in Seq(Packets) /\ Kept(Tail(net), net)
    BY <1>1, <1>4, TailKeeps, HeadTailProperties
  <2>2. clean' => Kept(net', Tail(net))
    BY <1>4, <2>1, ReplyType, WriteKeeps
  <2>3. clean' => Kept(net', net)
    BY <2>1, <2>2, KeptTwice
  <2> QED
    BY <1>1, <1>4, <2>3, WriteMarks DEF Marks
<1>5. ASSUME NEW t \in Replies, Write(net, <<Reply(t)>>), stat' = stat,
             link' = link, acking' = acking
      PROVE  Marks
  <2>1. clean' => Kept(net', net)
    BY <1>1, <1>5, ReplyType, WriteKeeps
  <2> QED
    BY <1>1, <1>5, <2>1, WriteMarks DEF Marks
<1>6. CASE TakeOther
  <2>1. Head(net).type # "publish"
    BY <1>6 DEF TakeOther, Replies
  <2> QED
    BY <1>3, <1>6, <2>1 DEF TakeOther, history
<1>7. CASE EnterLoop \/ Acknowledged \/ ReadSomething
  <2>1. Head(net).type # "publish" /\ net # <<>>
    BY <1>7, AwaitedReplies
       DEF EnterLoop, Acknowledged, ReadSomething, Waits, Arrives
  <2> QED
    BY <1>3, <1>7, <2>1 DEF EnterLoop, Acknowledged, ReadSomething, history
<1>8. CASE Subscribe \/ SayConnected
  <2>1. Head(net).type # "publish" /\ net # <<>>
    BY <1>8, AwaitedReplies DEF Subscribe, SayConnected, Waits, Arrives
  <2> QED
    BY <1>4, <1>8, <2>1 DEF Subscribe, SayConnected, Replies
<1>9. CASE Packet
  BY <1>6, <1>7, <1>8, <1>9 DEF Packet
<1>10. CASE Top \/ EndPass \/ Timeout \/ UNCHANGED vars
  BY <1>2, <1>10 DEF Top, EndPass, Timeout, vars, history
<1>11. CASE Ping
  BY <1>5, <1>11 DEF Ping, Replies
<1>12. ASSUME NEW d \in Devices, Report(d)
       PROVE  Marks
  BY <1>5, <1>12 DEF Report, Replies
<1>13. ASSUME NEW d \in Devices, ServerTakes(d)
       PROVE  Marks
  BY <1>2, <1>13 DEF ServerTakes, history
<1>14. CASE PeriodicTimeout
  <2>1. Settled(stat') = Settled(stat)
    BY <1>14 DEF PeriodicTimeout, Settled
  <2> QED
    BY <1>2, <1>14, <2>1 DEF PeriodicTimeout, history
<1>15. CASE TimeoutConnect
  <2>1. Cut(net', net)
    BY <1>15 DEF TimeoutConnect, Cut
  <2> QED
    BY <1>1, <1>15, <2>1 DEF TimeoutConnect, Marks, history
<1>16. CASE Restart
  <2>1. ~clean' /\ mode' = "closed" /\ ~link'
    BY <1>16 DEF Restart
  <2>2. clean' \in BOOLEAN
    BY <1>16, Zenon DEF Restart
  <2> QED
    BY <2>1, <2>2 DEF Marks, Plain, Statuses
<1>17. CASE Drop
  <2>1. PICK k \in 0 .. Len(net) : net' = SubSeq(net, 1, k)
    BY <1>17 DEF Drop
  <2>2. /\ Len(net) \in Nat /\ DOMAIN net = 1 .. Len(net)
        /\ \A n \in 1 .. k : net[n] \in Packets
    BY <1>1, LenProperties, ElementOfSeq
  <2>3. DOMAIN net' = 1 .. k /\ \A n \in 1 .. k : net'[n] = net[n]
    <3>1. /\ net' \in Seq(Packets)
          /\ Len(net') = IF 1 =< k THEN k - 1 + 1 ELSE 0
          /\ \A n \in 1 .. k - 1 + 1 : net'[n] = net[1 + n - 1]
      BY <2>1, <2>2, SubSeqProperties
    <3>2. Len(net') = k
      BY <2>2, <3>1
    <3>3. DOMAIN net' = 1 .. k
      BY <3>1, <3>2, LenProperties
    <3>4. \A n \in 1 .. k : n \in 1 .. k - 1 + 1 /\ 1 + n - 1 = n
      BY <2>2
    <3> QED
      BY <3>1, <3>3, <3>4
  <2>4. Cut(net', net)
    BY <2>2, <2>3 DEF Cut
  <2> QED
    BY <1>1, <1>17, <2>4 DEF Drop, Marks, history
<1> QED
  BY <1>9, <1>10, <1>11, <1>12, <1>13, <1>14, <1>15, <1>16, <1>17 DEF Quiet

-----------------------------------------------------------------------------
(* Taking a command: all before it have taken effect, so it is the next.   *)
LEMMA TakeCommandHistory ==
  ASSUME IInv, HistoryInv, TakeCommand
  PROVE  HistoryInv'
<1> DEFINE k == Place(Head(net).id)
           s == Settled(stat)
<1>1. /\ acking = None /\ net # <<>> /\ net' = Tail(net)
      /\ stat' = Obeyed(stat, session[k].cmd)
      /\ session' = [session EXCEPT ![k].done = TRUE]
      /\ acking' = session[k].id
      /\ link' = link /\ clean' = clean /\ mode' = mode
  BY DEF TakeCommand, Handle
<1>2. /\ k \in DOMAIN session /\ Carries(1, k) /\ session[k].sent
      /\ \A j \in DOMAIN session : k =< j => ~session[j].done
  BY HeadHeld DEF TakeCommand
<1> HIDE DEF k
<1>3. /\ session \in Seq(Messages) /\ net \in Seq(Packets) /\ stat \in Statuses
      /\ SessionInv /\ OrderInv /\ AckInv
      /\ SentInv /\ FirstInv /\ RepeatInv /\ Agreement
      /\ clean \in BOOLEAN /\ mode \in Plain
  BY DEF IInv, SystemOK, HistoryInv
<1>4. session' \in Seq(Messages)
  BY TakeCommandStep
<1>5. /\ Len(session) \in Nat /\ DOMAIN session = 1 .. Len(session)
      /\ \A j \in DOMAIN session : session[j] \in Messages
  BY <1>3, LenProperties, ElementOfSeq
<1>6. /\ Len(session') = Len(session) /\ DOMAIN session' = DOMAIN session
      /\ \A j \in DOMAIN session :
           /\ session'[j].id = session[j].id /\ session'[j].cmd = session[j].cmd
           /\ session'[j].sent = session[j].sent
           /\ session'[j].done = IF j = k THEN TRUE ELSE session[j].done
  <2>1. DOMAIN session' = DOMAIN session
    BY <1>1
  <2>2. Len(session') = Len(session)
    BY <1>4, <1>5, <2>1, LenProperties
  <2>3. \A j \in DOMAIN session : j # k => session'[j] = session[j]
    BY <1>1
  <2>4. session'[k] = [session[k] EXCEPT !.done = TRUE]
    BY <1>1, <1>2
  <2>5. /\ session'[k].id = session[k].id /\ session'[k].cmd = session[k].cmd
        /\ session'[k].sent = session[k].sent
        /\ session'[k].done = TRUE
    BY <1>2, <1>5, <2>4 DEF Messages
  <2> QED
    BY <1>2, <2>1, <2>2, <2>3, <2>5
<1>7. clean => \A j \in 1 .. k - 1 : session[j].done
  <2> SUFFICES ASSUME clean, NEW j \in 1 .. k - 1, ~session[j].done
               PROVE  FALSE
    OBVIOUS
  <2>1. j \in DOMAIN session /\ j < k
    BY <1>2, <1>5
  <2>2. session[j].sent
    BY <1>2, <1>3, <2>1 DEF SessionInv
  <2>3. 1 \in DOMAIN net
    BY <1>1, <1>3, EmptySeq, LenProperties
  <2>4. ~(k < j)
    BY <1>2, <1>5, <2>1
  <2>5. PICK n \in DOMAIN net : Carries(n, j)
    BY <1>2, <1>3, <2>1, <2>2, <2>3, <2>4 DEF SentInv
  <2>6. n = 1
    <3>1. n \in Nat \ {0}
      BY <1>3, LenProperties
    <3>2. ~(1 < n)
      BY <1>2, <1>3, <2>1, <2>3, <2>4, <2>5 DEF OrderInv
    <3> QED
      BY <3>1, <3>2
  <2>7. j = k
    BY <1>2, <1>3, <2>1, <2>5, <2>6 DEF Carries, SessionInv
  <2> QED
    BY <1>5, <2>1, <2>7
<1>8. /\ s \in Plain /\ Settled(stat') = After(s, session[k].cmd)
      /\ session[k].cmd \in Commands
  BY <1>1, <1>2, <1>3, <1>5, SettledAfter DEF Messages
<1> HIDE DEF s
<1>9. Agreement'
  <2> SUFFICES ASSUME clean PROVE Amount(Settled(stat'), session') = mode
    BY <1>1 DEF Agreement
  <2>1. Amount(After(s, session[k].cmd), session') = Amount(s, session)
    <3>1. TakesNext(session, session', k)
      <4>1. k \in 1 .. Len(session) /\ Len(session') = Len(session)
        BY <1>2, <1>5, <1>6
      <4>2. ~session[k].done
        BY <1>2, <1>5
      <4>3. session'[k].done
        BY <1>2, <1>6
      <4>4. \A j \in 1 .. Len(session) :
              /\ session[j].cmd = session'[j].cmd
              /\ j # k => session[j].done = session'[j].done
        BY <1>5, <1>6
      <4> QED
        BY <1>7, <4>1, <4>2, <4>3, <4>4 DEF TakesNext
    <3> QED
      BY <1>3, <1>4, <1>8, <3>1, AmountTaken
  <2> QED
    BY <1>3, <1>8, <2>1 DEF Agreement, s
<1>10. RepeatInv'
  <2> SUFFICES ASSUME clean
               PROVE  Amount(Settled(stat'), Unmarked(session')) = mode
    BY <1>1 DEF RepeatInv
  <2> DEFINE t == After(s, session[k].cmd)
  <2>1. t \in Plain
    BY <1>3, <1>8, SettledAfter, AfterKind, TakeCommandStep
  <2>2. /\ Unmarked(session) \in Seq(Messages)
        /\ Len(Unmarked(session)) = Len(session)
        /\ Unmarked(session)[k].cmd = session[k].cmd
        /\ ~Unmarked(session)[k].done
    BY <1>2, <1>3, <1>5, UnmarkedType
  <2>3. Amount(t, Unmarked(session)) = Amount(s, Unmarked(session))
    BY <1>2, <1>5, <1>8, <2>2, AmountRepeated
  <2> HIDE DEF t
  <2>4. Amount(t, Unmarked(session')) = Amount(t, Unmarked(session))
    <3>1. /\ session \in Seq(Messages) /\ Len(session') = Len(session)
          /\ \A j \in 1 .. Len(session) : session[j].cmd = session'[j].cmd
      BY <1>3, <1>5, <1>6
    <3> QED
      BY <1>4, <2>1, <3>1, UnmarkedSame
  <2> QED
    BY <1>3, <1>8, <2>3, <2>4 DEF RepeatInv, s, t
<1>11. FirstInv'
  <2>1. link => \A j \in DOMAIN session : ~session[j].done
    <3> SUFFICES ASSUME link, NEW j \in DOMAIN session, session[j].done
                 PROVE  FALSE
      OBVIOUS
    <3>1. session[j].id = None
      BY <1>1, <1>3 DEF FirstInv
    <3> QED
      BY <1>5, <3>1, AppAssumption DEF Messages
  <2>2. link' => \A j \in DOMAIN session' : session'[j].done => session'[j].id = acking'
    BY <1>1, <1>6, <2>1
  <2>3. clean' /\ link' => session'[1].id = acking'
    <3> SUFFICES ASSUME clean, link PROVE session'[1].id = session[k].id
      BY <1>1
    <3>1. 1 \in DOMAIN session /\ k \in Nat \ {0}
      BY <1>2, <1>5
    <3>2. ~(1 \in 1 .. k - 1)
      BY <1>7, <2>1, <3>1
    <3>3. k = 1
      BY <3>1, <3>2
    <3> QED
      BY <1>6, <3>1, <3>3
  <2> QED
    BY <2>2, <2>3 DEF FirstInv
<1>12. SentInv'
  <2> SUFFICES ASSUME clean, NEW j \in DOMAIN session,
                      session'[j].sent, ~session'[j].done
               PROVE  \/ \E n \in DOMAIN net' : Carries(n, j)'
                      \/ /\ ~link
                         /\ \A n \in DOMAIN net', l \in DOMAIN session :
                              Carries(n, l)' => l < j
    BY <1>1, <1>6 DEF SentInv
  <2>1. session[j].sent /\ ~session[j].done /\ j # k
    BY <1>6
  <2>2. /\ \A n \in DOMAIN net' :
             n + 1 \in DOMAIN net /\ net'[n] = net[n + 1]
        /\ \A n \in DOMAIN net : n # 1 =>
             n - 1 \in DOMAIN net' /\ net'[n - 1] = net[n]
    <3>1. /\ Tail(net) \in Seq(Packets) /\ Len(Tail(net)) = Len(net) - 1
          /\ \A n \in 1 .. Len(Tail(net)) : Tail(net)[n] = net[n + 1]
      BY <1>1, <1>3, HeadTailProperties
    <3>2. /\ Len(net) \in Nat /\ DOMAIN net = 1 .. Len(net)
          /\ Len(Tail(net)) \in Nat /\ DOMAIN Tail(net) = 1 .. Len(Tail(net))
      BY <1>3, <3>1, LenProperties
    <3>3. ASSUME NEW n \in DOMAIN net, n # 1
          PROVE  n - 1 \in DOMAIN net' /\ net'[n - 1] = net[n]
      <4>1. n - 1 \in 1 .. Len(Tail(net)) /\ (n - 1) + 1 = n
        BY <3>1, <3>2, <3>3
      <4> QED
        BY <1>1, <3>1, <3>2, <4>1
    <3>4. \A n \in DOMAIN net' : n + 1 \in DOMAIN net /\ net'[n] = net[n + 1]
      BY <1>1, <3>1, <3>2
    <3> QED
      BY <3>3, <3>4
  <2>3. ASSUME NEW n \in DOMAIN net, Carries(n, j)
        PROVE  Carries(n - 1, j)' /\ n - 1 \in DOMAIN net'
    <3>1. n # 1
      BY <1>2, <1>3, <2>1, <2>3 DEF Carries, SessionInv
    <3> QED
      BY <1>6, <2>2, <2>3, <3>1 DEF Carries
  <2>4. ASSUME NEW n \in DOMAIN net', NEW l \in DOMAIN session, Carries(n, l)'
        PROVE  n + 1 \in DOMAIN net /\ Carries(n + 1, l)
    BY <1>6, <2>2, <2>4 DEF Carries
  <2>5. \/ \E n \in DOMAIN net : Carries(n, j)
        \/ ~link /\ \A n \in DOMAIN net, l \in DOMAIN session :
                      Carries(n, l) => l < j
    BY <1>3, <2>1 DEF SentInv
  <2> QED
    BY <2>3, <2>4, <2>5
<1> QED
  BY <1>1, <1>3, <1>9, <1>10, <1>11, <1>12 DEF HistoryInv

(* Acknowledging it: over a standing connection it is the first and the    *)
(* only one that has taken effect, so none has afterwards.                 *)
LEMMA AckHistory ==
  ASSUME IInv, HistoryInv, Ack
  PROVE  HistoryInv'
<1>1. /\ session \in Seq(Messages) /\ net \in Seq(Packets) /\ stat \in Statuses
      /\ SessionInv
      /\ SentInv /\ FirstInv /\ RepeatInv /\ Agreement
      /\ clean \in BOOLEAN /\ mode \in Plain
  BY DEF IInv, SystemOK, HistoryInv
<1>2. /\ acking # None /\ acking' = None /\ stat' = stat /\ link' = link
      /\ Write(net, <<>>)
      /\ session' = IF link THEN Without(Place(Confirmed)) ELSE session
  BY DEF Ack
<1>3. /\ clean' \in BOOLEAN /\ mode' \in Plain
      /\ clean' => clean /\ mode' = mode /\ Kept(net', net)
  BY <1>1, <1>2, EmptySeq, WriteMarks, WriteKeeps
<1>4. CASE ~link
  <2>1. Thinned(net', net)
    <3>1. <<>> \in Seq(Packets) /\ DOMAIN <<>> = {}
      BY EmptySeq
    <3> QED
      BY <1>1, <1>2, <3>1, WriteThins
  <2>2. Marks
    BY <1>2, <1>3, <1>4 DEF Marks
  <2> QED
    BY <1>2, <1>4, <2>1, <2>2, MarksKeep
<1>5. CASE link
  <2> DEFINE p == Place(Confirmed)
  <2>1. p \in DOMAIN session /\ session[p].id = acking /\ session[p].done
    BY <1>2, AckedHeld
  <2>2. session' = Without(p)
    BY <1>2, <1>5
  <2> HIDE DEF p
  <2>3. /\ session' \in Seq(Messages) /\ Len(session') = Len(session) - 1
        /\ \A n \in 1 .. Len(session) - 1 :
             session'[n] = IF n < p THEN session[n] ELSE session[n + 1]
    BY <1>1, <2>1, <2>2, WithoutType
  <2>4. /\ Len(session) \in Nat /\ DOMAIN session = 1 .. Len(session)
        /\ DOMAIN session' = 1 .. Len(session) - 1
    BY <1>1, <2>3, LenProperties
  <2>5. \A k \in DOMAIN session : session[k].done => k = p
    BY <1>1, <1>5, <2>1 DEF FirstInv, SessionInv
  <2>6. \A n \in DOMAIN session' : ~session'[n].done
    <3>1. ASSUME NEW n \in DOMAIN session'
          PROVE  ~session'[n].done
      <4>1. CASE n < p
        <5>1. n \in DOMAIN session /\ n # p /\ session'[n] = session[n]
          BY <2>1, <2>3, <2>4, <4>1
        <5> QED
          BY <2>5, <5>1
      <4>2. CASE ~(n < p)
        <5>1. n + 1 \in DOMAIN session /\ n + 1 # p /\ session'[n] = session[n + 1]
          BY <2>1, <2>3, <2>4, <4>2
        <5> QED
          BY <2>5, <5>1
      <4> QED
        BY <4>1, <4>2
    <3> QED
      BY <3>1
  <2>7. FirstInv'
    BY <1>2, <2>6 DEF FirstInv
  <2>8. clean' => p = 1
    <3>1. 1 \in DOMAIN session
      BY <2>1, <2>4
    <3> QED
      BY <1>1, <1>2, <1>3, <1>5, <2>1, <3>1 DEF FirstInv, SessionInv
  <2>9. clean' => \A n \in 1 .. Len(session') :
          n + 1 \in DOMAIN session /\ session'[n] = session[n + 1]
    BY <2>3, <2>4, <2>8
  <2>10. Settled(stat) \in Plain
    BY <1>1, SettledAfter
  <2>11. Agreement'
    <3> SUFFICES ASSUME clean' PROVE Amount(Settled(stat), session') = mode
      BY <1>2, <1>3 DEF Agreement
    <3>1. Len(session) = Len(session') + 1 /\ session[1].done
      BY <2>1, <2>3, <2>4, <2>8
    <3>2. Amount(Settled(stat), session) = Amount(Settled(stat), session')
      BY <1>1, <2>3, <2>9, <2>10, <3>1, AmountRest
    <3> QED
      BY <1>1, <1>3, <3>2 DEF Agreement
  <2>12. RepeatInv'
    <3> SUFFICES ASSUME clean'
                 PROVE  Amount(Settled(stat), Unmarked(session')) = mode'
      BY <1>2 DEF RepeatInv
    <3>1. DOMAIN session' = 1 .. Len(session')
      BY <2>3, LenProperties
    <3>2. Amount(Settled(stat), Unmarked(session')) =
            Amount(Settled(stat), session')
      BY <2>3, <2>6, <2>10, <3>1, UnmarkedSame
    <3> QED
      BY <1>2, <2>11, <3>2 DEF Agreement
  <2>13. SentInv'
    <3> SUFFICES ASSUME clean', NEW j \in DOMAIN session',
                        session'[j].sent, ~session'[j].done
                 PROVE  \E n \in DOMAIN net' : Carries(n, j)'
      BY DEF SentInv
    <3>1. j + 1 \in DOMAIN session /\ session'[j] = session[j + 1]
      BY <2>3, <2>4, <2>9
    <3>2. PICK n \in DOMAIN net : Carries(n, j + 1)
      BY <1>1, <1>3, <1>5, <3>1 DEF SentInv
    <3>3. net[n].type = "publish" /\ net[n].id = session'[j].id
      BY <3>1, <3>2 DEF Carries
    <3>4. PICK m \in DOMAIN net' : net'[m] = net[n]
      BY <1>3, <3>3 DEF Kept
    <3> QED
      BY <3>3, <3>4 DEF Carries
  <2> QED
    BY <1>3, <2>7, <2>11, <2>12, <2>13 DEF HistoryInv
<1> QED
  BY <1>1, <1>4, <1>5

(* A new connection: everything is to be repeated.                         *)
LEMMA ConnectHistory ==
  ASSUME IInv, HistoryInv, Connect
  PROVE  HistoryInv'
<1> DEFINE s == Settled(stat)
<1>1. /\ session \in Seq(Messages) /\ session' \in Seq(Messages)
      /\ stat \in Statuses /\ RepeatInv /\ mode \in Plain
  BY ConnectStep DEF IInv, SystemOK, HistoryInv
<1>2. /\ acking' = None /\ stat' = stat /\ clean'
      /\ mode' = IF clean THEN mode ELSE Amount(s, session')
      /\ session' = [k \in DOMAIN session |->
                       [session[k] EXCEPT !.sent = FALSE, !.done = FALSE]]
  BY DEF Connect, Free
<1>3. s \in Plain
  BY <1>1, SettledAfter
<1> HIDE DEF s
<1>4. /\ Len(session) \in Nat /\ DOMAIN session = 1 .. Len(session)
      /\ \A k \in DOMAIN session : session[k] \in Messages
      /\ DOMAIN session' = DOMAIN session /\ Len(session') = Len(session)
  <2>1. DOMAIN session' = DOMAIN session
    BY <1>2
  <2> QED
    BY <1>1, <2>1, LenProperties, ElementOfSeq
<1>5. \A k \in DOMAIN session :
        /\ session'[k].cmd = session[k].cmd
        /\ ~session'[k].sent /\ ~session'[k].done
  BY <1>2, <1>4 DEF Messages
<1>6. Amount(s, Unmarked(session)) = Amount(s, session')
  BY <1>1, <1>3, <1>4, <1>5, UnmarkedSame
<1>7. Amount(s, session') = mode' /\ mode' \in Plain
  BY <1>1, <1>2, <1>3, <1>6, AmountType DEF RepeatInv, s
<1>8. Amount(s, Unmarked(session')) = mode'
  BY <1>1, <1>3, <1>4, <1>5, <1>7, UnmarkedSame
<1>9. clean' \in BOOLEAN
  BY Zenon DEF Connect
<1>10. Agreement' /\ RepeatInv'
  BY <1>2, <1>7, <1>8 DEF Agreement, RepeatInv, s
<1>11. SentInv' /\ FirstInv'
  BY <1>2, <1>4, <1>5 DEF SentInv, FirstInv
<1> QED
  BY <1>7, <1>9, <1>10, <1>11 DEF HistoryInv

(* A command is accepted after all others.                                 *)
LEMMA AcceptHistory ==
  ASSUME IInv, HistoryInv, NEW i \in Ids, NEW c \in Commands, Accept(i, c)
  PROVE  HistoryInv'
<1> DEFINE e == [id |-> i, cmd |-> c, sent |-> FALSE, done |-> FALSE]
           s == Settled(stat)
<1>1. /\ session \in Seq(Messages) /\ session' \in Seq(Messages)
      /\ stat \in Statuses /\ NetInv /\ AckInv
      /\ SentInv /\ FirstInv /\ RepeatInv /\ Agreement
      /\ clean \in BOOLEAN /\ mode \in Plain
  BY AcceptStep DEF IInv, SystemOK, HistoryInv
<1>2. /\ session' = Append(session, e) /\ \A k \in DOMAIN session : session[k].id # i
      /\ mode' = IF clean THEN After(mode, c) ELSE mode
      /\ UNCHANGED <<stat, acking, link, net, clean>>
  BY DEF Accept, HeldIds
<1>3. e \in Messages /\ e.id = i /\ e.cmd = c /\ ~e.sent /\ ~e.done
  BY DEF Messages
<1> HIDE DEF e
<1>4. s \in Plain
  BY <1>1, SettledAfter
<1> HIDE DEF s
<1>5. /\ Len(session) \in Nat /\ DOMAIN session = 1 .. Len(session)
      /\ Len(session') = Len(session) + 1
      /\ DOMAIN session' = 1 .. Len(session) + 1
      /\ \A k \in 1 .. Len(session) : session'[k] = session[k]
      /\ session'[Len(session) + 1] = e
  BY <1>1, <1>2, <1>3, LenProperties, AppendProperties
<1>6. mode' \in Plain
  <2>1. After(mode, c) \in Plain
    BY <1>1, SettledAfter DEF After, Settled, Obeyed, Branch, Ignored, Plain,
                              Statuses, Commands
  <2> QED
    BY <1>1, <1>2, <2>1
<1>7. Agreement'
  <2>1. Amount(s, session') = After(Amount(s, session), c)
    BY <1>1, <1>2, <1>3, <1>4, AmountAppend
  <2> QED
    BY <1>1, <1>2, <2>1 DEF Agreement, s
<1>8. RepeatInv'
  <2> DEFINE u == Unmarked(session)
             v == Append(u, e)
  <2>1. /\ u \in Seq(Messages) /\ Len(u) = Len(session)
        /\ \A k \in 1 .. Len(session) : u[k].cmd = session[k].cmd /\ ~u[k].done
    BY <1>1, UnmarkedType
  <2>2. Amount(s, v) = After(Amount(s, u), c)
    BY <1>3, <1>4, <2>1, AmountAppend
  <2> HIDE DEF u
  <2>3. /\ v \in Seq(Messages) /\ Len(v) = Len(session')
        /\ \A k \in 1 .. Len(session) : v[k] = u[k]
        /\ v[Len(session) + 1] = e
    BY <1>3, <1>5, <2>1, AppendProperties
  <2> HIDE DEF v
  <2>4. \A k \in 1 .. Len(session') : session'[k].cmd = v[k].cmd /\ ~v[k].done
    BY <1>3, <1>5, <2>1, <2>3
  <2>5. Amount(s, Unmarked(session')) = Amount(s, v)
    BY <1>1, <1>4, <2>3, <2>4, UnmarkedSame
  <2> QED
    BY <1>1, <1>2, <2>2, <2>5 DEF RepeatInv, s, u
<1>9. \A n \in DOMAIN net, k \in DOMAIN session' :
        Carries(n, k)' => k \in DOMAIN session /\ Carries(n, k)
  <2> SUFFICES ASSUME NEW n \in DOMAIN net, NEW k \in DOMAIN session',
                      Carries(n, k)'
               PROVE  k \in DOMAIN session /\ Carries(n, k)
    OBVIOUS
  <2>1. net[n].type = "publish" /\ net[n].id = session'[k].id
    BY <1>2 DEF Carries
  <2>2. net[n].id # i
    BY <1>1, <1>2, <2>1 DEF NetInv, Carries
  <2> QED
    BY <1>3, <1>5, <2>1, <2>2 DEF Carries
<1>10. SentInv'
  <2> SUFFICES ASSUME clean, NEW j \in DOMAIN session',
                      session'[j].sent, ~session'[j].done
               PROVE  \/ \E n \in DOMAIN net : Carries(n, j)'
                      \/ /\ ~link
                         /\ \A n \in DOMAIN net, k \in DOMAIN session' :
                              Carries(n, k)' => k < j
    BY <1>2 DEF SentInv
  <2>1. j \in DOMAIN session /\ session'[j] = session[j]
    BY <1>3, <1>5
  <2>2. ASSUME NEW n \in DOMAIN net, Carries(n, j)
        PROVE  Carries(n, j)'
    BY <1>2, <2>1, <2>2 DEF Carries
  <2>3. \/ \E n \in DOMAIN net : Carries(n, j)
        \/ ~link /\ \A n \in DOMAIN net, k \in DOMAIN session :
                      Carries(n, k) => k < j
    BY <1>1, <2>1 DEF SentInv
  <2> QED
    BY <1>9, <2>2, <2>3
<1>11. FirstInv'
  <2>1. link => \A k \in DOMAIN session' : session'[k].done => session'[k].id = acking
    BY <1>1, <1>3, <1>5 DEF FirstInv
  <2>2. acking # None => 1 \in DOMAIN session
    BY <1>1, <1>5 DEF AckInv
  <2>3. acking # None => session'[1] = session[1]
    BY <1>5, <2>2
  <2> QED
    BY <1>1, <1>2, <2>1, <2>3 DEF FirstInv
<1>12. clean' \in BOOLEAN
  BY <1>1, <1>2
<1> QED
  BY <1>6, <1>7, <1>8, <1>10, <1>11, <1>12 DEF HistoryInv

(* A command is sent: it is under way.                                     *)
LEMMA ForwardHistory ==
  ASSUME IInv, HistoryInv, NEW k \in DOMAIN session, Forward(k)
  PROVE  HistoryInv'
<1> DEFINE s == Settled(stat)
           p == [type |-> "publish", id |-> session[k].id]
<1>1. /\ session \in Seq(Messages) /\ session' \in Seq(Messages)
      /\ net \in Seq(Packets) /\ stat \in Statuses
      /\ SentInv /\ FirstInv /\ RepeatInv /\ Agreement
      /\ clean \in BOOLEAN /\ mode \in Plain
  BY ForwardStep DEF IInv, SystemOK, HistoryInv
<1>2. /\ link /\ net' = Append(net, p)
      /\ session' = [session EXCEPT ![k].sent = TRUE]
      /\ UNCHANGED <<stat, acking, link, clean, mode>>
  BY DEF Forward, history
<1>3. s \in Plain
  BY <1>1, SettledAfter
<1> HIDE DEF s
<1>4. /\ Len(session) \in Nat /\ DOMAIN session = 1 .. Len(session)
      /\ Len(session') = Len(session) /\ DOMAIN session' = DOMAIN session
      /\ \A j \in DOMAIN session :
           /\ session'[j].id = session[j].id /\ session'[j].cmd = session[j].cmd
           /\ session'[j].done = session[j].done
           /\ j # k => session'[j].sent = session[j].sent
  <2>1. /\ Len(session) \in Nat /\ DOMAIN session = 1 .. Len(session)
        /\ \A j \in DOMAIN session : session[j] \in Messages
    BY <1>1, LenProperties, ElementOfSeq
  <2>2. DOMAIN session' = DOMAIN session
    BY <1>2
  <2>3. Len(session') = Len(session)
    BY <1>1, <2>1, <2>2, LenProperties
  <2> QED
    BY <1>2, <2>1, <2>2, <2>3 DEF Messages
<1>5. /\ DOMAIN net' = DOMAIN net \union {Len(net) + 1}
      /\ \A n \in DOMAIN net : net'[n] = net[n]
      /\ net'[Len(net) + 1] = p
  <2>1. p \in Packets
    <3>1. session[k] \in Messages
      BY <1>1, <1>4, ElementOfSeq
    <3> QED
      BY <3>1 DEF Packets, Messages
  <2> HIDE DEF p
  <2> QED
    BY <1>1, <1>2, <2>1, LenProperties, AppendProperties
<1>6. Agreement'
  <2>1. Amount(s, session) = Amount(s, session')
    BY <1>1, <1>3, <1>4, AmountSame
  <2> QED
    BY <1>1, <1>2, <2>1 DEF Agreement, s
<1>7. RepeatInv'
  <2>1. Amount(s, Unmarked(session)) = Amount(s, Unmarked(session'))
    BY <1>1, <1>3, <1>4, UnmarkedSame
  <2> QED
    BY <1>1, <1>2, <2>1 DEF RepeatInv, s
<1>8. FirstInv'
  <2>1. acking # None => 1 \in DOMAIN session
    <3>1. AckInv
      BY DEF IInv
    <3> QED
      BY <1>4, <3>1 DEF AckInv
  <2> QED
    BY <1>1, <1>2, <1>4, <2>1 DEF FirstInv
<1>9. SentInv'
  <2> SUFFICES ASSUME clean, NEW j \in DOMAIN session,
                      session'[j].sent, ~session'[j].done
               PROVE  \E n \in DOMAIN net' : Carries(n, j)'
    BY <1>2, <1>4 DEF SentInv
  <2>1. CASE j = k
    BY <1>4, <1>5, <2>1 DEF Carries
  <2>2. CASE j # k
    <3>1. session[j].sent /\ ~session[j].done
      BY <1>4, <2>2
    <3>2. PICK n \in DOMAIN net : Carries(n, j)
      BY <1>1, <1>2, <3>1 DEF SentInv
    <3> QED
      BY <1>4, <1>5, <3>2 DEF Carries
  <2> QED
    BY <2>1, <2>2
<1> QED
  BY <1>1, <1>2, <1>6, <1>7, <1>8, <1>9 DEF HistoryInv

-----------------------------------------------------------------------------
(* The invariant of the histories holds at the start.                      *)
LEMMA InitHistory == Init => HistoryInv
<1> SUFFICES ASSUME Init PROVE HistoryInv
  OBVIOUS
<1>1. /\ stat = "closed" /\ mode = "closed" /\ session = <<>> /\ acking = None
  BY DEF Init
<1>2. session \in Seq(Messages) /\ Len(session) = 0 /\ DOMAIN session = {}
  BY <1>1, EmptySeq
<1>3. Settled(stat) = "closed" /\ "closed" \in Plain /\ mode \in Plain
  BY <1>1 DEF Settled, Plain, Statuses
<1>4. Agreement
  BY <1>1, <1>2, <1>3, CourseSteps DEF Agreement, Amount
<1>5. RepeatInv
  <2>1. Amount("closed", Unmarked(session)) = Amount("closed", session)
    <3>1. \A k \in 1 .. Len(session) : ~session[k].done
      BY <1>2
    <3> QED
      BY <1>2, <1>3, <3>1, UnmarkedSame
  <2> QED
    BY <1>1, <1>2, <1>3, <2>1, CourseSteps DEF RepeatInv, Amount
<1>6. clean \in BOOLEAN
  BY Zenon DEF Init
<1> QED
  BY <1>1, <1>2, <1>3, <1>4, <1>5, <1>6 DEF HistoryInv, SentInv, FirstInv

(* Every step keeps it.                                                    *)
LEMMA StepHistory == IInv /\ HistoryInv /\ [Next]_vars => HistoryInv'
<1> SUFFICES ASSUME IInv, HistoryInv, [Next]_vars PROVE HistoryInv'
  OBVIOUS
<1>1. CASE Quiet
  BY <1>1, QuietMarks, QuietSteps, MarksKeep
<1>2. ASSUME NEW i \in Ids, NEW c \in Commands, Accept(i, c)
      PROVE  HistoryInv'
  BY <1>2, AcceptHistory
<1>3. ASSUME NEW k \in DOMAIN session, Forward(k)
      PROVE  HistoryInv'
  BY <1>3, ForwardHistory
<1>4. CASE TakeCommand \/ Ack \/ Connect
  BY <1>4, TakeCommandHistory, AckHistory, ConnectHistory
<1> QED
  BY <1>1, <1>2, <1>3, <1>4 DEF Next, Door, Thread, Quiet

(* The histories, with what is on the way, for any number of commands.     *)
THEOREM HistoryInvariance == Spec => []HistoryInv
<1>1. Spec => [](IInv /\ HistoryInv)
  BY InitIInv, StepIInv, InitHistory, StepHistory, PTL DEF Spec
<1> QED
  BY <1>1, PTL

(* Every variable keeps its type.                                          *)
THEOREM TypeCorrect == Spec => []TypeOK
<1>1. IInv /\ HistoryInv => TypeOK
  BY DEF IInv, HistoryInv, TypeOK
<1> QED
  BY <1>1, Invariance, HistoryInvariance, PTL

(* Unless a flush dropped one, the status and the commands on the way      *)
(* amount to what all commands amount to, for any number of them, over     *)
(* lost connections and repetitions.                                       *)
THEOREM StatusAgrees == Spec => []Agreement
<1>1. HistoryInv => Agreement
  BY DEF HistoryInv
<1> QED
  BY <1>1, HistoryInvariance, PTL

-----------------------------------------------------------------------------
(* What a step of the door does to the status and the commands it holds:   *)
(* nothing but the end of an opening; or a command takes effect that comes *)
(* after all that have; or the first is let go, which has; or all are to   *)
(* come again.                                                             *)
Stays ==
  /\ session' = session
  /\ stat' = stat \/ (stat = "open" /\ stat' = "closed")
TakesEffect ==
  \E k \in DOMAIN session :
    /\ \A j \in DOMAIN session : k =< j => ~session[j].done
    /\ session' = [session EXCEPT ![k].done = TRUE]
    /\ stat' = Obeyed(stat, session[k].cmd)
LetsGo ==
  /\ stat' = stat
  /\ 1 \in DOMAIN session /\ session[1].done
  /\ session' \in Seq(Messages) /\ Len(session') = Len(session) - 1
  /\ \A n \in 1 .. Len(session) - 1 : session'[n] = session[n + 1]
Repeats ==
  /\ stat' = stat
  /\ session' \in Seq(Messages) /\ Len(session') = Len(session)
  /\ \A k \in DOMAIN session :
       session'[k].cmd = session[k].cmd /\ ~session'[k].done

(* There is nothing else while no command was flushed.                     *)
LEMMA DoorMoves ==
  IInv /\ HistoryInv /\ Door /\ clean /\ clean' =>
    Stays \/ TakesEffect \/ LetsGo \/ Repeats
<1> SUFFICES ASSUME IInv, HistoryInv, Door, clean, clean'
             PROVE  Stays \/ TakesEffect \/ LetsGo \/ Repeats
  OBVIOUS
<1>1. CASE Quiet /\ ~Restart
  <2>1. session' = session
    BY <1>1, QuietSteps
  <2>2. stat' = stat \/ (stat = "open" /\ stat' = "closed")
    BY <1>1 DEF Quiet, Packet, TakeOther, Subscribe, SayConnected, EnterLoop,
                Acknowledged, ReadSomething, Top, EndPass, Report,
                TimeoutConnect, Timeout, Ping, PeriodicTimeout, Drop,
                ServerTakes, vars
  <2> QED
    BY <2>1, <2>2 DEF Stays
<1>2. CASE Restart
  BY <1>2 DEF Restart
<1>3. CASE TakeCommand
  BY <1>3, HeadHeld DEF TakeCommand, Handle, TakesEffect
<1>4. CASE Ack
  <2> DEFINE p == Place(Confirmed)
  <2>1. p \in DOMAIN session /\ session[p].id = acking /\ session[p].done
    BY <1>4, AckedHeld DEF Ack
  <2>2. /\ session \in Seq(Messages) /\ SessionInv /\ FirstInv
        /\ Len(session) \in Nat /\ DOMAIN session = 1 .. Len(session)
    BY LenProperties DEF IInv, SystemOK, HistoryInv
  <2>3. CASE ~link
    BY <1>4, <2>3 DEF Ack, Stays
  <2>4. CASE link
    <3>1. session' = Without(p) /\ stat' = stat /\ acking # None
      BY <1>4, <2>4 DEF Ack
    <3>2. 1 \in DOMAIN session
      BY <2>1, <2>2
    <3>3. p = 1
      BY <2>1, <2>2, <2>4, <3>1, <3>2 DEF FirstInv, SessionInv
    <3> HIDE DEF p
    <3>4. /\ session' \in Seq(Messages) /\ Len(session') = Len(session) - 1
          /\ \A n \in 1 .. Len(session) - 1 : session'[n] = session[n + 1]
      <4>1. /\ Without(p) \in Seq(Messages)
            /\ Len(Without(p)) = Len(session) - 1
            /\ \A n \in 1 .. Len(session) - 1 :
                 Without(p)[n] = IF n < p THEN session[n] ELSE session[n + 1]
        BY <2>1, <2>2, WithoutType
      <4>2. \A n \in 1 .. Len(session) - 1 : ~(n < p)
        BY <2>2, <3>3
      <4> QED
        BY <3>1, <4>1, <4>2
    <3> QED
      BY <2>1, <3>1, <3>2, <3>3, <3>4 DEF LetsGo
  <2> QED
    BY <2>3, <2>4
<1>5. CASE Connect
  <2>1. /\ session \in Seq(Messages) /\ session' \in Seq(Messages)
        /\ stat' = stat
        /\ session' = [k \in DOMAIN session |->
                         [session[k] EXCEPT !.sent = FALSE, !.done = FALSE]]
    BY <1>5, ConnectStep DEF Connect, IInv, SystemOK
  <2>2. /\ \A k \in DOMAIN session : session[k] \in Messages
        /\ DOMAIN session' = DOMAIN session /\ Len(session') = Len(session)
    <3>1. DOMAIN session' = DOMAIN session
      BY <2>1
    <3>2. \A k \in DOMAIN session : session[k] \in Messages
      BY <2>1, LenProperties, ElementOfSeq
    <3>3. session \in Seq(Messages) /\ session' \in Seq(Messages)
      BY <2>1
    <3>4. Len(session') = Len(session)
      BY <3>1, <3>3, LenProperties
    <3> QED
      BY <3>1, <3>2, <3>4
  <2>3. \A k \in DOMAIN session :
          session'[k].cmd = session[k].cmd /\ ~session'[k].done
    BY <2>1, <2>2 DEF Messages
  <2> QED
    BY <2>1, <2>2, <2>3 DEF Repeats
<1> QED
  BY <1>1, <1>2, <1>3, <1>4, <1>5 DEF Door, Thread, Quiet

-----------------------------------------------------------------------------
(* The queue of CommandLink, as Link sees the session.                     *)
Entry(m) == [id |-> m.id, cmd |-> m.cmd, done |-> m.done]
Entries  == [id : Ids, cmd : Commands, done : BOOLEAN]
queue    == [k \in DOMAIN session |-> Entry(session[k])]

(* The queue has an entry for each command of the session.                 *)
LEMMA QueueType ==
  ASSUME session \in Seq(Messages)
  PROVE  /\ queue \in Seq(Entries) /\ Len(queue) = Len(session)
         /\ DOMAIN queue = DOMAIN session
         /\ \A k \in DOMAIN session :
              /\ session[k] \in Messages /\ queue[k] = Entry(session[k])
              /\ queue[k] \in Entries
<1>1. /\ Len(session) \in Nat /\ DOMAIN session = 1 .. Len(session)
      /\ \A k \in DOMAIN session : session[k] \in Messages
  BY LenProperties, ElementOfSeq
<1>2. \A k \in DOMAIN session : Entry(session[k]) \in Entries
  BY <1>1 DEF Entry, Entries, Messages
<1>3. /\ DOMAIN queue = DOMAIN session
      /\ \A k \in DOMAIN session : queue[k] = Entry(session[k])
  BY DEF queue
<1>4. queue \in [1 .. Len(session) -> Entries]
  BY <1>1, <1>2 DEF queue
<1>5. queue \in Seq(Entries)
  BY <1>1, <1>4, SeqDef
<1>6. Len(queue) = Len(session)
  BY <1>1, <1>3, <1>5, LenProperties
<1> QED
  BY <1>1, <1>2, <1>3, <1>5, <1>6

(* The same one step later.                                                *)
LEMMA QueueTypeNext ==
  ASSUME session' \in Seq(Messages)
  PROVE  /\ queue' \in Seq(Entries) /\ Len(queue') = Len(session')
         /\ DOMAIN queue' = DOMAIN session'
         /\ \A k \in DOMAIN session' :
              session'[k] \in Messages /\ queue'[k] = Entry(session'[k])
<1>1. /\ Len(session') \in Nat /\ DOMAIN session' = 1 .. Len(session')
      /\ \A k \in DOMAIN session' : session'[k] \in Messages
  BY LenProperties, ElementOfSeq
<1>2. \A k \in DOMAIN session' : Entry(session'[k]) \in Entries
  BY <1>1 DEF Entry, Entries, Messages
<1>3. /\ DOMAIN queue' = DOMAIN session'
      /\ \A k \in DOMAIN session' : queue'[k] = Entry(session'[k])
  BY DEF queue, Entry
<1>4. queue' \in [1 .. Len(session') -> Entries]
  BY <1>1, <1>2 DEF queue, Entry
<1>5. queue' \in Seq(Entries)
  BY <1>1, <1>4, SeqDef
<1>6. Len(queue') = Len(session')
  BY <1>1, <1>3, <1>5, LenProperties
<1> QED
  BY <1>1, <1>3, <1>5, <1>6

(* Both modules have the same commands.                                    *)
LEMMA LinkCommands ==
  /\ Link!Commands = Commands
  /\ \A s, c : Link!Obeyed(s, c) = Obeyed(s, c)
BY DEF Link!Commands, Commands, Link!Obeyed, Obeyed, Link!Branch, Branch,
       Link!Ignored, Ignored

(* An entry whose done is set or cleared.                                  *)
Triple(i, c, d) == [id |-> i, cmd |-> c, done |-> d]
Marked(e, d) == [e EXCEPT !.done = d]

(* Marking replaces done.                                                  *)
LEMMA TripleMarked ==
  \A i, c, d, v : Marked(Triple(i, c, d), v) = Triple(i, c, v)
<1>1. ASSUME NEW i, NEW c, NEW d, NEW v
      PROVE  [[id |-> i, cmd |-> c, done |-> d] EXCEPT !.done = v] =
             [id |-> i, cmd |-> c, done |-> v]
  OBVIOUS
<1> QED
  BY <1>1 DEF Marked, Triple

(* It keeps the command.                                                   *)
LEMMA EntryMarked ==
  ASSUME NEW m
  PROVE  /\ [Entry(m) EXCEPT !.done = TRUE] =
              [id |-> m.id, cmd |-> m.cmd, done |-> TRUE]
         /\ [Entry(m) EXCEPT !.done = FALSE] =
              [id |-> m.id, cmd |-> m.cmd, done |-> FALSE]
<1>1. /\ Marked(Triple(m.id, m.cmd, m.done), TRUE) = Triple(m.id, m.cmd, TRUE)
      /\ Marked(Triple(m.id, m.cmd, m.done), FALSE) = Triple(m.id, m.cmd, FALSE)
  BY TripleMarked
<1> QED
  BY <1>1, Zenon DEF Marked, Triple, Entry

(* Marking a message and marking its entry come to the same.               *)
LEMMA EntryDone ==
  ASSUME NEW m \in Messages
  PROVE  /\ [Entry(m) EXCEPT !.done = TRUE] = Entry([m EXCEPT !.done = TRUE])
         /\ [Entry(m) EXCEPT !.done = TRUE] \in Entries
<1> DEFINE e == [Entry(m) EXCEPT !.done = TRUE]
           f == [m EXCEPT !.done = TRUE]
<1>1. e = [id |-> m.id, cmd |-> m.cmd, done |-> TRUE]
  BY EntryMarked, Zenon
<1>2. f.id = m.id /\ f.cmd = m.cmd /\ f.done = TRUE
  BY DEF Messages
<1> HIDE DEF e, f
<1>3. e = Entry(f)
  BY <1>1, <1>2 DEF Entry
<1>4. e \in Entries
  BY <1>1 DEF Entries, Messages
<1> QED
  BY <1>3, <1>4 DEF e, f

(* Handling a command is an Obey.                                          *)
LEMMA TakeCommandObeys ==
  ASSUME IInv, TakeCommand
  PROVE  \E k \in DOMAIN queue : Link!Obey(k)
<1>1. PICK k \in DOMAIN session :
        /\ k = Place(Head(net).id)
        /\ \A j \in DOMAIN session : k =< j => ~session[j].done
  BY HeadHeld DEF TakeCommand
<1>2. /\ stat' = Obeyed(stat, session[k].cmd)
      /\ session' = [session EXCEPT ![k].done = TRUE]
  BY <1>1 DEF TakeCommand, Handle
<1>3. session \in Seq(Messages) /\ session' \in Seq(Messages)
  BY TakeCommandStep DEF IInv, SystemOK
<1>4. /\ queue \in Seq(Entries) /\ DOMAIN queue = DOMAIN session
      /\ Len(queue) = Len(session)
      /\ \A j \in DOMAIN session :
           session[j] \in Messages /\ queue[j] = Entry(session[j])
  BY <1>3, QueueType
<1>5. /\ queue' \in Seq(Entries) /\ Len(queue') = Len(session')
      /\ DOMAIN queue' = DOMAIN session'
      /\ \A j \in DOMAIN session' :
           session'[j] \in Messages /\ queue'[j] = Entry(session'[j])
  BY <1>3, QueueTypeNext
<1>6. /\ Len(session) \in Nat /\ DOMAIN session = 1 .. Len(session)
      /\ DOMAIN session' = DOMAIN session
  BY <1>2, <1>3, LenProperties
<1>7. \A j \in k .. Len(queue) : ~queue[j].done
  <2> SUFFICES ASSUME NEW j \in k .. Len(queue) PROVE ~queue[j].done
    OBVIOUS
  <2>1. j \in DOMAIN session /\ k =< j
    BY <1>1, <1>4, <1>6
  <2> QED
    BY <1>1, <1>4, <2>1 DEF Entry
<1>8. stat' = Obeyed(stat, queue[k].cmd)
  BY <1>2, <1>1, <1>4 DEF Entry
<1>9. queue' = [queue EXCEPT ![k].done = TRUE]
  <2> DEFINE e == [queue[k] EXCEPT !.done = TRUE]
  <2>1. e = Entry(session'[k])
    <3>1. session'[k] = [session[k] EXCEPT !.done = TRUE]
      BY <1>2, <1>1
    <3>2. queue[k] = Entry(session[k]) /\ session[k] \in Messages
      BY <1>1, <1>4
    <3> QED
      BY <3>1, <3>2, EntryDone
  <2>2. e \in Entries
    <3>1. queue[k] = Entry(session[k]) /\ session[k] \in Messages
      BY <1>1, <1>4
    <3> QED
      BY <3>1, EntryDone
  <2> HIDE DEF e
  <2>3. /\ [queue EXCEPT ![k] = e] \in Seq(Entries)
        /\ Len([queue EXCEPT ![k] = e]) = Len(queue)
        /\ \A j \in 1 .. Len(queue) :
             [queue EXCEPT ![k] = e][j] = IF j = k THEN e ELSE queue[j]
    BY <1>1, <1>4, <1>6, <2>2, ExceptSeq
  <2>4. \A j \in DOMAIN session : j # k => session'[j] = session[j]
    BY <1>2
  <2>5. \A j \in 1 .. Len(queue) : queue'[j] = [queue EXCEPT ![k] = e][j]
    BY <1>4, <1>5, <1>6, <2>1, <2>3, <2>4
  <2>6. Len(queue') = Len(queue)
    BY <1>3, <1>4, <1>5, <1>6, LenProperties
  <2>7. queue' = [queue EXCEPT ![k] = e]
    BY <1>4, <1>5, <2>3, <2>5, <2>6, SeqEqual
  <2> QED
    BY <2>7 DEF e
<1>10. Link!Obey(k)
  BY <1>7, <1>8, <1>9, LinkCommands DEF Link!Obey, queue, Entry
<1>11. k \in DOMAIN queue
  BY <1>1, <1>4
<1> QED
  BY <1>10, <1>11

(* Acknowledging a command is a Settle, or nothing when the link is down.  *)
LEMMA AckSettles ==
  ASSUME IInv, Ack, session' # session
  PROVE  \E k \in DOMAIN queue : Link!Settle(k)
<1>1. PICK k \in DOMAIN session : k = Place(Confirmed) /\ session[k].done
  BY AckedHeld DEF Ack
<1>2. session' = Without(k) /\ stat' = stat
  BY <1>1 DEF Ack
<1>3. session \in Seq(Messages) /\ session' \in Seq(Messages)
  BY AckStep DEF IInv, SystemOK
<1>4. /\ queue \in Seq(Entries) /\ DOMAIN queue = DOMAIN session
      /\ Len(queue) = Len(session)
      /\ \A j \in DOMAIN session :
           /\ session[j] \in Messages /\ queue[j] = Entry(session[j])
           /\ queue[j] \in Entries
  BY <1>3, QueueType
<1>5. /\ queue' \in Seq(Entries) /\ Len(queue') = Len(session')
      /\ DOMAIN queue' = DOMAIN session'
      /\ \A j \in DOMAIN session' : queue'[j] = Entry(session'[j])
  BY <1>3, QueueTypeNext
<1>6. /\ Len(session) \in Nat /\ DOMAIN session = 1 .. Len(session)
      /\ Len(session') = Len(session) - 1
      /\ DOMAIN session' = 1 .. Len(session) - 1
      /\ \A n \in 1 .. Len(session) - 1 :
           session'[n] = IF n < k THEN session[n] ELSE session[n + 1]
  <2>1. /\ Len(session') = Len(session) - 1
        /\ \A n \in 1 .. Len(session) - 1 :
             session'[n] = IF n < k THEN session[n] ELSE session[n + 1]
    BY <1>2, <1>1, <1>3, WithoutType
  <2> QED
    BY <1>3, <2>1, LenProperties
<1>7. /\ Removed(queue, k) \in Seq(Entries)
      /\ Len(Removed(queue, k)) = Len(queue) - 1
      /\ \A n \in 1 .. Len(queue) - 1 :
           Removed(queue, k)[n] = IF n < k THEN queue[n] ELSE queue[n + 1]
  BY <1>4, RemovedType
<1>8. ASSUME NEW n \in 1 .. Len(session) - 1
      PROVE  queue'[n] = Removed(queue, k)[n]
  <2>1. n \in DOMAIN session /\ n + 1 \in DOMAIN session
    BY <1>6
  <2>2. queue'[n] = IF n < k THEN queue[n] ELSE queue[n + 1]
    BY <1>4, <1>5, <1>6, <2>1
  <2> QED
    BY <1>4, <1>7, <2>2
<1>9. queue' = Removed(queue, k)
  BY <1>4, <1>5, <1>6, <1>7, <1>8, SeqEqual
<1>10. queue[k].done
  BY <1>1, <1>4 DEF Entry
<1>11. Link!Settle(k)
  BY <1>2, <1>9, <1>10 DEF Link!Settle, queue, Entry, Removed
<1>12. k \in DOMAIN queue
  BY <1>1, <1>4
<1> QED
  BY <1>11, <1>12

(* A new connection is a Reconnect.                                        *)
LEMMA ConnectReconnects ==
  ASSUME IInv, Connect
  PROVE  Link!Reconnect
<1>1. /\ session \in Seq(Messages) /\ session' \in Seq(Messages) /\ stat' = stat
      /\ session' = [k \in DOMAIN session |->
                       [session[k] EXCEPT !.sent = FALSE, !.done = FALSE]]
  BY ConnectStep DEF IInv, SystemOK, Connect
<1>2. /\ DOMAIN session' = DOMAIN session
      /\ DOMAIN queue = DOMAIN session
      /\ queue' = [k \in DOMAIN session' |-> Entry(session'[k])]
      /\ \A k \in DOMAIN session :
           session[k] \in Messages /\ queue[k] = Entry(session[k])
  BY <1>1, QueueType DEF queue, Entry
<1>3. ASSUME NEW m \in Messages
      PROVE  Entry([m EXCEPT !.sent = FALSE, !.done = FALSE]) =
             [Entry(m) EXCEPT !.done = FALSE]
  <2> DEFINE f == [m EXCEPT !.sent = FALSE, !.done = FALSE]
  <2>1. f.id = m.id /\ f.cmd = m.cmd /\ f.done = FALSE
    BY DEF Messages
  <2>2. [Entry(m) EXCEPT !.done = FALSE] =
          [id |-> m.id, cmd |-> m.cmd, done |-> FALSE]
    BY EntryMarked, Zenon
  <2> HIDE DEF f
  <2>3. Entry(f) = [id |-> m.id, cmd |-> m.cmd, done |-> FALSE]
    BY <2>1 DEF Entry
  <2> QED
    BY <2>2, <2>3 DEF f
<1>4. \A k \in DOMAIN session :
        Entry(session'[k]) = [queue[k] EXCEPT !.done = FALSE]
  <2> SUFFICES ASSUME NEW k \in DOMAIN session
               PROVE  Entry(session'[k]) = [queue[k] EXCEPT !.done = FALSE]
    OBVIOUS
  <2>1. session'[k] = [session[k] EXCEPT !.sent = FALSE, !.done = FALSE]
    BY <1>1
  <2> QED
    BY <1>2, <1>3, <2>1
<1>5. queue' = [k \in DOMAIN queue |-> [queue[k] EXCEPT !.done = FALSE]]
  BY <1>2, <1>4
<1> QED
  BY <1>1, <1>5 DEF Link!Reconnect, queue, Entry

(* A command accepted by the broker joins the queue.                       *)
LEMMA AcceptAccepts ==
  ASSUME IInv, NEW i \in Ids, NEW c \in Commands, Accept(i, c)
  PROVE  Link!Accept(i, c)
<1> DEFINE m == [id |-> i, cmd |-> c, sent |-> FALSE, done |-> FALSE]
           e == [id |-> i, cmd |-> c, done |-> FALSE]
<1>1. /\ session \in Seq(Messages) /\ session' \in Seq(Messages) /\ stat' = stat
      /\ session' = Append(session, m)
      /\ \A k \in DOMAIN session : session[k].id # i
  BY AcceptStep DEF IInv, SystemOK, Accept, HeldIds
<1>2. /\ Entry(m) = e /\ e \in Entries /\ m \in Messages
  BY DEF Entry, Entries, Messages
<1> HIDE DEF m, e
<1>3. /\ queue \in Seq(Entries) /\ DOMAIN queue = DOMAIN session
      /\ Len(queue) = Len(session)
      /\ \A k \in DOMAIN session : queue[k] = Entry(session[k])
  BY <1>1, QueueType
<1>4. /\ queue' \in Seq(Entries) /\ Len(queue') = Len(session')
      /\ DOMAIN queue' = DOMAIN session'
      /\ \A k \in DOMAIN session' : queue'[k] = Entry(session'[k])
  BY <1>1, QueueTypeNext
<1>5. /\ Len(session) \in Nat /\ DOMAIN session = 1 .. Len(session)
      /\ Len(session') = Len(session) + 1
      /\ DOMAIN session' = 1 .. Len(session) + 1
      /\ \A k \in 1 .. Len(session) : session'[k] = session[k]
      /\ session'[Len(session) + 1] = m
  BY <1>1, <1>2, LenProperties, AppendProperties
<1>6. /\ Append(queue, e) \in Seq(Entries)
      /\ Len(Append(queue, e)) = Len(session) + 1
      /\ \A k \in 1 .. Len(session) : Append(queue, e)[k] = queue[k]
      /\ Append(queue, e)[Len(session) + 1] = e
  BY <1>2, <1>3, AppendProperties
<1>7. \A k \in 1 .. Len(session) + 1 : queue'[k] = Append(queue, e)[k]
  BY <1>2, <1>3, <1>4, <1>5, <1>6
<1>8. queue' = Append(queue, e)
  BY <1>4, <1>5, <1>6, <1>7, SeqEqual
<1>9. \A k \in DOMAIN queue : queue[k].id # i
  BY <1>1, <1>3 DEF Entry
<1> QED
  BY <1>1, <1>8, <1>9 DEF Link!Accept, queue, Entry, e

(* Sending a command is not seen by CommandLink.                           *)
LEMMA ForwardStutters ==
  ASSUME IInv, NEW k \in DOMAIN session, Forward(k)
  PROVE  UNCHANGED <<stat, queue>>
<1>1. /\ session \in Seq(Messages) /\ session' \in Seq(Messages) /\ stat' = stat
      /\ session' = [session EXCEPT ![k].sent = TRUE]
  BY ForwardStep DEF IInv, SystemOK, Forward
<1>2. /\ DOMAIN session' = DOMAIN session
      /\ \A j \in DOMAIN session : session[j] \in Messages
  BY <1>1, LenProperties, ElementOfSeq
<1>3. \A j \in DOMAIN session : Entry(session'[j]) = Entry(session[j])
  <2>1. \A j \in DOMAIN session : /\ session'[j].id = session[j].id
                                 /\ session'[j].cmd = session[j].cmd
                                 /\ session'[j].done = session[j].done
    BY <1>1, <1>2 DEF Messages
  <2> QED
    BY <2>1 DEF Entry
<1>4. queue' = [j \in DOMAIN session' |-> Entry(session'[j])]
  BY DEF queue, Entry
<1> QED
  BY <1>1, <1>2, <1>3, <1>4 DEF queue

(* Over flushed packets, time-outs, lost connections and restarts, the     *)
(* commands take effect in order, once per connection, and none is let go  *)
(* before it took effect.                                                  *)
THEOREM Refinement == Spec => ImplementsCommandLink
<1>1. Init => Link!Init
  <2> SUFFICES ASSUME Init PROVE Link!Init
    OBVIOUS
  <2>1. session = <<>> /\ stat = "closed"
    BY DEF Init
  <2>2. /\ queue \in Seq(Entries) /\ Len(queue) = 0
    BY <2>1, QueueType, EmptySeq
  <2>3. queue = <<>>
    BY <2>2, EmptySeq
  <2> QED
    BY <2>1, <2>3 DEF Link!Init, queue, Entry
<1>2. IInv /\ [Next]_vars => [Link!Next]_(Link!vars)
  <2> SUFFICES ASSUME IInv, [Next]_vars
               PROVE  [Link!Next]_(Link!vars)
    OBVIOUS
  <2>1. CASE TakeCommand
    <3>1. \E k \in DOMAIN queue : Link!Obey(k)
      BY <2>1, TakeCommandObeys
    <3> QED
      BY <3>1 DEF Link!Next, queue, Entry
  <2>2. CASE Ack
    <3>1. CASE session' = session
      BY <2>2, <3>1 DEF Ack, Link!vars
    <3>2. CASE session' # session
      <4>1. \E k \in DOMAIN queue : Link!Settle(k)
        BY <2>2, <3>2, AckSettles
      <4> QED
        BY <4>1 DEF Link!Next, queue, Entry
    <3> QED
      BY <3>1, <3>2
  <2>3. CASE Connect
    BY <2>3, ConnectReconnects DEF Link!Next
  <2>4. ASSUME NEW i \in Ids, NEW c \in Commands, Accept(i, c)
        PROVE  Link!Next
    <3>1. Link!Accept(i, c) /\ c \in Link!Commands
      BY <2>4, AcceptAccepts, LinkCommands
    <3> QED
      BY <3>1 DEF Link!Next
  <2>5. ASSUME NEW k \in DOMAIN session, Forward(k)
        PROVE  UNCHANGED Link!vars
    <3>1. UNCHANGED <<stat, queue>>
      BY <2>5, ForwardStutters
    <3> QED
      BY <3>1 DEF Link!vars, queue, Entry
  <2>6. CASE Quiet
    <3>1. session' = session
      BY <2>6, QuietSteps
    <3>2. \/ stat' = stat \/ stat' = "closed"
      BY <2>6 DEF Quiet, Packet, TakeOther, Subscribe, SayConnected, EnterLoop,
           Acknowledged, ReadSomething, Top, EndPass, Report, TimeoutConnect,
           Timeout, Ping, PeriodicTimeout, Restart, Drop, ServerTakes, vars
    <3>3. CASE stat' = stat
      BY <3>1, <3>3 DEF Link!vars
    <3>4. CASE stat' = "closed"
      BY <3>1, <3>4 DEF Link!Next, Link!Reset
    <3> QED
      BY <3>2, <3>3, <3>4
  <2>7. \/ TakeCommand \/ Ack \/ Connect \/ Quiet
        \/ \E i \in Ids, c \in Commands : Accept(i, c)
        \/ \E k \in DOMAIN session : Forward(k)
    BY DEF Next, Door, Thread, Quiet
  <2> QED
    BY <2>1, <2>2, <2>3, <2>4, <2>5, <2>6, <2>7
<1> QED
  BY <1>1, <1>2, Invariance, PTL DEF Spec, ImplementsCommandLink, Link!Spec
=============================================================================
