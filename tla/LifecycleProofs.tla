-------------------------- MODULE LifecycleProofs --------------------------
(***************************************************************************)
(* For messages of any number and length: what a sender gets through the   *)
(* port is in order, a message is spoilt by overlap and loss only, the     *)
(* port outlives all who may rely on it, and no thread is left at the end, *)
(* which comes closer with every step once the window is closed.           *)
(***************************************************************************)
EXTENDS Lifecycle, SequenceTheorems, TLAPS

-----------------------------------------------------------------------------
(* Transmit.                                                               *)

LEMMA InitTx == TxInit => TxInv
<1> SUFFICES ASSUME TxInit PROVE TxInv
  OBVIOUS
<1> USE DEF TxInit
<1>1. TxTypeOK
  BY DEF TxTypeOK
<1>2. Out = << >>
  BY DEF Out
<1> QED
  BY <1>1, <1>2 DEF TxInv, InOrder, PastOnly

\* The types that the steps of a sender keep.
LEMMA BeginTypes ==
  ASSUME TxTypeOK, NEW s \in Senders, Begin(s)
  PROVE  /\ TxTypeOK'
         /\ Current(s)' = Current(s) + 1 /\ pos'[s] = 0
         /\ msgs'[s][Current(s)'] \in Lengths(s)
         /\ \A t \in Senders \ {s} : msgs'[t] = msgs[t] /\ pos'[t] = pos[t]
         /\ Out' = Out
<1>1. PICK n \in Lengths(s) : msgs' = [msgs EXCEPT ![s] = Append(@, n)]
  BY DEF Begin
<1>2. n \in Nat
  BY TransmitAssumption DEF Lengths, TransmitAssumption, Senders
<1>3. msgs[s] \in Seq(Nat) /\ Append(msgs[s], n) \in Seq(Nat)
  BY <1>2 DEF TxTypeOK
<1>4. msgs'[s] = Append(msgs[s], n) /\ msgs' \in [Senders -> Seq(Nat)]
  BY <1>1, <1>3 DEF TxTypeOK
<1>5. Current(s)' = Current(s) + 1 /\ msgs'[s][Current(s)'] = n
  BY <1>2, <1>3, <1>4 DEF Current
<1>6. pos' \in [Senders -> Nat] /\ pos'[s] = 0
  BY DEF Begin, TxTypeOK
<1>7. \A t \in Senders : Current(t) \in Nat
  BY DEF Current, TxTypeOK
<1>8. mixed' \subseteq [from : Senders, msg : Nat]
  BY <1>7 DEF Begin, TxTypeOK, Message
<1> QED
  BY <1>1, <1>4, <1>5, <1>6, <1>8 DEF Begin, TxTypeOK, Out

LEMMA BeginKeeps == ASSUME TxInv, NEW s \in Senders, Begin(s) PROVE TxInv'
<1>1. TxTypeOK
  BY DEF TxInv
<1>2. /\ TxTypeOK' /\ Out' = Out
      /\ Current(s)' = Current(s) + 1
      /\ \A t \in Senders \ {s} : msgs'[t] = msgs[t] /\ pos'[t] = pos[t]
  BY <1>1, BeginTypes
<1>3. \A j \in DOMAIN Out : Out[j] \in Chars
  BY <1>1 DEF TxTypeOK, Out
<1>4. InOrder'
  BY <1>2 DEF TxInv, InOrder, Before
<1>5. PastOnly'
  <2>1. SUFFICES ASSUME NEW j \in DOMAIN Out
        PROVE  LET c == Out[j]
               IN  \/ c.msg < Current(c.from)'
                   \/ c.msg = Current(c.from)' /\ c.i <= pos'[c.from]
    BY <1>2 DEF PastOnly
  <2>2. Out[j].from \in Senders /\ Out[j].msg \in Nat /\ Current(s) \in Nat
    BY <1>1, <1>3 DEF Chars, Current, TxTypeOK
  <2>3. CASE Out[j].from = s
    BY <1>2, <2>2, <2>3 DEF TxInv, PastOnly
  <2>4. CASE Out[j].from # s
    <3>1. Current(Out[j].from)' = Current(Out[j].from) /\ pos'[Out[j].from] = pos[Out[j].from]
      BY <1>2, <2>2, <2>4 DEF Current
    <3> QED
      BY <3>1 DEF TxInv, PastOnly
  <2> QED
    BY <2>3, <2>4
<1> QED
  BY <1>2, <1>4, <1>5 DEF TxInv

\* A character handed over that is not put out leaves the order alone.
LEMMA FailedKeeps ==
  ASSUME TxInv, NEW s \in Senders, pos' = [pos EXCEPT ![s] = @ + 1],
         lost' = lost \cup {Next1(s)}, UNCHANGED <<slot, wire, msgs, mixed>>
  PROVE  TxInv'
<1>1. TxTypeOK /\ Current(s) \in Nat /\ pos[s] \in Nat
  BY DEF TxInv, TxTypeOK, Current
<1>2. Next1(s) \in Chars
  BY <1>1 DEF Next1, Char, Chars
<1>3. TxTypeOK'
  BY <1>1, <1>2 DEF TxTypeOK
<1>4. Out' = Out /\ InOrder'
  BY DEF Out, TxInv, InOrder, Before
<1>5. PastOnly'
  <2>1. \A j \in DOMAIN Out : Out[j].from \in Senders /\ Out[j].i \in Nat
    <3>1. Out \in Seq(Chars)
      BY <1>1 DEF TxTypeOK, Out
    <3>2. \A j \in DOMAIN Out : Out[j] \in Chars
      BY <3>1
    <3> QED
      BY <3>2 DEF Chars
  <2>2. \A t \in Senders : pos'[t] >= pos[t] /\ Current(t)' = Current(t)
                           /\ pos[t] \in Nat /\ pos'[t] \in Nat
    BY <1>1 DEF TxTypeOK, Current
  <2> QED
    BY <1>4, <2>1, <2>2 DEF TxInv, PastOnly
<1> QED
  BY <1>3, <1>4, <1>5 DEF TxInv

LEMMA CharKeeps == ASSUME TxInv, NEW s \in Senders, TransmitCommChar(s) PROVE TxInv'
<1>1. CASE slot # << >>
  BY <1>1, FailedKeeps DEF TransmitCommChar
<1>2. CASE slot = << >>
  <2>1. TxTypeOK /\ Current(s) \in Nat /\ pos[s] \in Nat
    BY DEF TxInv, TxTypeOK, Current
  <2>2. /\ slot' = <<Next1(s)>> /\ pos' = [pos EXCEPT ![s] = @ + 1]
        /\ UNCHANGED <<lost, wire, msgs, mixed>>
    BY <1>2 DEF TransmitCommChar
  <2>3. Next1(s) \in Chars /\ Next1(s).from = s /\ Next1(s).msg = Current(s)
        /\ Next1(s).i = pos[s] + 1
    BY <2>1 DEF Next1, Char, Chars
  <2>4. TxTypeOK'
    BY <2>1, <2>2, <2>3 DEF TxTypeOK
  <2>5. wire \in Seq(Chars) /\ Out = wire
    BY <1>2, <2>1 DEF TxTypeOK, Out
  <2>6. Out' = Append(wire, Next1(s))
    BY <2>2, <2>3, <2>5 DEF Out
  <2>7. /\ DOMAIN Out' = 1 .. Len(wire) + 1 /\ Out'[Len(wire) + 1] = Next1(s)
        /\ DOMAIN Out = 1 .. Len(wire)
        /\ \A j \in 1 .. Len(wire) : Out'[j] = Out[j] /\ Out[j] \in Chars
    BY <2>3, <2>5, <2>6
  <2>8. \A j \in 1 .. Len(wire) : Out[j].from = s => Before(Out[j], Next1(s))
    <3>1. ASSUME NEW j \in 1 .. Len(wire), Out[j].from = s
          PROVE  Before(Out[j], Next1(s))
      <4>1. Out[j].msg \in Nat /\ Out[j].i \in Nat
        BY <2>7 DEF Chars
      <4>2. Out[j].msg < Current(s) \/ (Out[j].msg = Current(s) /\ Out[j].i <= pos[s])
        BY <2>7, <3>1 DEF TxInv, PastOnly
      <4> QED
        BY <2>1, <2>3, <4>1, <4>2 DEF Before
    <3> QED
      BY <3>1
  <2>9. InOrder'
    <3>1. SUFFICES ASSUME NEW j \in DOMAIN Out', NEW k \in DOMAIN Out', j < k,
                          Out'[j].from = Out'[k].from
                   PROVE  Before(Out'[j], Out'[k])
      BY DEF InOrder, Before
    <3>2. Len(wire) \in Nat
      BY <2>5
    <3>3. j \in 1 .. Len(wire)
      BY <2>7, <3>1, <3>2
    <3>4. CASE k = Len(wire) + 1
      BY <2>3, <2>7, <2>8, <3>1, <3>3, <3>4
    <3>5. CASE k # Len(wire) + 1
      <4>1. k \in 1 .. Len(wire)
        BY <2>7, <3>2, <3>5
      <4> QED
        BY <2>7, <3>1, <3>3, <4>1 DEF TxInv, InOrder
    <3> QED
      BY <3>4, <3>5
  <2>10. PastOnly'
    <3>1. SUFFICES ASSUME NEW j \in DOMAIN Out'
          PROVE  LET c == Out'[j]
                 IN  \/ c.msg < Current(c.from)
                     \/ c.msg = Current(c.from) /\ c.i <= pos'[c.from]
      BY <2>2 DEF PastOnly, Current
    <3>2. CASE j = Len(wire) + 1
      BY <2>1, <2>2, <2>3, <2>7, <3>2 DEF TxTypeOK
    <3>3. CASE j # Len(wire) + 1
      <4>1. j \in 1 .. Len(wire)
        BY <2>5, <2>7, <3>3
      <4>2. Out'[j] = Out[j] /\ Out[j] \in Chars /\ j \in DOMAIN Out
        BY <2>7, <4>1
      <4>3. Out[j].from \in Senders /\ Out[j].i \in Nat
        BY <4>2 DEF Chars
      <4>4. pos'[Out[j].from] >= pos[Out[j].from] /\ pos[Out[j].from] \in Nat
            /\ pos'[Out[j].from] \in Nat
        BY <2>1, <2>2, <4>3 DEF TxTypeOK
      <4>5. \/ Out[j].msg < Current(Out[j].from)
            \/ Out[j].msg = Current(Out[j].from) /\ Out[j].i <= pos[Out[j].from]
        BY <4>2 DEF TxInv, PastOnly
      <4> QED
        BY <4>2, <4>3, <4>4, <4>5
    <3> QED
      BY <3>2, <3>3
  <2> QED
    BY <2>4, <2>9, <2>10 DEF TxInv
<1> QED
  BY <1>1, <1>2

LEMMA SentKeeps == TxInv /\ Sent => TxInv'
<1> SUFFICES ASSUME TxInv, Sent PROVE TxInv'
  OBVIOUS
<1>1. wire \in Seq(Chars) /\ slot \in Seq(Chars)
  BY DEF TxInv, TxTypeOK
<1>2. wire \o slot \in Seq(Chars)
  BY <1>1
<1>3. wire' = wire \o slot /\ slot' = << >>
  BY DEF Sent
<1>4. Out' = Out
  BY <1>2, <1>3 DEF Out
<1>5. TxTypeOK'
  BY <1>2, <1>3 DEF Sent, TxInv, TxTypeOK
<1> QED
  BY <1>4, <1>5 DEF TxInv, InOrder, Before, PastOnly, Sent, Current

LEMMA StutterTx == TxInv /\ UNCHANGED txVars => TxInv'
<1> SUFFICES ASSUME TxInv, UNCHANGED txVars PROVE TxInv'
  OBVIOUS
<1>1. TxTypeOK'
  BY DEF TxInv, txVars, TxTypeOK
<1>2. Out' = Out /\ UNCHANGED <<msgs, pos>>
  BY DEF txVars, Out
<1> QED
  BY <1>1, <1>2 DEF TxInv, InOrder, Before, PastOnly, Current

-----------------------------------------------------------------------------
(* What happens to each character, and to a message as a whole.            *)

\* The numbers of messages and characters are numbers, and the record of a
\* character tells who sent it, in which message and at which place.
LEMMA Numbers ==
  ASSUME TxTypeOK
  PROVE  /\ \A s \in Senders : Current(s) \in Nat /\ pos[s] \in Nat
         /\ \A s \in Senders : \A m \in 1 .. Current(s) : msgs[s][m] \in Nat /\ Done(s, m) \in Nat
         /\ Out \in Seq(Chars) /\ Len(Out) \in Nat /\ DOMAIN Out = 1 .. Len(Out)
<1>1. \A s \in Senders : Current(s) \in Nat /\ pos[s] \in Nat /\ msgs[s] \in Seq(Nat)
  BY DEF TxTypeOK, Current
<1>2. \A s \in Senders : \A m \in 1 .. Current(s) : msgs[s][m] \in Nat
  BY <1>1 DEF Current
<1>3. Out \in Seq(Chars)
  BY DEF TxTypeOK, Out
<1>4. Len(Out) \in Nat /\ DOMAIN Out = 1 .. Len(Out)
  BY <1>3
<1> QED
  BY <1>1, <1>2, <1>3, <1>4 DEF Done

\* A sender that hands a character over: who is in the middle of a message.
LEMMA CharEffect ==
  ASSUME TxTypeOK, NEW s \in Senders, Busy(s), pos' = [pos EXCEPT ![s] = @ + 1], UNCHANGED msgs
  PROVE  /\ \A t \in Senders : Busy(t)' => Busy(t)
         /\ \A t \in Senders \ {s} : pos'[t] = pos[t]
         /\ pos[s] = 0 /\ msgs[s][Current(s)] = 1 => ~ Busy(s)'
<1>1. pos'[s] = pos[s] + 1 /\ pos[s] \in Nat /\ \A t \in Senders \ {s} : pos'[t] = pos[t]
  BY DEF TxTypeOK
<1>2. Current(s)' = Current(s) /\ \A t \in Senders : Current(t)' = Current(t)
  BY DEF Current
<1>3. \A t \in Senders \ {s} : Busy(t)' <=> Busy(t)
  BY <1>1, <1>2 DEF Busy
<1> QED
  BY <1>1, <1>2, <1>3 DEF Busy

\* A sender that begins: nobody else's message changes.
LEMMA BeginEffect ==
  ASSUME TxTypeOK, NEW s \in Senders, Begin(s)
  PROVE  \A t \in Senders \ {s} : Busy(t)' <=> Busy(t)
BY BeginTypes DEF Busy, Current

LEMMA CharsDiffer ==
  \A s, m, i, t, k, j : Char(s, m, i) = Char(t, k, j) <=> s = t /\ m = k /\ i = j
<1> TAKE s, m, i, t, k, j
<1>1. Char(s, m, i).from = s /\ Char(s, m, i).msg = m /\ Char(s, m, i).i = i
  BY DEF Char
<1>2. Char(t, k, j).from = t /\ Char(t, k, j).msg = k /\ Char(t, k, j).i = j
  BY DEF Char
<1> QED
  BY <1>1, <1>2

LEMMA MessagesDiffer ==
  \A s, m, t, k : Message(s, m) = Message(t, k) <=> s = t /\ m = k
<1> TAKE s, m, t, k
<1>1. Message(s, m).from = s /\ Message(s, m).msg = m
  BY DEF Message
<1>2. Message(t, k).from = t /\ Message(t, k).msg = k
  BY DEF Message
<1> QED
  BY <1>1, <1>2

\* A new message changes nothing of what was handed over: the one before it is
\* complete.
LEMMA BeginDone ==
  ASSUME TxTypeOK, PosFits, NEW s \in Senders, Begin(s)
  PROVE  /\ \A t \in Senders : \A m \in 1 .. Current(t) : Done(t, m)' = Done(t, m)
         /\ Done(s, Current(s))' = 0
         /\ \A t \in Senders \ {s} : Current(t)' = Current(t)
         /\ PosFits'
<1>1. /\ Current(s)' = Current(s) + 1 /\ pos'[s] = 0
      /\ msgs'[s][Current(s)'] \in Lengths(s)
      /\ \A t \in Senders \ {s} : msgs'[t] = msgs[t] /\ pos'[t] = pos[t]
  BY BeginTypes
<1>2. PICK n \in Lengths(s) : msgs' = [msgs EXCEPT ![s] = Append(@, n)]
  BY DEF Begin
<1>3. n \in Nat
  BY TransmitAssumption DEF Lengths, TransmitAssumption, Senders
<1>4. msgs[s] \in Seq(Nat) /\ msgs'[s] = Append(msgs[s], n)
  BY <1>2 DEF TxTypeOK
<1>5. Current(s) \in Nat /\ pos[s] \in Nat
  BY Numbers
<1>6. \A m \in 1 .. Current(s) : msgs'[s][m] = msgs[s][m]
  BY <1>3, <1>4 DEF Current
<1>7. Current(s) > 0 => pos[s] = msgs[s][Current(s)]
  <2> SUFFICES ASSUME Current(s) > 0 PROVE pos[s] = msgs[s][Current(s)]
    OBVIOUS
  <2>1. msgs[s][Current(s)] \in Nat
    BY <1>5, Numbers
  <2>2. ~ (pos[s] < msgs[s][Current(s)])
    BY DEF Begin, Busy
  <2>3. pos[s] <= msgs[s][Current(s)]
    BY <1>5 DEF PosFits
  <2> QED
    BY <1>5, <2>1, <2>2, <2>3
<1>8. \A m \in 1 .. Current(s) : Done(s, m)' = Done(s, m)
  <2> SUFFICES ASSUME NEW m \in 1 .. Current(s) PROVE Done(s, m)' = Done(s, m)
    OBVIOUS
  <2>1. m \in Int /\ m <= Current(s)
    BY <1>5
  <2>2. Done(s, m)' = msgs[s][m]
    BY <1>1, <1>5, <1>6, <2>1 DEF Done
  <2>3. CASE m < Current(s)
    BY <2>2, <2>3 DEF Done
  <2>4. CASE m = Current(s)
    <3>1. Current(s) > 0
      BY <1>5, <2>4
    <3>2. Done(s, m) = pos[s]
      BY <1>5, <2>4 DEF Done
    <3> QED
      BY <1>7, <2>2, <2>4, <3>1, <3>2
  <2> QED
    BY <1>5, <2>1, <2>3, <2>4
<1>9. \A t \in Senders \ {s} : Current(t)' = Current(t) /\ \A m : Done(t, m)' = Done(t, m)
  BY <1>1 DEF Current, Done
<1>10. Done(s, Current(s))' = 0
  BY <1>1, <1>5 DEF Done
<1>11. PosFits'
  <2> SUFFICES ASSUME NEW t \in Senders
               PROVE  pos'[t] <= IF Current(t)' = 0 THEN 0 ELSE msgs'[t][Current(t)']
    BY DEF PosFits
  <2>1. CASE t = s
    <3>1. msgs'[s][Current(s)'] \in Nat
      BY <1>1, TransmitAssumption DEF Lengths, TransmitAssumption, Senders
    <3> QED
      BY <1>1, <1>5, <2>1, <3>1
  <2>2. CASE t # s
    BY <1>1, <1>9, <2>2 DEF PosFits
  <2> QED
    BY <2>1, <2>2
<1> QED
  BY <1>8, <1>9, <1>10, <1>11

\* A character handed over is one more of its sender's current message.
LEMMA HandOver ==
  ASSUME TxTypeOK, PosFits, NEW s \in Senders, Busy(s),
         pos' = [pos EXCEPT ![s] = @ + 1], msgs' = msgs
  PROVE  /\ \A t \in Senders : Current(t)' = Current(t) /\ (Busy(t)' => Busy(t))
         /\ \A t \in Senders : \A m \in 1 .. Current(t) :
              t # s \/ m # Current(s) => Done(t, m)' = Done(t, m)
         /\ Done(s, Current(s)) = pos[s] /\ Done(s, Current(s))' = pos[s] + 1
         /\ PosFits'
<1>1. pos'[s] = pos[s] + 1 /\ \A t \in Senders \ {s} : pos'[t] = pos[t]
  BY DEF TxTypeOK
<1>2. \A t \in Senders : Current(t)' = Current(t)
  BY DEF Current
<1>3. \A t \in Senders : Current(t) \in Nat /\ pos[t] \in Nat
  BY Numbers
<1>4. Current(s) > 0 /\ pos[s] < msgs[s][Current(s)] /\ msgs[s][Current(s)] \in Nat
  BY <1>3, Numbers DEF Busy
<1>5. \A t \in Senders : Busy(t)' => Busy(t)
  BY CharEffect
<1>6. \A t \in Senders : \A m \in 1 .. Current(t) :
        t # s \/ m # Current(s) => Done(t, m)' = Done(t, m)
  <2> SUFFICES ASSUME NEW t \in Senders, NEW m \in 1 .. Current(t), t # s \/ m # Current(s)
               PROVE  Done(t, m)' = Done(t, m)
    OBVIOUS
  <2>1. CASE t # s
    BY <1>1, <1>2, <2>1 DEF Done
  <2>2. CASE t = s
    <3>1. m < Current(s)
      BY <1>3, <2>2
    <3> QED
      BY <1>2, <2>2, <3>1 DEF Done
  <2> QED
    BY <2>1, <2>2
<1>7. Done(s, Current(s)) = pos[s] /\ Done(s, Current(s))' = pos[s] + 1
  BY <1>1, <1>2, <1>3 DEF Done
<1>8. PosFits'
  <2> SUFFICES ASSUME NEW t \in Senders
               PROVE  pos'[t] <= IF Current(t) = 0 THEN 0 ELSE msgs[t][Current(t)]
    BY <1>2 DEF PosFits
  <2>1. CASE t = s
    BY <1>1, <1>3, <1>4, <2>1
  <2>2. CASE t # s
    BY <1>1, <2>2 DEF PosFits
  <2> QED
    BY <2>1, <2>2
<1> QED
  BY <1>2, <1>5, <1>6, <1>7, <1>8

\* Intact messages were intact before, and lie where they lay.
LEMMA EarlierMessage ==
  ASSUME TxTypeOK, NEW t \in Senders, NEW m \in 1 .. Current(t),
         Done(t, m)' = Done(t, m), mixed \subseteq mixed', lost \subseteq lost',
         Len(Out) <= Len(Out'), \A j \in DOMAIN Out : Out'[j] = Out[j], Len(Out') \in Nat,
         Intact(t, m)' , WholeMessages
  PROVE  \E at \in 0 .. Len(Out') - Done(t, m)' : OutAt(t, m, at)'
<1>1. Len(Out) \in Nat /\ DOMAIN Out = 1 .. Len(Out) /\ Done(t, m) \in Nat
  BY Numbers
<1>2. Intact(t, m)
  BY DEF Intact, Message, Char
<1>3. PICK at \in 0 .. Len(Out) - Done(t, m) : OutAt(t, m, at)
  BY <1>2 DEF WholeMessages
<1>4. at \in 0 .. Len(Out') - Done(t, m)'
  BY <1>1, <1>3
<1>5. OutAt(t, m, at)'
  <2> SUFFICES ASSUME NEW i \in 1 .. Done(t, m) PROVE Out'[at + i] = Char(t, m, i)
    BY DEF OutAt, Char
  <2>1. at + i \in DOMAIN Out
    BY <1>1, <1>3
  <2>2. Out[at + i] = Char(t, m, i)
    BY <1>3 DEF OutAt
  <2> QED
    BY <2>1, <2>2
<1> QED
  BY <1>4, <1>5

LEMMA InitWire == TxInit => WireInv
<1> SUFFICES ASSUME TxInit PROVE WireInv
  OBVIOUS
<1>1. TxInv
  BY InitTx
<1>2. Out = << >> /\ lost = {} /\ \A s \in Senders : Current(s) = 0 /\ pos[s] = 0 /\ ~ Busy(s)
  BY DEF TxInit, Out, Current, Busy
<1>3. PosFits /\ OverlapMarked /\ IntactIsLast /\ WholeMessages
  BY <1>2 DEF PosFits, OverlapMarked, IntactIsLast, WholeMessages
<1> QED
  BY <1>1, <1>3 DEF WireInv

LEMMA BeginWire == ASSUME WireInv, NEW s \in Senders, Begin(s) PROVE WireInv'
<1> USE DEF WireInv
<1>1. TxTypeOK /\ PosFits
  BY DEF TxInv
<1>2. TxInv' /\ TxTypeOK'
  BY BeginKeeps DEF TxInv
<1>3. /\ Out' = Out /\ Current(s)' = Current(s) + 1 /\ pos'[s] = 0 /\ lost' = lost
      /\ \A t \in Senders \ {s} : msgs'[t] = msgs[t] /\ pos'[t] = pos[t]
  BY <1>1, BeginTypes DEF Begin
<1>4. /\ \A t \in Senders : \A m \in 1 .. Current(t) : Done(t, m)' = Done(t, m)
      /\ Done(s, Current(s))' = 0
      /\ \A t \in Senders \ {s} : Current(t)' = Current(t)
      /\ PosFits'
  BY <1>1, BeginDone
<1>5. \A t \in Senders : Current(t) \in Nat /\ pos[t] \in Nat
  BY <1>1, Numbers
<1>6. Len(Out) \in Nat /\ DOMAIN Out = 1 .. Len(Out)
  BY <1>1, Numbers
<1>7. \A t \in Senders \ {s} : Busy(t)' <=> Busy(t)
  BY <1>1, BeginEffect
<1>8. mixed \subseteq mixed'
  BY DEF Begin
<1>9. ASSUME NEW t \in Senders \ {s}, Busy(t)
      PROVE  Message(s, Current(s) + 1) \in mixed' /\ Message(t, Current(t)) \in mixed'
  BY <1>9 DEF Begin
<1>11. OverlapMarked'
  <2> SUFFICES ASSUME NEW t \in Senders, NEW u \in Senders, t # u, Busy(t)', Busy(u)'
               PROVE  Message(t, Current(t)') \in mixed'
    BY DEF OverlapMarked, Message
  <2>1. CASE t = s
    BY <1>3, <1>7, <1>9, <2>1
  <2>2. CASE t # s
    BY <1>4, <1>7, <1>9, <2>2
  <2> QED
    BY <2>1, <2>2
<1>12. IntactIsLast'
  <2> SUFFICES ASSUME NEW t \in Senders, Busy(t)', Intact(t, Current(t))'
               PROVE  pos'[t] <= Len(Out') /\ OutAt(t, Current(t), Len(Out) - pos[t])'
    BY DEF IntactIsLast
  <2>1. CASE t = s
    <3>1. Done(s, Current(s))' = 0
      BY <1>4
    <3>2. OutAt(s, Current(s), Len(Out) - pos[s])'
      BY <3>1 DEF OutAt
    <3> QED
      BY <1>3, <1>6, <2>1, <3>2
  <2>2. CASE t # s
    <3>0. Busy(t)
      BY <1>7, <2>2
    <3>1. Message(t, Current(t)') \in mixed'
      BY <1>4, <1>9, <2>2, <3>0
    <3> QED
      BY <3>1 DEF Intact, Message
  <2> QED
    BY <2>1, <2>2
<1>13. WholeMessages'
  <2> SUFFICES ASSUME NEW t \in Senders, NEW m \in 1 .. Current(t)', Intact(t, m)'
               PROVE  \E at \in 0 .. Len(Out') - Done(t, m)' : OutAt(t, m, at)'
    BY DEF WholeMessages
  <2>1. CASE m \in 1 .. Current(t)
    BY <1>1, <1>3, <1>4, <1>6, <1>8, <2>1, EarlierMessage
  <2>2. CASE m \notin 1 .. Current(t)
    <3>1. t = s /\ m = Current(s) + 1
      BY <1>3, <1>4, <1>5, <2>2
    <3>2. Done(t, m)' = 0
      BY <1>3, <1>4, <3>1 DEF Done
    <3>3. OutAt(t, m, 0)' /\ 0 \in 0 .. Len(Out') - Done(t, m)'
      BY <1>3, <1>6, <3>2 DEF OutAt
    <3> QED
      BY <3>3
  <2> QED
    BY <2>1, <2>2
<1> QED
  BY <1>2, <1>4, <1>11, <1>12, <1>13

\* What the two ways to hand over a character have in common: no message but
\* its sender's current one is concerned, and other messages under way are
\* marked.
LEMMA CharShared ==
  ASSUME WireInv, NEW s \in Senders, Busy(s),
         pos' = [pos EXCEPT ![s] = @ + 1], UNCHANGED <<msgs, mixed>>
  PROVE  /\ PosFits' /\ OverlapMarked'
         /\ \A t \in Senders \ {s} : Busy(t)' => ~ Intact(t, Current(t))'
<1>1. TxTypeOK /\ PosFits
  BY DEF WireInv, TxInv
<1>2. PosFits' /\ \A t \in Senders : Current(t)' = Current(t) /\ (Busy(t)' => Busy(t))
  BY <1>1, HandOver
<1>3. OverlapMarked'
  BY <1>2 DEF WireInv, OverlapMarked, Message
<1>4. ASSUME NEW t \in Senders \ {s}, Busy(t)' PROVE ~ Intact(t, Current(t))'
  <2>1. Message(t, Current(t)) \in mixed
    BY <1>2, <1>4 DEF WireInv, OverlapMarked
  <2> QED
    BY <1>2, <2>1 DEF Intact, Message
<1> QED
  BY <1>2, <1>3, <1>4

\* A call that fails.
LEMMA FailedWire ==
  ASSUME WireInv, NEW s \in Senders, Busy(s), pos' = [pos EXCEPT ![s] = @ + 1],
         lost' = lost \cup {Next1(s)}, UNCHANGED <<slot, wire, msgs, mixed>>
  PROVE  WireInv'
<1>1. TxTypeOK /\ PosFits
  BY DEF WireInv, TxInv
<1>2. TxInv'
  BY FailedKeeps DEF WireInv
<1>3. /\ \A t \in Senders : Current(t)' = Current(t)
      /\ \A t \in Senders : \A m \in 1 .. Current(t) :
           t # s \/ m # Current(s) => Done(t, m)' = Done(t, m)
      /\ Done(s, Current(s)) = pos[s] /\ Done(s, Current(s))' = pos[s] + 1
  BY <1>1, HandOver
<1>4. Out' = Out /\ Len(Out) \in Nat /\ DOMAIN Out = 1 .. Len(Out) /\ pos[s] \in Nat
  BY <1>1, Numbers DEF Out
<1>6. PosFits' /\ OverlapMarked' /\ \A t \in Senders \ {s} : Busy(t)' => ~ Intact(t, Current(t))'
  BY CharShared
<1>7. ~ Intact(s, Current(s))'
  <2>1. Char(s, Current(s), pos[s] + 1) \in lost' /\ pos[s] + 1 \in 1 .. Done(s, Current(s))'
    BY <1>3, <1>4 DEF Next1
  <2> QED
    BY <1>3, <2>1 DEF Intact, Char
<1>8. IntactIsLast'
  BY <1>6, <1>7 DEF IntactIsLast
<1>9. WholeMessages'
  <2> SUFFICES ASSUME NEW t \in Senders, NEW m \in 1 .. Current(t), Intact(t, m)'
               PROVE  \E at \in 0 .. Len(Out') - Done(t, m)' : OutAt(t, m, at)'
    BY <1>3 DEF WholeMessages
  <2>1. t # s \/ m # Current(s)
    BY <1>3, <1>7
  <2>2. Done(t, m)' = Done(t, m)
    BY <1>3, <2>1
  <2> QED
    BY <1>1, <1>4, <2>2, EarlierMessage DEF WireInv
<1> QED
  BY <1>2, <1>6, <1>8, <1>9 DEF WireInv

\* A character that the driver takes.
LEMMA TakenWire ==
  ASSUME WireInv, NEW s \in Senders, TransmitCommChar(s), slot = << >>
  PROVE  WireInv'
<1>0. /\ Busy(s) /\ pos' = [pos EXCEPT ![s] = @ + 1] /\ slot' = <<Next1(s)>>
      /\ UNCHANGED <<lost, wire, msgs, mixed>>
  BY DEF TransmitCommChar
<1>1. TxTypeOK /\ PosFits
  BY DEF WireInv, TxInv
<1>2. TxInv'
  BY CharKeeps DEF WireInv
<1>3. /\ \A t \in Senders : Current(t)' = Current(t)
      /\ \A t \in Senders : \A m \in 1 .. Current(t) :
           t # s \/ m # Current(s) => Done(t, m)' = Done(t, m)
      /\ Done(s, Current(s)) = pos[s] /\ Done(s, Current(s))' = pos[s] + 1
  BY <1>0, <1>1, HandOver
<1>4. Len(Out) \in Nat /\ DOMAIN Out = 1 .. Len(Out) /\ pos[s] \in Nat /\ Current(s) \in Nat
  BY <1>1, Numbers
<1>5. /\ DOMAIN Out' = 1 .. Len(Out) + 1 /\ Len(Out') = Len(Out) + 1
      /\ Out'[Len(Out) + 1] = Next1(s) /\ \A j \in DOMAIN Out : Out'[j] = Out[j]
  <2>1. Next1(s) \in Chars
    BY <1>4 DEF Next1, Char, Chars
  <2>2. wire \in Seq(Chars) /\ Out = wire /\ Out' = Append(wire, Next1(s))
    BY <1>0, <1>1, <2>1 DEF TxTypeOK, Out
  <2> QED
    BY <2>1, <2>2
<1>7. PosFits' /\ OverlapMarked' /\ \A t \in Senders \ {s} : Busy(t)' => ~ Intact(t, Current(t))'
  BY <1>0, CharShared
<1>8. ASSUME Intact(s, Current(s))'
      PROVE  /\ pos[s] <= Len(Out) /\ pos'[s] <= Len(Out')
             /\ OutAt(s, Current(s), Len(Out) - pos[s])'
  <2>1. Intact(s, Current(s))
    BY <1>0, <1>3, <1>4, <1>8 DEF Intact, Message, Char
  <2>2. pos[s] <= Len(Out) /\ OutAt(s, Current(s), Len(Out) - pos[s])
    BY <1>0, <2>1 DEF WireInv, IntactIsLast
  <2>3. pos'[s] = pos[s] + 1 /\ Len(Out') - pos'[s] = Len(Out) - pos[s]
    BY <1>0, <1>1, <1>4, <1>5 DEF TxTypeOK
  <2>4. ASSUME NEW i \in 1 .. pos[s] + 1
        PROVE  Out'[Len(Out) - pos[s] + i] = Char(s, Current(s), i)
    <3>1. CASE i = pos[s] + 1
      <4>1. Len(Out) - pos[s] + i = Len(Out) + 1
        BY <1>4, <3>1
      <4> QED
        BY <1>5, <3>1, <4>1 DEF Next1
    <3>2. CASE i # pos[s] + 1
      <4>1. i \in 1 .. Done(s, Current(s)) /\ Len(Out) - pos[s] + i \in DOMAIN Out
        BY <1>3, <1>4, <2>2, <3>2
      <4>2. Out[Len(Out) - pos[s] + i] = Char(s, Current(s), i)
        BY <2>2, <4>1 DEF OutAt
      <4> QED
        BY <1>5, <4>1, <4>2
    <3> QED
      BY <3>1, <3>2
  <2>5. OutAt(s, Current(s), Len(Out) - pos[s])'
    BY <1>3, <2>3, <2>4 DEF OutAt, Char
  <2> QED
    BY <1>4, <1>5, <2>2, <2>3, <2>5
<1>9. IntactIsLast'
  BY <1>7, <1>8 DEF IntactIsLast
<1>10. WholeMessages'
  <2> SUFFICES ASSUME NEW t \in Senders, NEW m \in 1 .. Current(t), Intact(t, m)'
               PROVE  \E at \in 0 .. Len(Out') - Done(t, m)' : OutAt(t, m, at)'
    BY <1>3 DEF WholeMessages
  <2>1. CASE t = s /\ m = Current(s)
    <3>1. Intact(s, Current(s))'
      BY <1>3, <2>1
    <3>2. pos'[s] = pos[s] + 1 /\ Len(Out') - pos'[s] = Len(Out) - pos[s]
      BY <1>0, <1>1, <1>4, <1>5 DEF TxTypeOK
    <3>3. PICK at : at = Len(Out) - pos[s]
      OBVIOUS
    <3>4. Done(t, m)' = pos[s] + 1
      BY <1>3, <2>1 DEF Done
    <3>5. at \in 0 .. Len(Out') - Done(t, m)'
      BY <1>4, <1>5, <1>8, <3>1, <3>3, <3>4
    <3>6. OutAt(t, m, at)'
      BY <1>3, <1>8, <2>1, <3>1, <3>2, <3>3, <3>4 DEF OutAt, Char
    <3> QED
      BY <3>5, <3>6
  <2>2. CASE t # s \/ m # Current(s)
    <3>1. Done(t, m)' = Done(t, m)
      BY <1>3, <2>2
    <3>2. mixed \subseteq mixed' /\ lost \subseteq lost' /\ Len(Out) <= Len(Out')
          /\ Len(Out') \in Nat
      BY <1>0, <1>4, <1>5
    <3> QED
      BY <1>1, <1>5, <3>1, <3>2, EarlierMessage DEF WireInv
  <2> QED
    BY <2>1, <2>2
<1> QED
  BY <1>2, <1>7, <1>9, <1>10 DEF WireInv

LEMMA CharWire == ASSUME WireInv, NEW s \in Senders, TransmitCommChar(s) PROVE WireInv'
<1>1. CASE slot = << >>
  BY <1>1, TakenWire
<1>2. CASE slot # << >>
  BY <1>2, FailedWire DEF TransmitCommChar
<1> QED
  BY <1>1, <1>2

\* Whether a character is on the wire or still in the driver makes no
\* difference.
LEMMA SameOutWire ==
  ASSUME WireInv, TxInv', Out' = Out, UNCHANGED <<msgs, pos, lost, mixed>>
  PROVE  WireInv'
<1>1. PosFits' /\ OverlapMarked'
  BY DEF WireInv, PosFits, OverlapMarked, Busy, Current, Message
<1>4. \A s, m : (Intact(s, m)' <=> Intact(s, m)) /\ Done(s, m)' = Done(s, m)
  BY DEF Intact, Done, Current, Message, Char
<1>5. \A s, m, at : OutAt(s, m, at)' <=> OutAt(s, m, at)
  BY <1>4 DEF OutAt, Char
<1>6. \A s : Current(s)' = Current(s) /\ (Busy(s)' <=> Busy(s))
  BY DEF Current, Busy
<1>7. IntactIsLast'
  <2> SUFFICES ASSUME NEW s \in Senders, Busy(s)', Intact(s, Current(s))'
               PROVE  pos'[s] <= Len(Out') /\ OutAt(s, Current(s), Len(Out) - pos[s])'
    BY DEF IntactIsLast
  <2>1. Busy(s) /\ Intact(s, Current(s))
    BY <1>6 DEF Intact, Done, Current, Message, Char
  <2>2. pos[s] <= Len(Out) /\ OutAt(s, Current(s), Len(Out) - pos[s])
    BY <2>1 DEF WireInv, IntactIsLast
  <2> QED
    BY <2>2 DEF OutAt, Done, Current, Char
<1>8. WholeMessages'
  BY <1>4, <1>5, <1>6 DEF WireInv, WholeMessages
<1> QED
  BY <1>1, <1>7, <1>8 DEF WireInv

LEMMA StutterWire == WireInv /\ UNCHANGED txVars => WireInv'
<1> SUFFICES ASSUME WireInv, UNCHANGED txVars PROVE WireInv'
  OBVIOUS
<1>1. TxInv' /\ Out' = Out
  BY StutterTx DEF WireInv, txVars, Out
<1> QED
  BY <1>1, SameOutWire DEF txVars

LEMMA SentWire == WireInv /\ Sent => WireInv'
<1> SUFFICES ASSUME WireInv, Sent PROVE WireInv'
  OBVIOUS
<1>1. TxInv'
  BY SentKeeps DEF WireInv
<1>2. Out' = Out
  BY DEF WireInv, TxInv, TxTypeOK, Sent, Out
<1> QED
  BY <1>1, <1>2, SameOutWire DEF Sent

\* Every step of the program keeps the senders' invariant; the one step that
\* Transmit does not have is a call that fails because the port is not open.
LEMMA WireKeeps == WireInv /\ [LifeNext]_lifeVars => WireInv'
<1> SUFFICES ASSUME WireInv, [LifeNext]_lifeVars PROVE WireInv'
  OBVIOUS
<1> USE DEF Senders
<1>1. CASE MainSteps
  <2>1. CASE CommandChar
    BY <2>1, CharWire DEF CommandChar
  <2>2. CASE UNCHANGED txVars
    BY <2>2, StutterWire
  <2> QED
    BY <1>1, <2>1, <2>2 DEF MainSteps, LuaConstructed, OpenPort, NoPort, StartSerial, SetStop,
                            JoinSerial, ClosePort, SetQuit, JoinLua
<1>2. CASE User
  <2>1. CASE Command
    BY <2>1, BeginWire DEF Command
  <2>2. CASE UNCHANGED txVars
    BY <2>2, StutterWire
  <2> QED
    BY <1>2, <2>1, <2>2 DEF User, RunTest, CloseWindow, ConsoleInput
<1>3. CASE SerialSteps
  <2>1. CASE TakeKey
    BY <2>1, BeginWire DEF TakeKey
  <2>2. CASE KeyChar
    BY <2>2, CharWire DEF KeyChar
  <2>3. CASE UNCHANGED txVars
    BY <2>3, StutterWire
  <2> QED
    BY <1>3, <2>1, <2>2, <2>3 DEF SerialSteps, StartRead, NoKey, Discard, TakeStop
<1>4. CASE LuaSteps
  <2>1. CASE TxChar
    BY <2>1, CharWire, FailedWire DEF TxChar
  <2>2. CASE UNCHANGED txVars
    BY <2>2, StutterWire
  <2> QED
    BY <1>4, <2>1, <2>2 DEF LuaSteps, Return, TakeQuit, TakeExec
<1>5. CASE Tx
  BY <1>5, BeginWire, StutterWire DEF Tx
<1>6. CASE Driver
  BY <1>6, SentWire DEF Driver
<1>7. CASE WaitFails
  BY <1>7, StutterWire DEF WaitFails
<1>8. CASE UNCHANGED lifeVars
  BY <1>8, StutterWire DEF lifeVars
<1> QED
  BY <1>1, <1>2, <1>3, <1>4, <1>5, <1>6, <1>7, <1>8 DEF LifeNext

\* The invariant of the senders holds in the program as a whole.
THEOREM TransmitInvariant == LifeSpec => []WireInv
<1>1. LifeInit => WireInv
  BY InitWire DEF LifeInit
<1> QED
  BY <1>1, WireKeeps, PTL DEF LifeSpec

\* What a sender gets through is in its order and sent once.
THEOREM SentInOrder == LifeSpec => []InOrder
BY TransmitInvariant, PTL DEF WireInv, TxInv

\* Only overlap and loss spoil a message.
THEOREM MessagesWhole == LifeSpec => []WholeMessages
BY TransmitInvariant, PTL DEF WireInv

-----------------------------------------------------------------------------
(* Lifecycle.                                                              *)

LEMMA CharTypes == ASSUME TxTypeOK, NEW s \in Senders, TransmitCommChar(s) PROVE TxTypeOK'
<1>1. Current(s) \in Nat /\ pos[s] \in Nat
  BY DEF TxTypeOK, Current
<1>2. Next1(s) \in Chars
  BY <1>1 DEF Next1, Char, Chars
<1>3. pos' \in [Senders -> Nat]
  BY <1>1 DEF TransmitCommChar, TxTypeOK
<1>4. slot' \in Seq(Chars) /\ Len(slot') <= 1 /\ lost' \subseteq Chars
  <2>1. CASE slot = << >>
    <3>1. slot' = <<Next1(s)>> /\ lost' = lost
      BY <2>1 DEF TransmitCommChar
    <3> QED
      BY <3>1, <1>2 DEF TxTypeOK
  <2>2. CASE slot # << >>
    <3>1. slot' = slot /\ lost' = lost \cup {Next1(s)}
      BY <2>2 DEF TransmitCommChar
    <3> QED
      BY <3>1, <1>2 DEF TxTypeOK
  <2> QED
    BY <2>1, <2>2
<1> QED
  BY <1>3, <1>4 DEF TransmitCommChar, TxTypeOK

LEMMA InitLife == LifeInit => LifeInv
<1> SUFFICES ASSUME LifeInit PROVE LifeInv
  OBVIOUS
<1>1. TxTypeOK
  BY InitTx DEF LifeInit, TxInv
<1>2. \A s \in Senders : ~ Busy(s)
  BY DEF LifeInit, TxInit, Busy, Current
<1> QED
  BY <1>1, <1>2 DEF LifeInit, LifeInv, Built, Senders

\* What a step that sends nothing leaves alone.
LEMMA QuietStep ==
  ASSUME LifeInv, UNCHANGED txVars
  PROVE  /\ TxTypeOK' /\ \A s \in Senders : Busy(s)' <=> Busy(s)
         /\ UNCHANGED pos /\ UNCHANGED msgs /\ Current("serial")' = Current("serial")
BY DEF LifeInv, txVars, TxTypeOK, Busy, Current

\* The main thread and the user.
LEMMA MainLife == LifeInv /\ (MainSteps \/ User) => LifeInv'
<1> SUFFICES ASSUME LifeInv, MainSteps \/ User PROVE LifeInv'
  OBVIOUS
<1> USE DEF LifeInv, Main, Goto, Alive, Built, Senders, luaVars, serialVars
<1>1. CASE LuaConstructed
  BY <1>1, QuietStep DEF LuaConstructed
<1>2. CASE OpenPort
  BY <1>2, QuietStep DEF OpenPort
<1>3. CASE NoPort
  BY <1>3, QuietStep DEF NoPort
<1>4. CASE StartSerial
  BY <1>4, QuietStep DEF StartSerial
<1>5. CASE CommandChar
  <2>1. TxTypeOK' /\ Busy("window")
    BY <1>5, CharTypes DEF CommandChar, TransmitCommChar
  <2>2. \A t \in Senders : Busy(t)' => Busy(t)
    BY <1>5, <2>1, CharEffect DEF CommandChar, TransmitCommChar
  <2>3. pos'["serial"] = pos["serial"] /\ UNCHANGED msgs
    BY <1>5 DEF CommandChar, TransmitCommChar, TxTypeOK
  <2> QED
    BY <1>5, <2>1, <2>2, <2>3 DEF CommandChar, Current
<1>6. CASE SetStop
  BY <1>6, QuietStep DEF SetStop
<1>7. CASE JoinSerial
  BY <1>7, QuietStep DEF JoinSerial
<1>8. CASE ClosePort
  BY <1>8, QuietStep DEF ClosePort
<1>9. CASE SetQuit
  BY <1>9, QuietStep DEF SetQuit
<1>10. CASE JoinLua
  BY <1>10, QuietStep DEF JoinLua
<1>11. CASE Command
  <2>1. /\ TxTypeOK' /\ msgs'["serial"] = msgs["serial"] /\ pos'["serial"] = pos["serial"]
    BY <1>11, BeginTypes DEF Command
  <2>2. (Busy("serial")' <=> Busy("serial")) /\ (Busy("lua")' <=> Busy("lua"))
    BY <1>11, BeginEffect DEF Command
  <2> QED
    BY <1>11, <2>1, <2>2 DEF Command, Current
<1>12. CASE RunTest
  BY <1>12, QuietStep DEF RunTest
<1>13. CASE CloseWindow
  BY <1>13, QuietStep DEF CloseWindow
<1>14. CASE ConsoleInput
  BY <1>14, QuietStep DEF ConsoleInput
<1> QED
  BY <1>1, <1>2, <1>3, <1>4, <1>5, <1>6, <1>7, <1>8, <1>9, <1>10, <1>11, <1>12, <1>13, <1>14
     DEF MainSteps, User

LEMMA SerialLife == LifeInv /\ (SerialSteps \/ WaitFails) => LifeInv'
<1> SUFFICES ASSUME LifeInv, SerialSteps \/ WaitFails PROVE LifeInv'
  OBVIOUS
<1> USE DEF LifeInv, Main, Goto, Alive, Built, Senders, luaVars, serialVars
<1>1. CASE StartRead
  BY <1>1, QuietStep DEF StartRead
<1>2. CASE TakeKey
  <2>1. /\ TxTypeOK' /\ pos'["serial"] = 0 /\ msgs'["serial"][Current("serial")'] = 1
    BY <1>2, BeginTypes DEF TakeKey, Lengths
  <2>2. (Busy("window")' <=> Busy("window")) /\ (Busy("lua")' <=> Busy("lua"))
    BY <1>2, BeginEffect DEF TakeKey
  <2> QED
    BY <1>2, <2>1, <2>2 DEF TakeKey
<1>3. CASE KeyChar
  <2>1. TxTypeOK' /\ Busy("serial")
    BY <1>3, CharTypes DEF KeyChar, TransmitCommChar
  <2>2. (\A t \in Senders : Busy(t)' => Busy(t)) /\ ~ Busy("serial")'
    BY <1>3, <2>1, CharEffect DEF KeyChar, TransmitCommChar
  <2> QED
    BY <1>3, <2>1, <2>2 DEF KeyChar
<1>4. CASE NoKey
  BY <1>4, QuietStep DEF NoKey
<1>5. CASE Discard
  BY <1>5, QuietStep DEF Discard
<1>6. CASE TakeStop
  BY <1>6, QuietStep DEF TakeStop
<1>7. CASE WaitFails
  BY <1>7, QuietStep DEF WaitFails
<1> QED
  BY <1>1, <1>2, <1>3, <1>4, <1>5, <1>6, <1>7 DEF SerialSteps

LEMMA LuaLife == LifeInv /\ (LuaSteps \/ Tx \/ Driver) => LifeInv'
<1> SUFFICES ASSUME LifeInv, LuaSteps \/ Tx \/ Driver PROVE LifeInv'
  OBVIOUS
<1> USE DEF LifeInv, Main, Goto, Alive, Built, Senders, luaVars, serialVars, Executing
<1>1. CASE TxChar
  <2>1. /\ Busy("lua") /\ pos' = [pos EXCEPT !["lua"] = @ + 1] /\ UNCHANGED msgs
    BY <1>1 DEF TxChar, TransmitCommChar
  <2>2. TxTypeOK'
    <3>1. CASE TransmitCommChar("lua")
      BY <3>1, CharTypes
    <3>2. CASE lost' = lost \cup {Next1("lua")} /\ UNCHANGED <<slot, wire, msgs, mixed>>
      <4>1. Current("lua") \in Nat /\ pos["lua"] \in Nat
        BY DEF TxTypeOK, Current
      <4>2. Next1("lua") \in Chars
        BY <4>1 DEF Next1, Char, Chars
      <4> QED
        BY <2>1, <3>2, <4>1, <4>2 DEF TxTypeOK
    <3> QED
      BY <1>1, <3>1, <3>2 DEF TxChar
  <2>3. (\A t \in Senders : Busy(t)' => Busy(t)) /\ pos'["serial"] = pos["serial"]
    BY <2>1, CharEffect
  <2> QED
    BY <1>1, <2>1, <2>2, <2>3 DEF TxChar, Current
<1>2. CASE Return
  BY <1>2, QuietStep DEF Return
<1>3. CASE TakeQuit
  BY <1>3, QuietStep DEF TakeQuit
<1>4. CASE TakeExec
  BY <1>4, QuietStep DEF TakeExec
<1>5. CASE Tx
  <2>1. CASE ~ delegates
    BY <1>5, <2>1, QuietStep DEF Tx
  <2>2. CASE delegates
    <3>1. Begin("lua") /\ UNCHANGED main /\ lua \notin {"wait", "ended"}
      BY <1>5, <2>2 DEF Tx
    <3>2. TxTypeOK' /\ msgs'["serial"] = msgs["serial"] /\ pos'["serial"] = pos["serial"]
      BY <3>1, BeginTypes
    <3>3. (Busy("serial")' <=> Busy("serial")) /\ (Busy("window")' <=> Busy("window"))
      BY <3>1, BeginEffect
    <3> QED
      BY <1>5, <3>1, <3>2, <3>3 DEF Tx, Current
  <2> QED
    BY <2>1, <2>2
<1>6. CASE Driver
  <2>1. wire \in Seq(Chars) /\ slot \in Seq(Chars)
    BY DEF TxTypeOK
  <2>2. wire \o slot \in Seq(Chars)
    BY <2>1
  <2>3. TxTypeOK' /\ UNCHANGED msgs /\ UNCHANGED pos
    BY <1>6, <2>2 DEF Driver, Sent, TxTypeOK
  <2> QED
    BY <1>6, <2>3 DEF Driver, Busy, Current
<1> QED
  BY <1>1, <1>2, <1>3, <1>4, <1>5, <1>6 DEF LuaSteps

LEMMA StutterLife == LifeInv /\ UNCHANGED lifeVars => LifeInv'
BY QuietStep DEF lifeVars, luaVars, serialVars, LifeInv, Built, Senders

\* The invariant of construction and destruction.
THEOREM LifeInvariant == LifeSpec => []LifeInv
<1>1. LifeInv /\ [LifeNext]_lifeVars => LifeInv'
  BY MainLife, SerialLife, LuaLife, StutterLife DEF LifeNext
<1> QED
  BY <1>1, InitLife, PTL DEF LifeSpec

\* The port is open whenever the window or the serial thread may use it.
THEOREM PortIsThere == LifeSpec => []PortOutlives
<1>1. LifeInv => PortOutlives
  BY DEF LifeInv, PortOutlives
<1> QED
  BY <1>1, LifeInvariant, PTL

\* No thread and no message is left at the end.
THEOREM NothingLeft == LifeSpec => []AllJoined
<1>1. LifeInv => AllJoined
  BY DEF LifeInv, AllJoined, Senders, Built
<1> QED
  BY <1>1, LifeInvariant, PTL
-----------------------------------------------------------------------------
(* How far the program is from its end.                                    *)

\* Types.
LEMMA InitTypes == LifeInit => LifeTypeOK
<1> SUFFICES ASSUME LifeInit PROVE LifeTypeOK
  OBVIOUS
<1> USE LifeAssumption DEF LifeAssumption, LifeInit
<1>1. /\ stuck \in BOOLEAN /\ delegates \in BOOLEAN
      /\ execEvent \in BOOLEAN /\ quitEvent \in BOOLEAN /\ stopEvent \in BOOLEAN
  BY Zenon
<1>2. console \in Seq(ConsoleEvents) /\ events \in 0 .. MaxEvents
  OBVIOUS
<1> QED
  BY <1>1, <1>2, Zenon DEF LifeTypeOK

\* A step of the serial thread takes events off the front of the queue.
LEMMA QueueShortens ==
  ASSUME LifeTypeOK, SerialSteps
  PROVE  /\ console' \in Seq(ConsoleEvents)
         /\ \E d \in Nat : /\ Len(console') = Len(console) - d
                           /\ TakeKey => d > 0
                           /\ Discard /\ console # << >> => d > 0
                           /\ ~ TakeKey /\ ~ Discard => d = 0
<1>0. console \in Seq(ConsoleEvents) /\ Len(console) \in Nat
  BY DEF LifeTypeOK
<1>1. ASSUME NEW k \in 0 .. Len(console), console' = SubSeq(console, k + 1, Len(console))
      PROVE  console' \in Seq(ConsoleEvents) /\ Len(console') = Len(console) - k
  BY <1>0, <1>1
<1>2. CASE TakeKey
  <2>1. PICK k \in DOMAIN console : console' = SubSeq(console, k + 1, Len(console))
    BY <1>2 DEF TakeKey
  <2>2. k \in 0 .. Len(console) /\ k \in Nat /\ k > 0
    BY <1>0, <2>1
  <2>3. ~ Discard
    BY <1>2 DEF TakeKey, Discard
  <2>4. console' \in Seq(ConsoleEvents) /\ Len(console') = Len(console) - k
    BY ONLY <1>1, <2>1, <2>2
  <2> QED
    BY ONLY <1>2, <2>2, <2>3, <2>4
<1>3. CASE Discard
  <2>1. PICK k : k = IF Len(console) < MaxRecords THEN Len(console) ELSE MaxRecords
    OBVIOUS
  <2>2. MaxRecords \in Nat \ {0}
    BY LifeAssumption DEF LifeAssumption
  <2>3. k \in 0 .. Len(console) /\ k \in Nat /\ (console # << >> => k > 0)
    BY <1>0, <2>1, <2>2
  <2>4. console' = SubSeq(console, k + 1, Len(console))
    BY <1>3, <2>1 DEF Discard
  <2>5. ~ TakeKey
    BY <1>3 DEF TakeKey, Discard
  <2>6. console' \in Seq(ConsoleEvents) /\ Len(console') = Len(console) - k
    BY ONLY <1>1, <2>3, <2>4
  <2> QED
    BY ONLY <1>3, <2>3, <2>5, <2>6
<1>4. CASE ~ TakeKey /\ ~ Discard
  <2>1. console' = console
    BY <1>4 DEF SerialSteps, StartRead, KeyChar, NoKey, TakeStop
  <2> QED
    BY <1>0, <1>4, <2>1
<1> QED
  BY <1>2, <1>3, <1>4

LEMMA FlagTypes ==
  LifeTypeOK /\ LifeNext =>
    /\ stuck' \in BOOLEAN /\ delegates' \in BOOLEAN
    /\ execEvent' \in BOOLEAN /\ quitEvent' \in BOOLEAN /\ stopEvent' \in BOOLEAN
<1> SUFFICES ASSUME LifeTypeOK, LifeNext
             PROVE  /\ stuck' \in BOOLEAN /\ delegates' \in BOOLEAN
                    /\ execEvent' \in BOOLEAN /\ quitEvent' \in BOOLEAN /\ stopEvent' \in BOOLEAN
  OBVIOUS
<1> USE LifeAssumption DEF LifeAssumption, LifeTypeOK, luaVars, serialVars
<1>1. CASE LuaConstructed
  BY <1>1, Zenon DEF LuaConstructed
<1>2. CASE SetStop
  BY <1>2, Zenon DEF SetStop
<1>3. CASE SetQuit
  BY <1>3, Zenon DEF SetQuit
<1>4. CASE RunTest
  BY <1>4, Zenon DEF RunTest
<1>5. CASE TakeExec
  BY <1>5, Zenon DEF TakeExec
<1>6. CASE UNCHANGED <<stuck, delegates, execEvent, quitEvent, stopEvent>>
  BY <1>6, Zenon
<1>7. \/ LuaConstructed \/ SetStop \/ SetQuit \/ RunTest \/ TakeExec
      \/ UNCHANGED <<stuck, delegates, execEvent, quitEvent, stopEvent>>
  <2>1. CASE MainSteps
    BY <2>1, Zenon DEF MainSteps, OpenPort, NoPort, StartSerial, CommandChar, JoinSerial, ClosePort,
       JoinLua
  <2>2. CASE User
    BY <2>2, Zenon DEF User, Command, CloseWindow, ConsoleInput
  <2>3. CASE SerialSteps
    BY <2>3, Zenon DEF SerialSteps, StartRead, TakeKey, KeyChar, NoKey, Discard, TakeStop
  <2>4. CASE LuaSteps \/ Tx \/ Driver \/ WaitFails
    BY <2>4, Zenon DEF LuaSteps, TxChar, Return, TakeQuit, Tx, Driver, WaitFails
  <2> QED
    BY <2>1, <2>2, <2>3, <2>4, Zenon DEF LifeNext
<1> QED
  BY <1>1, <1>2, <1>3, <1>4, <1>5, <1>6, <1>7, Zenon

LEMMA StepTypes == LifeTypeOK /\ [LifeNext]_lifeVars => LifeTypeOK'
<1>1. ASSUME LifeTypeOK, UNCHANGED lifeVars PROVE LifeTypeOK'
  <2>1. UNCHANGED <<main, port>> /\ UNCHANGED luaVars /\ UNCHANGED serialVars
    BY <1>1, Zenon DEF lifeVars
  <2>2. /\ main' = main /\ port' = port
        /\ lua' = lua /\ stuck' = stuck /\ delegates' = delegates /\ execEvent' = execEvent
        /\ quitEvent' = quitEvent
        /\ serial' = serial /\ stopEvent' = stopEvent /\ console' = console /\ events' = events
    BY <2>1, Zenon DEF luaVars, serialVars
  <2>3. /\ stuck' \in BOOLEAN /\ delegates' \in BOOLEAN
        /\ execEvent' \in BOOLEAN /\ quitEvent' \in BOOLEAN /\ stopEvent' \in BOOLEAN
    BY <1>1, <2>2, Zenon DEF LifeTypeOK
  <2>4. /\ main' \in {"lua", "port", "thread", "loop", "stop", "join", "serial", "quit", "joinlua",
                       "end", "dead"}
        /\ port' \in {"raw", "open", "closed"} /\ lua' \in {"script", "run", "wait", "ended"}
        /\ serial' \in {"none", "start", "wait", "key", "discard", "ended"}
        /\ console' \in Seq(ConsoleEvents) /\ events' \in 0 .. MaxEvents
    BY <1>1, <2>2 DEF LifeTypeOK
  <2> QED
    BY <2>3, <2>4, Zenon DEF LifeTypeOK
<1>2. ASSUME LifeTypeOK, LifeNext PROVE LifeTypeOK'
  <2> USE DEF Main, Goto, luaVars, serialVars
  <2>0. /\ main \in {"lua", "port", "thread", "loop", "stop", "join", "serial", "quit", "joinlua",
                     "end", "dead"}
        /\ port \in {"raw", "open", "closed"} /\ lua \in {"script", "run", "wait", "ended"}
        /\ serial \in {"none", "start", "wait", "key", "discard", "ended"}
        /\ console \in Seq(ConsoleEvents) /\ events \in 0 .. MaxEvents /\ MaxEvents \in Nat
    BY <1>2, LifeAssumption DEF LifeTypeOK, LifeAssumption
  <2>1. /\ main' \in {"lua", "port", "thread", "loop", "stop", "join", "serial", "quit", "joinlua",
                      "end", "dead"}
        /\ port' \in {"raw", "open", "closed"} /\ lua' \in {"script", "run", "wait", "ended"}
        /\ serial' \in {"none", "start", "wait", "key", "discard", "ended"}
        /\ console' \in Seq(ConsoleEvents) /\ events' \in 0 .. MaxEvents
    <3>1. CASE MainSteps
      BY <2>0, <3>1 DEF MainSteps, LuaConstructed, OpenPort, NoPort, StartSerial, CommandChar,
         SetStop, JoinSerial, ClosePort, SetQuit, JoinLua
    <3>2. CASE User
      <4>1. CASE ConsoleInput
        <5>1. console' \in Seq(ConsoleEvents)
          BY <2>0, <4>1 DEF ConsoleInput
        <5> QED
          BY <2>0, <4>1, <5>1 DEF ConsoleInput
      <4>2. CASE Command \/ RunTest \/ CloseWindow
        BY <2>0, <4>2 DEF Command, RunTest, CloseWindow
      <4> QED
        BY <3>2, <4>1, <4>2 DEF User
    <3>3. CASE SerialSteps
      <4>1. console' \in Seq(ConsoleEvents)
        BY <1>2, <2>0, <3>3, QueueShortens
      <4> QED
        BY <2>0, <3>3, <4>1 DEF SerialSteps, StartRead, TakeKey, KeyChar, NoKey, Discard, TakeStop
    <3>4. CASE LuaSteps \/ Tx \/ Driver \/ WaitFails
      BY <2>0, <3>4 DEF LuaSteps, TxChar, Return, TakeQuit, TakeExec, Tx, Driver, WaitFails
    <3> QED
      BY <1>2, <3>1, <3>2, <3>3, <3>4 DEF LifeNext
  <2> QED
    BY <1>2, <2>1, FlagTypes, Zenon DEF LifeTypeOK
<1> QED
  BY <1>1, <1>2

\* Who has been told to end.
LEMMA StepTold == LifeInv /\ LifeTypeOK /\ EndTold /\ [LifeNext]_lifeVars => EndTold'
<1> SUFFICES ASSUME LifeInv, LifeTypeOK, EndTold, [LifeNext]_lifeVars PROVE EndTold'
  OBVIOUS
<1> USE DEF EndTold, Main, Goto, luaVars, serialVars
<1>1. CASE MainSteps
  BY <1>1 DEF MainSteps, LuaConstructed, OpenPort, NoPort, StartSerial, CommandChar, SetStop,
     JoinSerial, ClosePort, SetQuit, JoinLua
<1>2. CASE User
  <2>1. CASE ConsoleInput
    <3>1. console' # << >>
      BY <2>1 DEF ConsoleInput, LifeTypeOK
    <3> QED
      BY <2>1, <3>1 DEF ConsoleInput
  <2>2. CASE Command \/ RunTest \/ CloseWindow
    BY <2>2 DEF Command, RunTest, CloseWindow
  <2> QED
    BY <1>2, <2>1, <2>2 DEF User
<1>3. CASE SerialSteps
  BY <1>3 DEF SerialSteps, StartRead, TakeKey, KeyChar, NoKey, Discard, TakeStop
<1>4. CASE LuaSteps
  BY <1>4 DEF LuaSteps, TxChar, Return, TakeQuit, TakeExec
<1>5. CASE Tx
  BY <1>5 DEF Tx
<1>6. CASE WaitFails
  BY <1>6 DEF WaitFails
<1>7. CASE UNCHANGED <<main, serial, stopEvent, quitEvent, lua, console>>
  BY <1>7
<1> QED
  BY <1>1, <1>2, <1>3, <1>4, <1>5, <1>6, <1>7 DEF LifeNext, Driver, lifeVars

\* The types of the program's state.
THEOREM LifeTypes == LifeSpec => []LifeTypeOK
BY InitTypes, StepTypes, PTL DEF LifeSpec

\* Neither join of the destructors waits for a thread that was not told to end.
THEOREM NeverJoinsUntold == LifeSpec => []EndTold
<1>1. LifeInit => EndTold
  BY DEF LifeInit, EndTold
<1> QED
  BY <1>1, StepTold, LifeInvariant, LifeTypes, PTL DEF LifeSpec

\* The counts that ClosingLeft adds up.
LEMMA Counts ==
  ASSUME TxTypeOK
  PROVE  CharsLeft("lua") \in Nat /\ Len(slot) \in Nat
<1>1. msgs["lua"] \in Seq(Nat) /\ pos["lua"] \in Nat /\ slot \in Seq(Chars)
  BY DEF TxTypeOK, Senders
<1>2. Busy("lua") => msgs["lua"][Current("lua")] \in Nat
  BY <1>1 DEF Busy, Current
<1> QED
  BY <1>1, <1>2 DEF CharsLeft, Busy

\* A character less to hand over, whatever becomes of it.
LEMMA CharTaken ==
  ASSUME TxTypeOK, Busy("lua"), pos' = [pos EXCEPT !["lua"] = @ + 1], UNCHANGED msgs
  PROVE  CharsLeft("lua")' = CharsLeft("lua") - 1
<1> DEFINE m == msgs["lua"][Current("lua")]
<1>1. msgs["lua"] \in Seq(Nat) /\ pos["lua"] \in Nat /\ pos'["lua"] = pos["lua"] + 1
  BY DEF TxTypeOK, Senders
<1>2. Current("lua")' = Current("lua") /\ Current("lua") > 0 /\ m' = m
  BY DEF Current, Busy
<1>3. m \in Nat /\ pos["lua"] < m
  BY <1>1, <1>2 DEF Busy, Current
<1>4. CharsLeft("lua") = m - pos["lua"]
  BY DEF CharsLeft
<1>5. Busy("lua")' <=> pos["lua"] + 1 < m
  BY <1>1, <1>2 DEF Busy
<1>6. CharsLeft("lua")' = IF pos["lua"] + 1 < m THEN m - (pos["lua"] + 1) ELSE 0
  BY <1>1, <1>2, <1>5 DEF CharsLeft
<1> HIDE DEF m
<1> QED
  BY <1>1, <1>3, <1>4, <1>6

\* What a step changes of ClosingLeft when it sends nothing, and when it hands
\* over a character.
LEMMA QuietCounts ==
  ASSUME UNCHANGED txVars
  PROVE  CharsLeft("lua")' = CharsLeft("lua") /\ Len(slot') = Len(slot)
BY DEF txVars, CharsLeft, Busy, Current

LEMMA SlotFills ==
  ASSUME TxTypeOK, NEW s \in Senders, TransmitCommChar(s)
  PROVE  \E k \in {0, 1} : Len(slot') = Len(slot) + k
<1>1. slot \in Seq(Chars) /\ Len(slot) \in Nat
  BY DEF TxTypeOK
<1>2. CASE slot = << >>
  <2>1. slot' = <<Next1(s)>>
    BY <1>2 DEF TransmitCommChar
  <2>2. Len(slot') = 1 /\ Len(slot) = 0
    BY <1>2, <2>1
  <2> QED
    BY <2>2
<1>3. CASE slot # << >>
  <2>1. slot' = slot
    BY <1>3 DEF TransmitCommChar
  <2> QED
    BY <1>1, <2>1
<1> QED
  BY <1>2, <1>3

\* Once the window is closed, every step but those of others brings the end
\* closer.
LEMMA EndStep ==
  ASSUME LifeInv, LifeTypeOK, EndTold, LifeNext, Closing, ~ Tx, ~ ConsoleInput
  PROVE  ClosingLeft' < ClosingLeft
<1> USE DEF MainStage, SerialStage, LuaStage, Main, Goto
<1>0. TxTypeOK /\ ~ Busy("window")
  BY DEF LifeInv, Closing
<1> DEFINE c == CharsLeft("lua")
           n == Len(slot)
           ms == MainStage[main]
           ss == SerialStage[serial]
           ls == LuaStage[lua]
           ev == IF execEvent THEN 2 ELSE 0
           q == Len(console)
<1>1. /\ c \in Nat /\ n \in Nat /\ ms \in Nat /\ ss \in Nat /\ ls \in Nat /\ ev \in Nat
      /\ q \in Nat
  BY <1>0, Counts DEF LifeTypeOK, Closing
<1>2. ClosingLeft = ms + ss + 3 * q + ls + ev + 2 * c + n
  BY DEF ClosingLeft
<1>3. ClosingLeft' = ms' + ss' + 3 * q' + ls' + ev' + 2 * c' + n'
  BY DEF ClosingLeft
<1>4. CASE MainSteps
  <2>1. \/ SetStop \/ JoinSerial \/ ClosePort \/ SetQuit \/ JoinLua
    BY <1>0, <1>4 DEF MainSteps, Closing, LuaConstructed, OpenPort, NoPort, StartSerial,
       CommandChar, TransmitCommChar
  <2>2. UNCHANGED <<txVars, lua, execEvent, serial, console>>
    BY <2>1 DEF SetStop, JoinSerial, ClosePort, SetQuit, JoinLua, luaVars, serialVars
  <2>3. ms' = ms - 1
    BY <2>1 DEF SetStop, JoinSerial, ClosePort, SetQuit, JoinLua
  <2>4. c' = c /\ n' = n /\ ss' = ss /\ ls' = ls /\ ev' = ev /\ q' = q
    BY <2>2, QuietCounts
  <2> HIDE DEF c, n, ms, ss, ls, ev, q, MainStage, SerialStage, LuaStage, Main, Goto
  <2> QED
    BY <1>1, <1>2, <1>3, <2>2, <2>3, <2>4
<1>5. CASE User
  BY <1>5 DEF User, Command, RunTest, CloseWindow, Closing
<1>6. CASE SerialSteps
  <2>1. UNCHANGED <<main, lua, execEvent>>
    BY <1>6 DEF SerialSteps, StartRead, TakeKey, KeyChar, NoKey, Discard, TakeStop, luaVars
  <2>2. ms' = ms /\ ls' = ls /\ ev' = ev
    BY <2>1
  <2>3. CASE StartRead \/ NoKey \/ TakeStop
    <3>0. PICK d \in {1, 2} : ss' = ss - d
      BY <2>3 DEF StartRead, NoKey, TakeStop
    <3>1. UNCHANGED txVars /\ q' = q
      BY <2>3 DEF StartRead, NoKey, TakeStop
    <3>2. c' = c /\ n' = n
      BY <3>1, QuietCounts
    <3> HIDE DEF c, n, ms, ss, ls, ev, q, MainStage, SerialStage, LuaStage, Main, Goto
    <3> QED
      BY <1>1, <1>2, <1>3, <2>2, <3>0, <3>1, <3>2
  <2>4. CASE TakeKey
    <3>0. PICK d \in Nat : q' = q - d /\ d > 0
      BY <1>6, <2>4, QueueShortens
    <3>1. ss = 2 /\ ss' = 4 /\ Begin("serial")
      BY <2>4 DEF TakeKey
    <3>2. c' = c /\ n' = n
      BY <1>0, <3>1, BeginTypes DEF CharsLeft, Busy, Current, Begin, Senders
    <3> HIDE DEF c, n, ms, ss, ls, ev, q, MainStage, SerialStage, LuaStage, Main, Goto
    <3> QED
      BY <1>1, <1>2, <1>3, <2>2, <3>0, <3>1, <3>2
  <2>5. CASE KeyChar
    <3>1. q' = q /\ ss = 4 /\ ss' = 2 /\ TransmitCommChar("serial")
      BY <2>5 DEF KeyChar
    <3>2. c' = c
      BY <1>0, <3>1 DEF TransmitCommChar, TxTypeOK, CharsLeft, Busy, Current, Senders
    <3>3. PICK k \in {0, 1} : n' = n + k
      BY <1>0, <3>1, SlotFills DEF Senders
    <3> HIDE DEF c, n, ms, ss, ls, ev, q, MainStage, SerialStage, LuaStage, Main, Goto
    <3> QED
      BY <1>1, <1>2, <1>3, <2>2, <3>1, <3>2, <3>3
  <2>6. CASE Discard
    <3>0. PICK d \in Nat : q' = q - d /\ d > 0
      BY <1>6, <2>6, QueueShortens DEF Discard, EndTold
    <3>1. UNCHANGED txVars /\ ss = 1 /\ ss' = 2
      BY <2>6 DEF Discard
    <3>2. c' = c /\ n' = n
      BY <3>1, QuietCounts
    <3> HIDE DEF c, n, ms, ss, ls, ev, q, MainStage, SerialStage, LuaStage, Main, Goto
    <3> QED
      BY <1>1, <1>2, <1>3, <2>2, <3>0, <3>1, <3>2
  <2> QED
    BY <1>6, <2>3, <2>4, <2>5, <2>6 DEF SerialSteps
<1>7. CASE LuaSteps
  <2>1. UNCHANGED <<main, serial, console>>
    BY <1>7 DEF LuaSteps, TxChar, Return, TakeQuit, TakeExec, serialVars
  <2>2. ms' = ms /\ ss' = ss /\ q' = q
    BY <2>1
  <2>3. CASE TxChar
    <3>1. /\ Busy("lua") /\ pos' = [pos EXCEPT !["lua"] = @ + 1] /\ UNCHANGED <<msgs, lua, execEvent>>
      BY <2>3 DEF TxChar, TransmitCommChar, luaVars
    <3>2. c' = c - 1 /\ ls' = ls /\ ev' = ev
      BY <1>0, <3>1, CharTaken
    <3>3. PICK k \in {0, 1} : n' = n + k
      <4>1. CASE TransmitCommChar("lua")
        BY <1>0, <4>1, SlotFills DEF Senders
      <4>2. CASE slot' = slot
        BY <1>1, <4>2
      <4> QED
        BY <2>3, <4>1, <4>2 DEF TxChar
    <3> HIDE DEF c, n, ms, ss, ls, ev, q, MainStage, SerialStage, LuaStage, Main, Goto
    <3> QED
      BY <1>1, <1>2, <1>3, <2>1, <2>2, <3>2, <3>3
  <2>4. CASE Return \/ TakeQuit
    <3>1. UNCHANGED <<txVars, execEvent>> /\ ls' = ls - 1
      BY <2>4 DEF Return, TakeQuit, Executing
    <3>2. c' = c /\ n' = n /\ ev' = ev
      BY <3>1, QuietCounts
    <3> HIDE DEF c, n, ms, ss, ls, ev, q, MainStage, SerialStage, LuaStage, Main, Goto
    <3> QED
      BY <1>1, <1>2, <1>3, <2>1, <2>2, <3>1, <3>2
  <2>5. CASE TakeExec
    <3>1. UNCHANGED txVars /\ ls' = ls + 1 /\ ev = 2 /\ ev' = 0
      BY <2>5 DEF TakeExec
    <3>2. c' = c /\ n' = n
      BY <3>1, QuietCounts
    <3> HIDE DEF c, n, ms, ss, ls, ev, q, MainStage, SerialStage, LuaStage, Main, Goto
    <3> QED
      BY <1>1, <1>2, <1>3, <2>1, <2>2, <3>1, <3>2
  <2> QED
    BY <1>7, <2>3, <2>4, <2>5 DEF LuaSteps
<1>8. CASE Driver
  <2>1. UNCHANGED <<main, lua, execEvent, serial, console, msgs, pos>>
        /\ slot # << >> /\ slot' = << >>
    BY <1>8 DEF Driver, Sent, luaVars, serialVars
  <2>2. c' = c /\ ms' = ms /\ ss' = ss /\ ls' = ls /\ ev' = ev /\ q' = q
    BY <2>1 DEF CharsLeft, Busy, Current
  <2>3. n > 0 /\ n' = 0
    BY <1>0, <2>1 DEF TxTypeOK
  <2> HIDE DEF c, n, ms, ss, ls, ev, q, MainStage, SerialStage, LuaStage, Main, Goto
  <2> QED
    BY <1>1, <1>2, <1>3, <2>1, <2>2, <2>3
<1>9. CASE WaitFails
  <2>1. UNCHANGED <<txVars, lua, execEvent, serial, console>> /\ serial = "wait" /\ main' = "dead"
    BY <1>9 DEF WaitFails, luaVars, serialVars
  <2>2. ms > 0 /\ ms' = 0
    BY <2>1 DEF Closing
  <2>3. c' = c /\ n' = n /\ ss' = ss /\ ls' = ls /\ ev' = ev /\ q' = q
    BY <2>1, QuietCounts
  <2> HIDE DEF c, n, ms, ss, ls, ev, q, MainStage, SerialStage, LuaStage, Main, Goto
  <2> QED
    BY <1>1, <1>2, <1>3, <2>2, <2>3
<1> QED
  BY <1>4, <1>5, <1>6, <1>7, <1>8, <1>9 DEF LifeNext

\* Once the window is closed the program nears its end with every step but a key
\* pressed and a message that a function begins.
THEOREM EndsNear == LifeSpec => EndNears
<1>1. LifeInv /\ LifeTypeOK /\ EndTold /\ [LifeNext]_lifeVars =>
        [Closing /\ ~ Tx /\ ~ ConsoleInput => ClosingLeft' < ClosingLeft]_lifeVars
  BY EndStep
<1> QED
  BY <1>1, LifeInvariant, LifeTypes, NeverJoinsUntold, PTL DEF LifeSpec, EndNears
=============================================================================
