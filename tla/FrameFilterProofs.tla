------------------------- MODULE FrameFilterProofs -------------------------
(***************************************************************************)
(* For every alphabet, message size and split of the input into blocks:    *)
(* the frames parse_msg reports have the length their third byte tells,    *)
(* the memory behind msg is written only for a frame too long for it, and  *)
(* frames, sums and text are those that Batch finds in the whole input.    *)
(*                                                                         *)
(* Batch and Sums are recursive functions.  That they exist is shown first *)
(* (an index at a time, by induction over a set of indices), then that     *)
(* they obey their definition, then what one byte more makes of them; with *)
(* this the parser's steps preserve StreamInv.                             *)
(***************************************************************************)
EXTENDS FrameFilter, SequenceTheorems, WellFoundedInduction, TLAPS

LEMMA Constants ==
  /\ ByteMod \in Nat \ {0} /\ Bytes \subseteq 0 .. ByteMod - 1
  /\ START \in 0 .. ByteMod - 1
  /\ MsgSize \in Nat /\ MsgSize > 3
  /\ FilteredSize \in Nat \ {0} /\ FirstSize \in Nat
BY FilterAssumption DEF FilterAssumption

LEMMA BytesAreNumbers == Bytes \subseteq Nat
<1>1. Bytes \subseteq 0 .. ByteMod - 1
  BY Constants
<1>2. 0 .. ByteMod - 1 \subseteq Nat
  BY Constants
<1> QED
  BY <1>1, <1>2, Zenon

LEMMA InitFilter == Init => FilterInv
<1> SUFFICES ASSUME Init PROVE FilterInv
  OBVIOUS
<1> USE Constants DEF Init
<1> QED
  BY DEF FilterInv, TypeOK, FrameInProgress, PendingInInput, FrameShape, RoomLeft

\* A received byte is the last of the input, the bytes before it stay.
LEMMA ReceiveFacts ==
  ASSUME TypeOK, NEW ch \in Bytes, Receive(ch)
  PROVE  /\ input' \in Seq(Bytes) /\ Len(input') = Len(input) + 1
         /\ input'[Len(input) + 1] = ch
         /\ \A i \in 1 .. Len(input) : input'[i] = input[i]
         /\ left' \in Nat /\ left' = left - 1
BY DEF TypeOK, Receive

\* The text stays a sequence of bytes when a byte behind msg overwrites one.
LEMMA TextWithBytes ==
  ASSUME TypeOK, NEW ch \in Bytes
  PROVE  TextWith(ch) \subseteq {s \in Seq(Bytes) : Len(s) = Len(filtered)}
<1>1. filtered \in Seq(Bytes)
  BY DEF TypeOK
<1>2. ASSUME Overrun \in 0 .. Len(filtered) - 1
      PROVE  /\ [filtered EXCEPT ![Overrun + 1] = ch] \in Seq(Bytes)
             /\ Len([filtered EXCEPT ![Overrun + 1] = ch]) = Len(filtered)
  <2> DEFINE i == Overrun + 1
  <2>1. i \in 1 .. Len(filtered)
    BY <1>1, <1>2
  <2> HIDE DEF i
  <2> QED
    BY <1>1, <2>1, ExceptSeq DEF i
<1> QED
  BY <1>1, <1>2 DEF TextWith

LEMMA ReturnFilter == FilterInv /\ Return => FilterInv'
<1> SUFFICES ASSUME FilterInv, Return PROVE FilterInv'
  OBVIOUS
<1> USE Constants DEF FilterInv
<1>1. /\ filtered' = << >> /\ left' = NextRoom
      /\ UNCHANGED <<pos, len, checksum, input, frames>>
  BY DEF Return
<1>2. PICK n \in 0 .. Len(filtered) : shown' = shown \o SubSeq(filtered, 1, n)
  BY DEF Return
<1>3. SubSeq(filtered, 1, n) \in Seq(Bytes)
  BY DEF TypeOK
<1>4. shown' \in Seq(Bytes)
  BY <1>2, <1>3 DEF TypeOK
<1>5. TypeOK'
  BY <1>1, <1>4 DEF TypeOK, NextRoom
<1>6. FrameInProgress' /\ PendingInInput' /\ FrameShape'
  BY <1>1 DEF FrameInProgress, PendingInInput, FrameShape
<1>7. RoomLeft'
  BY <1>1 DEF RoomLeft, NextRoom
<1> QED
  BY <1>5, <1>6, <1>7

LEMMA TextByteFilter ==
  ASSUME FilterInv, NEW ch \in Bytes, TextByte(ch)
  PROVE  FilterInv'
<1> USE Constants DEF FilterInv
<1>1. /\ Receive(ch) /\ pos = 0 /\ filtered' = Append(filtered, ch)
      /\ UNCHANGED <<pos, len, checksum, frames, shown>>
  BY DEF TextByte
<1>2. TypeOK'
  BY <1>1, ReceiveFacts DEF TypeOK
<1>3. FrameInProgress' /\ FrameShape'
  BY <1>1 DEF FrameInProgress, FrameShape
<1>4. PendingInInput'
  BY <1>1, ReceiveFacts DEF PendingInInput, TypeOK
<1>5. RoomLeft'
  BY <1>1, ReceiveFacts DEF RoomLeft, TypeOK
<1> QED
  BY <1>2, <1>3, <1>4, <1>5

LEMMA FrameByteFilter ==
  ASSUME FilterInv, NEW ch \in Bytes, FrameByte(ch)
  PROVE  FilterInv'
<1> USE Constants DEF FilterInv
<1>1. /\ Receive(ch) /\ (pos # 0 \/ ch = START) /\ ~ (pos >= LenWith(ch) + 3)
      /\ len' = LenWith(ch) /\ pos' = pos + 1
      /\ filtered' \in TextWith(ch)
      /\ UNCHANGED <<frames, shown>>
  BY DEF FrameByte, Ends
<1>2. /\ pos \in Nat /\ Len(input) \in Nat /\ ch \in 0 .. ByteMod - 1
      /\ len \in 0 .. ByteMod - 1
  BY DEF TypeOK
<1>3. LenWith(ch) \in 0 .. ByteMod - 1
  BY <1>2 DEF LenWith
<1>4. PICK sum \in SumWith(ch) : checksum' = AddByte(sum, ch)
  BY DEF FrameByte
<1>5. checksum' \in 0 .. ByteMod - 1
  <2>1. sum \in 0 .. ByteMod - 1
    BY <1>2 DEF SumWith, TypeOK
  <2> QED
    BY <1>2, <1>4, <2>1 DEF AddByte
<1>6. filtered' \in Seq(Bytes) /\ Len(filtered') = Len(filtered)
  BY <1>1, TextWithBytes
<1>7. TypeOK'
  BY <1>1, <1>2, <1>3, <1>5, <1>6, ReceiveFacts DEF TypeOK
<1>8. FrameInProgress'
  BY <1>1, <1>2, <1>3 DEF FrameInProgress, LenWith
<1>9. PendingInInput'
  <2>1. pos' <= Len(input') /\ Len(input') - pos' = Len(input) - pos
    BY <1>1, <1>2, ReceiveFacts DEF PendingInInput
  <2>2. input'[Len(input) - pos + 1] = START
    BY <1>1, <1>2, ReceiveFacts DEF PendingInInput
  <2>3. pos > 1 => input'[Len(input) - pos + 3] = LenWith(ch)
    BY <1>1, <1>2, ReceiveFacts DEF PendingInInput, LenWith
  <2> QED
    BY <1>1, <1>2, <2>1, <2>2, <2>3 DEF PendingInInput
<1>10. FrameShape'
  BY <1>1 DEF FrameShape
<1>11. RoomLeft'
  BY <1>1, <1>6, ReceiveFacts DEF RoomLeft, TypeOK
<1> QED
  BY <1>7, <1>8, <1>9, <1>10, <1>11

LEMMA FunctionIsSeq ==
  ASSUME NEW T, NEW n \in Nat, NEW f \in [1 .. n -> T]
  PROVE  f \in Seq(T) /\ Len(f) = n
<1>1. f \in Seq(T)
  BY SeqDef, Zenon
<1>2. DOMAIN f = 1 .. n
  OBVIOUS
<1>3. DOMAIN f = 1 .. Len(f) /\ Len(f) \in Nat
  BY <1>1, LenProperties
<1> QED
  BY <1>1, <1>2, <1>3

\* The report of a frame is as long as the frame, and equal to it if it fits msg.
LEMMA InMsgFacts ==
  ASSUME NEW g \in Seq(Bytes)
  PROVE  /\ InMsg(g) \in Seq(Printed) /\ Len(InMsg(g)) = Len(g)
         /\ \A i \in 1 .. Len(g) : i <= MsgSize => InMsg(g)[i] = g[i]
         /\ Len(g) <= MsgSize => InMsg(g) = g
<1>1. DOMAIN g = 1 .. Len(g) /\ Len(g) \in Nat /\ \A i \in 1 .. Len(g) : g[i] \in Bytes
  OBVIOUS
<1>2. InMsg(g) \in [1 .. Len(g) -> Printed]
  BY <1>1 DEF InMsg, Printed
<1>3. InMsg(g) \in Seq(Printed) /\ Len(InMsg(g)) = Len(g)
  BY <1>1, <1>2, FunctionIsSeq
<1>4. \A i \in 1 .. Len(g) : i <= MsgSize => InMsg(g)[i] = g[i]
  BY <1>1 DEF InMsg
<1>5. ASSUME Len(g) <= MsgSize PROVE InMsg(g) = g
  <2>1. \A i \in 1 .. Len(g) : i <= MsgSize
    BY <1>1, <1>5, Constants
  <2>2. \A i \in 1 .. Len(g) : InMsg(g)[i] = g[i]
    BY <1>4, <2>1
  <2>3. g \in Seq(Printed)
    <3>1. Bytes \subseteq Printed
      BY DEF Printed
    <3> QED
      BY <3>1
  <2> QED
    BY <1>3, <2>2, <2>3, SeqEqual
<1> QED
  BY <1>3, <1>4, <1>5

LEMMA LastByteFilter ==
  ASSUME FilterInv, NEW ch \in Bytes, LastByte(ch)
  PROVE  FilterInv'
<1> USE Constants DEF FilterInv
<1> DEFINE f == FrameWith(ch)
<1>1. /\ Receive(ch) /\ (pos # 0 \/ ch = START) /\ pos >= LenWith(ch) + 3
      /\ pos' = 0 /\ len' = 0 /\ checksum' = 0
      /\ filtered' \in TextWith(ch)
      /\ UNCHANGED shown
  BY DEF LastByte, Ends
<1>2. PICK sum \in SumWith(ch) :
        frames' = Append(frames, [bytes |-> f, valid |-> sum = ch])
  BY DEF LastByte
<1>3. /\ pos \in Nat /\ Len(input) \in Nat /\ len \in 0 .. ByteMod - 1
      /\ input \in Seq(Bytes) /\ frames \in Seq([bytes : Seq(Printed), valid : BOOLEAN])
      /\ pos <= Len(input)
  BY DEF TypeOK, PendingInInput
<1>4. pos = len + 3 /\ pos > 2
  <2>1. LenWith(ch) \in 0 .. ByteMod - 1
    BY <1>3 DEF LenWith
  <2> QED
    BY <1>1, <1>3, <2>1 DEF FrameInProgress, LenWith
<1>5. /\ f \in Seq(Printed) /\ Len(f) = pos + 1
      /\ \A i \in 1 .. 3 : f[i] = input[Len(input) - pos + i]
  <2> DEFINE g == Append(SubSeq(input, Len(input) - pos + 1, Len(input)), ch)
  <2>1. /\ g \in Seq(Bytes) /\ Len(g) = pos + 1
        /\ \A i \in 1 .. pos : g[i] = input[Len(input) - pos + i]
    BY <1>3
  <2> HIDE DEF g
  <2>2. /\ InMsg(g) \in Seq(Printed) /\ Len(InMsg(g)) = Len(g)
        /\ \A i \in 1 .. Len(g) : i <= MsgSize => InMsg(g)[i] = g[i]
    BY <2>1, InMsgFacts
  <2>3. f = InMsg(g)
    BY DEF FrameWith, g
  <2> HIDE DEF f
  <2>4. \A i \in 1 .. 3 : i \in 1 .. pos /\ i \in 1 .. Len(g) /\ i <= MsgSize
    BY <1>3, <1>4, <2>1
  <2> QED
    BY <2>1, <2>2, <2>3, <2>4
<1>6. Len(f) >= 4 /\ Len(f) = f[3] + 4 /\ f[1] = START
  BY <1>3, <1>4, <1>5 DEF PendingInInput
<1> HIDE DEF f
<1>7. filtered' \in Seq(Bytes) /\ Len(filtered') = Len(filtered)
  BY <1>1, TextWithBytes
<1>8. TypeOK'
  <2>1. frames' \in Seq([bytes : Seq(Printed), valid : BOOLEAN])
    BY <1>2, <1>3, <1>5
  <2> QED
    BY <1>1, <1>7, <2>1, ReceiveFacts DEF TypeOK
<1>9. FrameInProgress' /\ PendingInInput'
  BY <1>1, <1>3, ReceiveFacts DEF FrameInProgress, PendingInInput
<1>10. FrameShape'
  <2>1. /\ DOMAIN frames' = 1 .. Len(frames) + 1 /\ frames'[Len(frames) + 1].bytes = f
        /\ DOMAIN frames = 1 .. Len(frames) /\ Len(frames) \in Nat
        /\ \A i \in DOMAIN frames : frames'[i] = frames[i]
    BY <1>2, <1>3, <1>5
  <2> SUFFICES ASSUME NEW i \in DOMAIN frames'
               PROVE  LET b == frames'[i].bytes
                      IN  Len(b) >= 4 /\ Len(b) = b[3] + 4 /\ b[1] = START
    BY DEF FrameShape
  <2>2. CASE i \in DOMAIN frames
    BY <2>1, <2>2 DEF FrameShape
  <2>3. CASE i = Len(frames) + 1
    BY <1>6, <2>1, <2>3
  <2> QED
    BY <2>1, <2>2, <2>3
<1>11. RoomLeft'
  BY <1>1, <1>7, ReceiveFacts DEF RoomLeft, TypeOK
<1> QED
  BY <1>8, <1>9, <1>10, <1>11

-----------------------------------------------------------------------------
\* The parser's invariant holds in every run of filter_rx.
THEOREM FilterInvariant == Spec => []FilterInv
<1>1. ASSUME FilterInv, [Next]_vars PROVE FilterInv'
  <2>1. CASE Return
    BY <1>1, <2>1, ReturnFilter
  <2>2. CASE \E ch \in Bytes : TextByte(ch) \/ FrameByte(ch) \/ LastByte(ch)
    BY <1>1, <2>2, TextByteFilter, FrameByteFilter, LastByteFilter
  <2>3. CASE UNCHANGED vars
    BY <1>1, <2>3
    DEF vars, FilterInv, TypeOK, FrameInProgress, PendingInInput, FrameShape, RoomLeft
  <2> QED
    BY <1>1, <2>1, <2>2, <2>3 DEF Next
<1> QED
  BY <1>1, InitFilter, PTL DEF Spec

\* Type correctness: the sum stays a byte, whatever an overrun of msg wrote.
THEOREM FilterTypes == Spec => []TypeOK
BY FilterInvariant, PTL DEF FilterInv

\* A frame in progress never passes its end, and only a frame too long for msg
\* is written behind it.
THEOREM MsgInBounds == Spec => []FrameInProgress
BY FilterInvariant, PTL DEF FilterInv

\* A reported frame begins with 0xA5 and has the length its third byte tells.
THEOREM FramesHaveTheirLength == Spec => []FrameShape
BY FilterInvariant, PTL DEF FilterInv

\* The text of every block but the first fits filtered with its terminator.
THEOREM TextFits == Spec => []OnlyFirstOverflows
<1>1. FilterInv => OnlyFirstOverflows
  BY Constants DEF FilterInv, TypeOK, RoomLeft, OnlyFirstOverflows
<1> QED
  BY <1>1, FilterInvariant, PTL

-----------------------------------------------------------------------------
(* Induction, over sets: a set that contains an index whenever it contains *)
(* those after it (or before it) contains them all.                        *)

LEMMA SetInduction ==
  ASSUME NEW S, 0 \in S, \A n \in Nat : n \in S => n + 1 \in S
  PROVE  Nat \subseteq S
<1> DEFINE T == Nat \ S
<1>1. SUFFICES ASSUME T # {} PROVE FALSE
  OBVIOUS
<1>2. IsWellFoundedOn(OpToRel(<, Nat), Nat)
  BY NatLessThanWellFounded
<1>3. PICK x \in T : \A y \in T : ~ (<<y, x>> \in OpToRel(<, Nat))
  BY <1>1, <1>2, WFMin
<1>4. x # 0 /\ x - 1 \in Nat
  OBVIOUS
<1>5. <<x - 1, x>> \in OpToRel(<, Nat)
  BY <1>4 DEF OpToRel
<1>6. x - 1 \in S
  BY <1>3, <1>4, <1>5
<1> QED
  BY <1>4, <1>6

LEMMA DownInduction ==
  ASSUME NEW N \in Nat, NEW S,
         \A i \in 1 .. N : (\A j \in i + 1 .. N : j \in S) => i \in S
  PROVE  1 .. N \subseteq S
<1> DEFINE T == {k \in Nat : \A j \in 1 .. N : j > N - k => j \in S}
<1>1. 0 \in T
  OBVIOUS
<1>2. ASSUME NEW k \in Nat, k \in T PROVE k + 1 \in T
  <2> SUFFICES ASSUME NEW j \in 1 .. N, j > N - (k + 1) PROVE j \in S
    OBVIOUS
  <2>1. \A m \in j + 1 .. N : m \in S
    BY <1>2
  <2> QED
    BY <2>1
<1> HIDE DEF T
<1>3. N \in T
  BY <1>1, <1>2, SetInduction
<1> QED
  BY <1>3 DEF T

-----------------------------------------------------------------------------
(* What Batch computes.                                                    *)

BatchType == [frames : Seq(Seq(Bytes)), text : Seq(Bytes), rest : Seq(Bytes)]

LEMMA RestTyped == \A f \in Seq(Bytes) : OnlyRest(f) \in BatchType
BY DEF OnlyRest, BatchType

LEMMA WithTyped ==
  ASSUME NEW r \in BatchType
  PROVE  /\ \A b \in Bytes : WithText(b, r) \in BatchType
         /\ \A f \in Seq(Bytes) : WithFrame(f, r) \in BatchType
<1>1. r.frames \in Seq(Seq(Bytes)) /\ r.text \in Seq(Bytes) /\ r.rest \in Seq(Bytes)
  BY DEF BatchType
<1>2. \A b \in Bytes : <<b>> \o r.text \in Seq(Bytes)
  BY <1>1
<1>3. \A f \in Seq(Bytes) : <<f>> \o r.frames \in Seq(Seq(Bytes))
  BY <1>1
<1>4. \A b \in Bytes : WithText(b, r) \in BatchType
  BY <1>1, <1>2 DEF WithText, BatchType
<1>5. \A f \in Seq(Bytes) : WithFrame(f, r) \in BatchType
  BY <1>1, <1>3 DEF WithFrame, BatchType
<1> QED
  BY <1>4, <1>5

\* A frame ends after its beginning.
LEMMA FrameEndAfter ==
  ASSUME NEW w \in Seq(Bytes), NEW i \in 1 .. Len(w), Complete(w, i)
  PROVE  /\ FrameEnd(w, i) \in i + 3 .. Len(w)
         /\ SubSeq(w, i, FrameEnd(w, i)) \in Seq(Bytes)
<1>1. i + 2 \in 1 .. Len(w) /\ FrameEnd(w, i) <= Len(w)
  BY DEF Complete
<1>2. w[i + 2] \in Nat
  <2>1. w[i + 2] \in Bytes
    BY <1>1
  <2> QED
    BY <2>1, BytesAreNumbers
<1>3. FrameEnd(w, i) \in i + 3 .. Len(w)
  BY <1>1, <1>2 DEF FrameEnd
<1> HIDE DEF FrameEnd
<1> QED
  BY <1>3

\* Parsing from an index depends on the indices after it only.
LEMMA ParseLater ==
  ASSUME NEW w \in Seq(Bytes), NEW i \in 1 .. Len(w) + 1, NEW g,
         \A j \in i + 1 .. Len(w) + 1 : g[j] \in BatchType
  PROVE  /\ ParseFrom(w, i, g) \in BatchType
         /\ \A h : (\A j \in i + 1 .. Len(w) + 1 : h[j] = g[j])
                   => ParseFrom(w, i, h) = ParseFrom(w, i, g)
<1>1. CASE i > Len(w)
  <2>1. << >> \in Seq(Bytes)
    OBVIOUS
  <2> QED
    BY <1>1, <2>1, RestTyped DEF ParseFrom
<1>2. CASE i <= Len(w) /\ w[i] # START
  <2>1. w[i] \in Bytes /\ i + 1 \in i + 1 .. Len(w) + 1
    BY <1>2
  <2>2. WithText(w[i], g[i + 1]) \in BatchType
    BY <2>1, WithTyped
  <2> QED
    BY <1>2, <2>1, <2>2 DEF ParseFrom
<1>3. CASE i <= Len(w) /\ w[i] = START /\ Complete(w, i)
  <2>1. i \in 1 .. Len(w)
    BY <1>3
  <2>2. FrameEnd(w, i) \in i + 3 .. Len(w) /\ SubSeq(w, i, FrameEnd(w, i)) \in Seq(Bytes)
    BY <1>3, <2>1, FrameEndAfter
  <2>3. FrameEnd(w, i) + 1 \in i + 1 .. Len(w) + 1
    BY <2>2
  <2>4. WithFrame(SubSeq(w, i, FrameEnd(w, i)), g[FrameEnd(w, i) + 1]) \in BatchType
    BY <2>2, <2>3, WithTyped
  <2> QED
    BY <1>3, <2>3, <2>4 DEF ParseFrom
<1>4. CASE i <= Len(w) /\ w[i] = START /\ ~ Complete(w, i)
  <2>1. SubSeq(w, i, Len(w)) \in Seq(Bytes)
    OBVIOUS
  <2>2. OnlyRest(SubSeq(w, i, Len(w))) \in BatchType
    BY <2>1, RestTyped
  <2> QED
    BY <1>4, <2>2 DEF ParseFrom
<1> QED
  BY <1>1, <1>2, <1>3, <1>4

\* The recursive function is well defined ...
LEMMA BatchesExist ==
  ASSUME NEW w \in Seq(Bytes)
  PROVE  \E g : g = [i \in 1 .. Len(w) + 1 |-> ParseFrom(w, i, g)]
<1> DEFINE N == Len(w) + 1
           Solves(i, g) == /\ g \in [i .. N -> BatchType]
                           /\ \A j \in i .. N : g[j] = ParseFrom(w, j, g)
           S == {i \in 1 .. N : \E g : Solves(i, g)}
<1>0. N \in Nat \ {0}
  OBVIOUS
<1>1. ASSUME NEW i \in 1 .. N, \A j \in i + 1 .. N : j \in S
      PROVE  i \in S
  <2>1. PICK h : \A j \in i + 1 .. N : h[j] \in BatchType /\ h[j] = ParseFrom(w, j, h)
    <3>1. CASE i = N
      BY <3>1
    <3>2. CASE i # N
      <4>1. i + 1 \in i + 1 .. N
        BY <1>0, <3>2
      <4>2. i + 1 \in S
        BY <1>1, <4>1
      <4> QED
        BY <4>2
    <3> QED
      BY <3>1, <3>2
  <2> DEFINE g == [j \in i .. N |-> IF j = i THEN ParseFrom(w, i, h) ELSE h[j]]
  <2>2. g[i] = ParseFrom(w, i, h) /\ \A j \in i + 1 .. N : g[j] = h[j]
    BY <1>0
  <2>3. ParseFrom(w, i, h) \in BatchType
    BY <2>1, ParseLater
  <2>4. g \in [i .. N -> BatchType]
    BY <1>0, <2>1, <2>3
  <2> HIDE DEF g
  <2>5. ASSUME NEW j \in i .. N PROVE g[j] = ParseFrom(w, j, g)
    <3>1. j \in 1 .. N /\ \A m \in j + 1 .. N : m \in i + 1 .. N
      BY <1>0
    <3>2. ParseFrom(w, j, g) = ParseFrom(w, j, h)
      BY <2>1, <2>2, <3>1, ParseLater
    <3>3. CASE j = i
      BY <2>2, <3>2, <3>3
    <3>4. CASE j # i
      <4>1. j \in i + 1 .. N
        BY <1>0, <3>4
      <4> QED
        BY <2>1, <2>2, <3>2, <4>1
    <3> QED
      BY <3>3, <3>4
  <2> QED
    BY <2>4, <2>5
<1> HIDE DEF S, N
<1>2. 1 \in S
  <2>1. 1 .. N \subseteq S
    BY <1>0, <1>1, DownInduction
  <2> QED
    BY <1>0, <2>1
<1>3. PICK g : Solves(1, g)
  BY <1>2 DEF S
<1>4. g = [i \in 1 .. N |-> ParseFrom(w, i, g)]
  BY <1>3
<1> QED
  BY <1>4 DEF N

\* ... and tells of each index what its definition says.
LEMMA BatchesRule ==
  ASSUME NEW w \in Seq(Bytes), NEW i \in 1 .. Len(w) + 1
  PROVE  Batches(w)[i] = ParseFrom(w, i, Batches(w))
<1> DEFINE Rule(g) == g = [k \in 1 .. Len(w) + 1 |-> ParseFrom(w, k, g)]
<1>1. \E g : Rule(g)
  BY BatchesExist
<1>2. Batches(w) = CHOOSE g : Rule(g)
  BY DEF Batches
<1>3. Rule(Batches(w))
  BY <1>1, <1>2, Zenon
<1> QED
  BY <1>3

\* The same, case by case.
ParsedAt(w, i) ==
  /\ i = Len(w) + 1 => Batches(w)[i] = OnlyRest(<< >>)
  /\ i <= Len(w) /\ w[i] # START
     => Batches(w)[i] = WithText(w[i], Batches(w)[i + 1])
  /\ i <= Len(w) /\ w[i] = START /\ Complete(w, i)
     => Batches(w)[i] = WithFrame(SubSeq(w, i, FrameEnd(w, i)),
                                  Batches(w)[FrameEnd(w, i) + 1])
  /\ i <= Len(w) /\ w[i] = START /\ ~ Complete(w, i)
     => Batches(w)[i] = OnlyRest(SubSeq(w, i, Len(w)))

LEMMA BatchesCases ==
  ASSUME NEW w \in Seq(Bytes), NEW i \in 1 .. Len(w) + 1
  PROVE  ParsedAt(w, i)
<1>1. Batches(w)[i] = ParseFrom(w, i, Batches(w))
  BY BatchesRule
<1>2. (i = Len(w) + 1 => i > Len(w)) /\ (i <= Len(w) => ~ (i > Len(w)))
  OBVIOUS
<1> QED
  BY <1>1, <1>2 DEF ParseFrom, ParsedAt

LEMMA BatchesTyped ==
  ASSUME NEW w \in Seq(Bytes), NEW i \in 1 .. Len(w) + 1
  PROVE  Batches(w)[i] \in BatchType
<1> DEFINE N == Len(w) + 1
           S == {k \in 1 .. N : Batches(w)[k] \in BatchType}
<1>1. ASSUME NEW k \in 1 .. N, \A j \in k + 1 .. N : j \in S
      PROVE  k \in S
  BY <1>1, BatchesRule, ParseLater
<1>2. N \in Nat
  OBVIOUS
<1> HIDE DEF S, N
<1>3. 1 .. N \subseteq S
  BY <1>1, <1>2, DownInduction
<1> QED
  BY <1>3 DEF S, N

-----------------------------------------------------------------------------
(* One byte more.                                                          *)

\* A frame in progress that has reached the length its third byte tells.
Full(f) == Len(f) >= 3 /\ Len(f) >= f[3] + 4

\* What a byte makes of what the bytes before it are.
Extended(r, ch) ==
  LET f == Append(r.rest, ch)
  IN  IF r.rest = << >> /\ ch # START
      THEN [frames |-> r.frames, text |-> Append(r.text, ch), rest |-> << >>]
      ELSE IF Full(f) THEN [frames |-> Append(r.frames, f), text |-> r.text, rest |-> << >>]
                      ELSE [frames |-> r.frames, text |-> r.text, rest |-> f]

LEMMA AppendBehind ==
  ASSUME NEW T, NEW s \in Seq(T), NEW a \in T, NEW b \in T
  PROVE  <<a>> \o Append(s, b) = Append(<<a>> \o s, b)
<1> DEFINE l == <<a>> \o Append(s, b)
           r == Append(<<a>> \o s, b)
<1>1. l \in Seq(T) /\ r \in Seq(T) /\ Len(l) = Len(s) + 2 /\ Len(r) = Len(s) + 2
  OBVIOUS
<1>2. \A i \in 1 .. Len(s) + 2 : l[i] = r[i]
  OBVIOUS
<1> HIDE DEF l, r
<1>3. l = r
  BY <1>1, <1>2, SeqEqual
<1> QED
  BY <1>3 DEF l, r

\* What lies before does not matter.
LEMMA ExtendedWith ==
  ASSUME NEW r \in BatchType, NEW ch \in Bytes
  PROVE  /\ \A b \in Bytes : WithText(b, Extended(r, ch)) = Extended(WithText(b, r), ch)
         /\ \A f \in Seq(Bytes) : WithFrame(f, Extended(r, ch)) = Extended(WithFrame(f, r), ch)
<1>1. r.frames \in Seq(Seq(Bytes)) /\ r.text \in Seq(Bytes) /\ r.rest \in Seq(Bytes)
  BY DEF BatchType
<1>2. Append(r.rest, ch) \in Seq(Bytes)
  BY <1>1
<1>3. \A b \in Bytes : <<b>> \o Append(r.text, ch) = Append(<<b>> \o r.text, ch)
  BY <1>1, AppendBehind
<1>4. \A f \in Seq(Bytes) : <<f>> \o Append(r.frames, Append(r.rest, ch))
                              = Append(<<f>> \o r.frames, Append(r.rest, ch))
  BY <1>1, <1>2, AppendBehind
<1>5. CASE r.rest = << >> /\ ch # START
  BY <1>3, <1>5 DEF Extended, WithText, WithFrame
<1>6. CASE ~ (r.rest = << >> /\ ch # START) /\ Full(Append(r.rest, ch))
  BY <1>4, <1>6 DEF Extended, WithText, WithFrame
<1>7. CASE ~ (r.rest = << >> /\ ch # START) /\ ~ Full(Append(r.rest, ch))
  BY <1>7 DEF Extended, WithText, WithFrame
<1> QED
  BY <1>5, <1>6, <1>7

\* Parts of a sequence that has one element more.
LEMMA AppendParts ==
  ASSUME NEW T, NEW w \in Seq(T), NEW ch \in T
  PROVE  /\ Append(w, ch) \in Seq(T) /\ Len(Append(w, ch)) = Len(w) + 1
         /\ Append(w, ch)[Len(w) + 1] = ch
         /\ \A i \in 1 .. Len(w) : Append(w, ch)[i] = w[i]
         /\ \A i \in 1 .. Len(w) + 1, k \in 0 .. Len(w) :
              SubSeq(Append(w, ch), i, k) = SubSeq(w, i, k)
         /\ \A i \in 1 .. Len(w) + 1 :
              SubSeq(Append(w, ch), i, Len(w) + 1) = Append(SubSeq(w, i, Len(w)), ch)
<1> DEFINE v == Append(w, ch)
<1>1. v \in Seq(T) /\ Len(v) = Len(w) + 1 /\ v[Len(w) + 1] = ch
      /\ \A i \in 1 .. Len(w) : v[i] = w[i]
  OBVIOUS
<1>2. Len(w) \in Nat
  OBVIOUS
<1> HIDE DEF v
<1>3. ASSUME NEW i \in 1 .. Len(w) + 1, NEW k \in 0 .. Len(w)
      PROVE  SubSeq(v, i, k) = SubSeq(w, i, k)
  <2>1. SubSeq(v, i, k) \in Seq(T) /\ SubSeq(w, i, k) \in Seq(T)
        /\ Len(SubSeq(v, i, k)) = Len(SubSeq(w, i, k))
    BY <1>1, <1>2
  <2>2. \A j \in 1 .. Len(SubSeq(v, i, k)) : SubSeq(v, i, k)[j] = SubSeq(w, i, k)[j]
    BY <1>1, <1>2
  <2> QED
    BY <2>1, <2>2, SeqEqual
<1>4. ASSUME NEW i \in 1 .. Len(w) + 1
      PROVE  SubSeq(v, i, Len(w) + 1) = Append(SubSeq(w, i, Len(w)), ch)
  <2> DEFINE l == SubSeq(v, i, Len(w) + 1)
             r == Append(SubSeq(w, i, Len(w)), ch)
  <2>1. SubSeq(w, i, Len(w)) \in Seq(T) /\ Len(SubSeq(w, i, Len(w))) = Len(w) - i + 1
    BY <1>2
  <2>2. l \in Seq(T) /\ r \in Seq(T) /\ Len(l) = Len(w) - i + 2 /\ Len(r) = Len(w) - i + 2
    BY <1>1, <1>2, <2>1
  <2>3. ASSUME NEW j \in 1 .. Len(w) - i + 2 PROVE l[j] = r[j]
    <3>1. l[j] = v[i + j - 1]
      BY <1>1, <1>2
    <3>2. CASE j = Len(w) - i + 2
      BY <1>1, <1>2, <2>1, <3>1, <3>2
    <3>3. CASE j # Len(w) - i + 2
      <4>1. j \in 1 .. Len(SubSeq(w, i, Len(w)))
        BY <1>2, <2>1, <3>3
      <4>2. r[j] = SubSeq(w, i, Len(w))[j]
        BY <2>1, <4>1
      <4>3. SubSeq(w, i, Len(w))[j] = w[i + j - 1] /\ i + j - 1 \in 1 .. Len(w)
        BY <1>2, <2>1, <4>1
      <4> QED
        BY <1>1, <3>1, <4>2, <4>3
    <3> QED
      BY <3>2, <3>3
  <2> HIDE DEF l, r
  <2>4. l = r
    BY <2>2, <2>3, SeqEqual
  <2> QED
    BY <2>4 DEF l, r
<1> QED
  BY <1>1, <1>3, <1>4 DEF v

\* A frame in progress is full when, and only when, the byte that has arrived
\* is the one at which its third byte puts the end.
LEMMA FullIsComplete ==
  ASSUME NEW w \in Seq(Bytes), NEW ch \in Bytes, NEW i \in 1 .. Len(w), ~ Complete(w, i)
  PROVE  /\ Full(Append(SubSeq(w, i, Len(w)), ch)) <=> Complete(Append(w, ch), i)
         /\ Complete(Append(w, ch), i) => FrameEnd(Append(w, ch), i) = Len(w) + 1
<1> DEFINE v == Append(w, ch)
           f == SubSeq(v, i, Len(v))
<1>1. v \in Seq(Bytes) /\ Len(v) = Len(w) + 1 /\ v[Len(w) + 1] = ch
      /\ f = Append(SubSeq(w, i, Len(w)), ch)
      /\ \A k \in 1 .. Len(w) : v[k] = w[k]
  BY AppendParts
<1> HIDE DEF v
<1>2. Len(f) = Len(v) - i + 1 /\ \A k \in 1 .. Len(f) : f[k] = v[i + k - 1]
  BY <1>1
<1> HIDE DEF f
<1>3. Len(w) \in Nat
  OBVIOUS
<1>4. CASE i + 2 <= Len(v)
  <2>1. v[i + 2] \in Nat
    <3>1. v[i + 2] \in Bytes
      BY <1>1, <1>4
    <3> QED
      BY <3>1, BytesAreNumbers
  <2>2. f[3] = v[i + 2] /\ Len(f) >= 3
    BY <1>1, <1>2, <1>3, <1>4
  <2>3. Full(f) <=> Complete(v, i)
    BY <1>1, <1>2, <1>3, <1>4, <2>1, <2>2 DEF Full, Complete, FrameEnd
  <2>4. ASSUME Complete(v, i) PROVE FrameEnd(v, i) = Len(w) + 1
    <3>1. i + v[i + 2] + 3 <= Len(w) + 1
      BY <1>1, <2>4 DEF Complete, FrameEnd
    <3>2. i + 2 <= Len(w)
      BY <1>3, <2>1, <3>1
    <3>3. v[i + 2] = w[i + 2]
      BY <1>1, <3>2
    <3>4. ~ (i + v[i + 2] + 3 <= Len(w))
      BY <3>2, <3>3 DEF Complete, FrameEnd
    <3> QED
      BY <1>3, <2>1, <3>1, <3>4 DEF FrameEnd
  <2> QED
    BY <1>1, <2>3, <2>4 DEF v
<1>5. CASE ~ (i + 2 <= Len(v))
  <2>1. ~ Full(f) /\ ~ Complete(v, i)
    BY <1>1, <1>2, <1>3, <1>5 DEF Full, Complete
  <2> QED
    BY <1>1, <2>1 DEF v
<1> QED
  BY <1>4, <1>5

\* The parse of a sequence with one byte more is that of the sequence, extended.
LEMMA BatchStep ==
  ASSUME NEW w \in Seq(Bytes), NEW ch \in Bytes
  PROVE  Batch(Append(w, ch)) = Extended(Batch(w), ch)
<1> DEFINE v == Append(w, ch)
           N == Len(w) + 1
           S == {i \in 1 .. N : Batches(v)[i] = Extended(Batches(w)[i], ch)}
<1>1. /\ v \in Seq(Bytes) /\ Len(v) = N /\ v[N] = ch /\ N \in Nat \ {0}
      /\ \A i \in 1 .. Len(w) : v[i] = w[i]
      /\ \A i \in 1 .. Len(w) + 1, k \in 0 .. Len(w) : SubSeq(v, i, k) = SubSeq(w, i, k)
      /\ \A i \in 1 .. Len(w) + 1 : SubSeq(v, i, N) = Append(SubSeq(w, i, Len(w)), ch)
  BY AppendParts
<1>2. \A i \in 1 .. N : Batches(w)[i] \in BatchType /\ ParsedAt(w, i)
  BY BatchesCases, BatchesTyped
<1>3. \A i \in 1 .. N + 1 : ParsedAt(v, i)
  BY <1>1, BatchesCases
<1>4. Batches(v)[N + 1] = OnlyRest(<< >>)
  BY <1>1, <1>3 DEF ParsedAt
<1>5. \A i \in 1 .. Len(w) : ~ Complete(w, i) =>
        /\ Full(Append(SubSeq(w, i, Len(w)), ch)) <=> Complete(v, i)
        /\ Complete(v, i) => FrameEnd(v, i) = N
  BY FullIsComplete
<1> HIDE DEF v
<1>6. ASSUME NEW i \in 1 .. N, \A j \in i + 1 .. N : j \in S
      PROVE  Batches(v)[i] = Extended(Batches(w)[i], ch)
  <2>0. /\ ParsedAt(v, i) /\ ParsedAt(w, i) /\ i <= Len(v)
        /\ Batches(w)[i] \in BatchType
    BY <1>1, <1>2, <1>3
  <2>1. CASE i = N
    <3>1. Batches(w)[i] = OnlyRest(<< >>)
      BY <2>0, <2>1 DEF ParsedAt
    <3>2. Append(<< >>, ch) = <<ch>> /\ ~ Full(<<ch>>)
      BY DEF Full
    <3>3. CASE ch # START
      <4>1. Batches(v)[i] = WithText(ch, OnlyRest(<< >>))
        BY <1>1, <1>4, <2>0, <2>1, <3>3 DEF ParsedAt
      <4>2. <<ch>> \o << >> = <<ch>>
        OBVIOUS
      <4> QED
        BY <3>1, <3>2, <3>3, <4>1, <4>2 DEF Extended, OnlyRest, WithText
    <3>4. CASE ch = START
      <4>1. ~ Complete(v, i)
        BY <1>1, <2>1 DEF Complete
      <4>2. SubSeq(v, i, N) = <<ch>>
        <5>1. SubSeq(w, N, Len(w)) = << >>
          OBVIOUS
        <5> QED
          BY <1>1, <2>1, <3>2, <5>1
      <4>3. Batches(v)[i] = OnlyRest(<<ch>>)
        BY <1>1, <2>0, <2>1, <3>4, <4>1, <4>2 DEF ParsedAt
      <4> QED
        BY <3>1, <3>2, <3>4, <4>3 DEF Extended, OnlyRest
    <3> QED
      BY <3>3, <3>4
  <2>2. CASE i # N
    <3>1. i \in 1 .. Len(w) /\ v[i] = w[i] /\ i <= Len(w) /\ i <= Len(v) /\ w[i] \in Bytes
      BY <1>1, <2>2
    <3>2. CASE w[i] # START
      <4>1. i + 1 \in i + 1 .. N /\ i + 1 \in 1 .. N
        BY <3>1
      <4>2. Batches(v)[i + 1] = Extended(Batches(w)[i + 1], ch)
        BY <1>6, <4>1
      <4>3. Batches(v)[i] = WithText(w[i], Batches(v)[i + 1])
        BY <2>0, <3>1, <3>2 DEF ParsedAt
      <4>4. Batches(w)[i] = WithText(w[i], Batches(w)[i + 1])
        BY <2>0, <3>1, <3>2 DEF ParsedAt
      <4>5. Batches(w)[i + 1] \in BatchType
        BY <1>2, <4>1
      <4>6. WithText(w[i], Extended(Batches(w)[i + 1], ch))
            = Extended(WithText(w[i], Batches(w)[i + 1]), ch)
        BY <3>1, <4>5, ExtendedWith
      <4> QED
        BY <4>2, <4>3, <4>4, <4>6
    <3>3. CASE w[i] = START /\ Complete(w, i)
      <4> DEFINE e == FrameEnd(w, i)
                 f == SubSeq(w, i, e)
      <4>1. e \in i + 3 .. Len(w) /\ f \in Seq(Bytes)
        BY <3>1, <3>3, FrameEndAfter
      <4>2. i + 2 \in 1 .. Len(w)
        BY <3>1, <4>1
      <4>3. Complete(v, i) /\ FrameEnd(v, i) = e
        BY <1>1, <3>3, <4>1, <4>2 DEF Complete, FrameEnd
      <4> HIDE DEF e
      <4>4. e + 1 \in i + 1 .. N /\ e + 1 \in 1 .. N /\ e \in 0 .. Len(w)
        BY <3>1, <4>1
      <4>5. SubSeq(v, i, e) = f
        BY <1>1, <4>4
      <4>6. Batches(v)[e + 1] = Extended(Batches(w)[e + 1], ch)
        BY <1>6, <4>4
      <4>7. Batches(v)[i] = WithFrame(f, Batches(v)[e + 1])
        BY <2>0, <3>1, <3>3, <4>3, <4>5 DEF ParsedAt
      <4>8. Batches(w)[i] = WithFrame(f, Batches(w)[e + 1])
        BY <2>0, <3>1, <3>3 DEF ParsedAt, e
      <4> HIDE DEF f
      <4>9. Batches(w)[e + 1] \in BatchType
        BY <1>2, <4>4
      <4>10. WithFrame(f, Extended(Batches(w)[e + 1], ch))
             = Extended(WithFrame(f, Batches(w)[e + 1]), ch)
        BY <4>1, <4>9, ExtendedWith
      <4> QED
        BY <4>6, <4>7, <4>8, <4>10
    <3>4. CASE w[i] = START /\ ~ Complete(w, i)
      <4> DEFINE f == SubSeq(w, i, Len(w))
      <4>1. Batches(w)[i] = OnlyRest(f)
        BY <2>0, <3>1, <3>4 DEF ParsedAt
      <4>2. f # << >> /\ f \in Seq(Bytes) /\ Append(f, ch) \in Seq(Bytes)
        <5>1. f \in Seq(Bytes) /\ Len(f) = Len(w) - i + 1 /\ Len(w) - i + 1 > 0
          BY <3>1
        <5> HIDE DEF f
        <5> QED
          BY <5>1
      <4>3. SubSeq(v, i, N) = Append(f, ch)
        BY <1>1
      <4> HIDE DEF f
      <4>4. CASE Complete(v, i)
        <5>1. Full(Append(f, ch)) /\ FrameEnd(v, i) = N
          BY <1>5, <3>1, <3>4, <4>4 DEF f
        <5>2. Batches(v)[i] = WithFrame(Append(f, ch), OnlyRest(<< >>))
          BY <1>4, <2>0, <3>1, <3>4, <4>3, <4>4, <5>1 DEF ParsedAt
        <5>3. <<Append(f, ch)>> \o << >> = Append(<< >>, Append(f, ch))
          BY <4>2
        <5> QED
          BY <4>1, <4>2, <5>1, <5>2, <5>3 DEF Extended, OnlyRest, WithFrame
      <4>5. CASE ~ Complete(v, i)
        <5>1. ~ Full(Append(f, ch))
          BY <1>5, <3>1, <3>4, <4>5 DEF f
        <5>2. Batches(v)[i] = OnlyRest(Append(f, ch))
          BY <1>1, <2>0, <3>1, <3>4, <4>3, <4>5 DEF ParsedAt
        <5> QED
          BY <4>1, <4>2, <5>1, <5>2 DEF Extended, OnlyRest
      <4> QED
        BY <4>4, <4>5
    <3> QED
      BY <3>2, <3>3, <3>4
  <2> QED
    BY <2>1, <2>2
<1> HIDE DEF S, N
<1>7. 1 .. N \subseteq S
  <2>1. \A i \in 1 .. N : (\A j \in i + 1 .. N : j \in S) => i \in S
    BY <1>6 DEF S
  <2> QED
    BY <1>1, <2>1, DownInduction
<1>8. 1 \in S
  BY <1>1, <1>7
<1> QED
  BY <1>8 DEF S, v, Batch

-----------------------------------------------------------------------------
(* The sums of the first bytes of a frame.                                 *)

LEMMA SumsExist ==
  ASSUME NEW f \in Seq(Bytes)
  PROVE  \E g : g = [n \in 0 .. Len(f) |-> IF n = 0 THEN 0 ELSE g[n - 1] + f[n]]
<1> DEFINE Sum(g, n) == IF n = 0 THEN 0 ELSE g[n - 1] + f[n]
           Solves(m, g) == /\ g \in [0 .. m -> Nat]
                           /\ \A n \in 0 .. m : g[n] = Sum(g, n)
           Solved(m) == \E g : Solves(m, g)
           S == {m \in Nat : m <= Len(f) => Solved(m)}
<1>1. 0 \in S
  <2>1. Solves(0, [n \in 0 .. 0 |-> 0])
    OBVIOUS
  <2> QED
    BY <2>1
<1>2. ASSUME NEW m \in Nat, m \in S, m + 1 <= Len(f) PROVE Solved(m + 1)
  <2>1. PICK h : Solves(m, h)
    <3> HIDE DEF Solved
    <3>1. Solved(m)
      BY <1>2
    <3> QED
      BY <3>1 DEF Solved
  <2>2. f[m + 1] \in Nat
    <3>1. f[m + 1] \in Bytes
      BY <1>2
    <3> QED
      BY <3>1, BytesAreNumbers
  <2> DEFINE g == [n \in 0 .. m + 1 |-> IF n = m + 1 THEN h[m] + f[m + 1] ELSE h[n]]
  <2>3. g \in [0 .. m + 1 -> Nat]
    BY <2>1, <2>2
  <2>4. g[m + 1] = h[m] + f[m + 1] /\ \A n \in 0 .. m : g[n] = h[n]
    OBVIOUS
  <2> HIDE DEF g
  <2>5. ASSUME NEW n \in 0 .. m + 1 PROVE g[n] = Sum(g, n)
    <3>1. CASE n = m + 1
      <4>1. n - 1 = m /\ m \in 0 .. m /\ n # 0
        BY <3>1
      <4> QED
        BY <2>4, <3>1, <4>1
    <3>2. CASE n # m + 1
      <4>1. n \in 0 .. m /\ (n # 0 => n - 1 \in 0 .. m)
        BY <3>2
      <4> QED
        BY <2>1, <2>4, <4>1
    <3> QED
      BY <3>1, <3>2
  <2> QED
    BY <2>3, <2>5
<1> HIDE DEF Solved
<1>3. \A m \in Nat : m \in S => m + 1 \in S
  BY <1>2
<1> HIDE DEF S
<1>4. PICK g : Solves(Len(f), g)
  <2>1. Len(f) \in S
    BY <1>1, <1>3, SetInduction
  <2> QED
    BY <2>1 DEF S, Solved
<1>5. g = [n \in 0 .. Len(f) |-> Sum(g, n)]
  BY <1>4
<1> QED
  BY <1>5

LEMMA SumsRule ==
  ASSUME NEW f \in Seq(Bytes)
  PROVE  /\ Sums(f)[0] = 0
         /\ \A n \in 1 .. Len(f) : Sums(f)[n] = Sums(f)[n - 1] + f[n]
<1> DEFINE Rule(g) == g = [n \in 0 .. Len(f) |-> IF n = 0 THEN 0 ELSE g[n - 1] + f[n]]
<1>1. \E g : Rule(g)
  BY SumsExist
<1>2. Sums(f) = CHOOSE g : Rule(g)
  BY DEF Sums
<1>3. Rule(Sums(f))
  BY <1>1, <1>2, Zenon
<1> QED
  BY <1>3

LEMMA SumsTyped ==
  ASSUME NEW f \in Seq(Bytes), NEW n \in 0 .. Len(f)
  PROVE  Sums(f)[n] \in Nat
<1> DEFINE S == {m \in Nat : m <= Len(f) => Sums(f)[m] \in Nat}
<1>1. 0 \in S
  BY SumsRule
<1>2. ASSUME NEW m \in Nat, m \in S PROVE m + 1 \in S
  <2> SUFFICES ASSUME m + 1 <= Len(f) PROVE Sums(f)[m + 1] \in Nat
    OBVIOUS
  <2>1. f[m + 1] \in Nat
    <3>1. f[m + 1] \in Bytes
      OBVIOUS
    <3> QED
      BY <3>1, BytesAreNumbers
  <2>2. m + 1 \in 1 .. Len(f) /\ Sums(f)[m] \in Nat
    BY <1>2
  <2>3. Sums(f)[m + 1] = Sums(f)[m + 1 - 1] + f[m + 1]
    BY <2>2, SumsRule
  <2> QED
    BY <2>1, <2>2, <2>3
<1> HIDE DEF S
<1>3. n \in S
  BY <1>1, <1>2, SetInduction
<1> QED
  BY <1>3 DEF S

\* A byte more does not change the sums of the bytes before it.
LEMMA SumsAppend ==
  ASSUME NEW f \in Seq(Bytes), NEW ch \in Bytes
  PROVE  /\ \A n \in 0 .. Len(f) : Sums(Append(f, ch))[n] = Sums(f)[n]
         /\ Sums(Append(f, ch))[Len(f) + 1] = Sums(f)[Len(f)] + ch
<1> DEFINE v == Append(f, ch)
           S == {m \in Nat : m <= Len(f) => Sums(v)[m] = Sums(f)[m]}
<1>1. /\ v \in Seq(Bytes) /\ Len(v) = Len(f) + 1 /\ v[Len(f) + 1] = ch
      /\ \A i \in 1 .. Len(f) : v[i] = f[i]
      /\ Len(f) \in Nat
  OBVIOUS
<1> HIDE DEF v
<1>2. Sums(v)[0] = 0 /\ \A n \in 1 .. Len(v) : Sums(v)[n] = Sums(v)[n - 1] + v[n]
  BY <1>1, SumsRule
<1>3. Sums(f)[0] = 0 /\ \A n \in 1 .. Len(f) : Sums(f)[n] = Sums(f)[n - 1] + f[n]
  BY SumsRule
<1>4. 0 \in S
  BY <1>2, <1>3
<1>5. ASSUME NEW m \in Nat, m \in S PROVE m + 1 \in S
  <2> SUFFICES ASSUME m + 1 <= Len(f) PROVE Sums(v)[m + 1] = Sums(f)[m + 1]
    OBVIOUS
  <2>1. m + 1 \in 1 .. Len(f) /\ m + 1 \in 1 .. Len(v) /\ m + 1 - 1 = m
    BY <1>1
  <2>2. Sums(v)[m] = Sums(f)[m]
    BY <1>5
  <2> QED
    BY <1>1, <1>2, <1>3, <2>1, <2>2
<1> HIDE DEF S
<1>6. \A n \in 0 .. Len(f) : n \in S
  BY <1>4, <1>5, SetInduction
<1>7. \A n \in 0 .. Len(f) : Sums(v)[n] = Sums(f)[n]
  BY <1>6 DEF S
<1>8. Sums(v)[Len(f) + 1] = Sums(f)[Len(f)] + ch
  <2>1. Len(f) + 1 \in 1 .. Len(v) /\ Len(f) + 1 - 1 = Len(f) /\ Len(f) \in 0 .. Len(f)
    BY <1>1
  <2> QED
    BY <1>1, <1>2, <1>7, <2>1
<1> QED
  BY <1>7, <1>8 DEF v

LEMMA Remainder ==
  ASSUME NEW m \in Nat \ {0}, NEW q \in Int, NEW r \in 0 .. m - 1
  PROVE  (m * q + r) % m = r
OBVIOUS

\* The sum is kept modulo 256 byte by byte.
LEMMA ModOfSum ==
  ASSUME NEW a \in Nat, NEW b \in Nat, NEW m \in Nat \ {0}
  PROVE  ((a % m) + b) % m = (a + b) % m
<1> DEFINE q == a \div m
           r == a % m
           x == (r + b) \div m
           y == (r + b) % m
<1>1. q \in Int /\ r \in 0 .. m - 1 /\ a = m * q + r
  OBVIOUS
<1> HIDE DEF q, r
<1>2. x \in Int /\ y \in 0 .. m - 1 /\ r + b = m * x + y
  BY <1>1
<1> HIDE DEF x, y
<1>3. a + b = m * (q + x) + y
  <2>1. m * (q + x) = m * q + m * x
    BY <1>1, <1>2
  <2> QED
    BY <1>1, <1>2, <2>1
<1>4. (a + b) % m = y
  <2>1. q + x \in Int
    BY <1>1, <1>2
  <2> QED
    BY <1>2, <1>3, <2>1, Remainder
<1> QED
  BY <1>4 DEF r, y

-----------------------------------------------------------------------------
(* The parser keeps up with Batch.                                         *)

LEMMA RestFacts ==
  ASSUME StreamInv
  PROVE  /\ Batch(input) \in BatchType /\ Batch(input).rest \in Seq(Bytes)
         /\ Len(Batch(input).rest) = pos /\ pos \in Nat
         /\ \A i \in 1 .. pos : Batch(input).rest[i] = input[Len(input) - pos + i]
<1>1. input \in Seq(Bytes) /\ pos \in Nat /\ pos <= Len(input) /\ Len(input) \in Nat
  BY DEF StreamInv, FilterInv, TypeOK, PendingInInput
<1>2. Batch(input) \in BatchType
  BY <1>1, BatchesTyped DEF Batch
<1>3. Batch(input).rest = SubSeq(input, Len(input) - pos + 1, Len(input))
  BY DEF StreamInv, PendingIsRest
<1>4. Batch(input).rest \in Seq(Bytes)
  BY <1>2 DEF BatchType
<1> QED
  BY <1>1, <1>2, <1>3, <1>4

LEMMA OneMore ==
  ASSUME StreamInv, NEW ch \in Bytes, Receive(ch)
  PROVE  /\ Batch(input') = Extended(Batch(input), ch)
         /\ Len(input') = Len(input) + 1
         /\ Append(Batch(input).rest, ch)
            = SubSeq(input', Len(input') - pos, Len(input'))
         /\ FrameWith(ch) = InMsg(Append(Batch(input).rest, ch))
<1>1. input \in Seq(Bytes) /\ pos \in Nat /\ pos <= Len(input) /\ Len(input) \in Nat
  BY DEF StreamInv, FilterInv, TypeOK, PendingInInput
<1>2. input' = Append(input, ch)
  BY DEF Receive
<1>3. Batch(input').rest = Batch(input').rest /\ Batch(input') = Extended(Batch(input), ch)
  BY <1>1, <1>2, BatchStep
<1>4. Batch(input).rest = SubSeq(input, Len(input) - pos + 1, Len(input))
  BY DEF StreamInv, PendingIsRest
<1> DEFINE i == Len(input) - pos + 1
<1>5. i \in 1 .. Len(input) + 1
  BY <1>1
<1>6. SubSeq(Append(input, ch), i, Len(input) + 1) = Append(SubSeq(input, i, Len(input)), ch)
  BY <1>1, <1>5, AppendParts
<1>7. Len(input') = Len(input) + 1 /\ Len(input') - pos = i
  BY <1>1, <1>2
<1> QED
  BY <1>2, <1>3, <1>4, <1>6, <1>7 DEF FrameWith

\* The code's test for the last byte of a frame is Full.
LEMMA EndsIsFull ==
  ASSUME StreamInv, NEW ch \in Bytes
  PROVE  Ends(ch) <=> Full(Append(Batch(input).rest, ch))
<1> DEFINE r == Batch(input).rest
           f == Append(r, ch)
<1>1. /\ len \in Nat /\ ch \in Nat
      /\ pos > 2 => input[Len(input) - pos + 3] = len
  BY BytesAreNumbers, Constants DEF StreamInv, FilterInv, TypeOK, PendingInInput
<1>2. r \in Seq(Bytes) /\ Len(r) = pos /\ pos \in Nat
      /\ \A i \in 1 .. pos : r[i] = input[Len(input) - pos + i]
  BY RestFacts
<1> HIDE DEF r
<1>3. Len(f) = pos + 1 /\ f[pos + 1] = ch /\ \A i \in 1 .. pos : f[i] = r[i]
  BY <1>2
<1> HIDE DEF f
<1>4. CASE pos > 2
  <2>1. f[3] = len
    BY <1>1, <1>2, <1>3, <1>4
  <2> QED
    BY <1>1, <1>2, <1>3, <1>4, <2>1 DEF Ends, LenWith, Full, f, r
<1>5. CASE pos = 2
  BY <1>1, <1>2, <1>3, <1>5 DEF Ends, LenWith, Full, f, r
<1>6. CASE pos < 2
  BY <1>1, <1>2, <1>3, <1>6 DEF Ends, LenWith, Full, f, r
<1> QED
  BY <1>2, <1>4, <1>5, <1>6

\* While the frame fits msg, a byte of it overwrites neither sum nor text.
LEMMA NoOverrun ==
  ASSUME StreamInv, NEW ch \in Bytes, pos < MsgSize
  PROVE  SumWith(ch) = {checksum} /\ TextWith(ch) = {filtered}
<1>1. Overrun \in Int /\ ~ (Overrun >= 0)
  BY Constants, RestFacts DEF Overrun
<1>2. ~ (Overrun \in 0 .. Len(filtered) - 1)
  BY <1>1
<1> QED
  BY <1>1, <1>2 DEF SumWith, TextWith

LEMMA BytesOfAppend ==
  ASSUME NEW fs \in Seq([bytes : Seq(Printed), valid : BOOLEAN]),
         NEW r \in [bytes : Seq(Printed), valid : BOOLEAN]
  PROVE  [i \in DOMAIN Append(fs, r) |-> Append(fs, r)[i].bytes]
         = Append([i \in DOMAIN fs |-> fs[i].bytes], r.bytes)
<1> DEFINE v == Append(fs, r)
           s == [i \in 1 .. Len(fs) |-> fs[i].bytes]
           lhs == [i \in 1 .. Len(fs) + 1 |-> v[i].bytes]
           rhs == Append(s, r.bytes)
<1>1. /\ Len(v) = Len(fs) + 1 /\ DOMAIN v = 1 .. Len(fs) + 1 /\ v[Len(fs) + 1] = r
      /\ \A i \in 1 .. Len(fs) : v[i] = fs[i]
      /\ DOMAIN fs = 1 .. Len(fs) /\ Len(fs) \in Nat
  OBVIOUS
<1> HIDE DEF v
<1>2. s \in Seq(Seq(Printed)) /\ Len(s) = Len(fs)
  <2>1. ASSUME NEW i \in 1 .. Len(fs) PROVE fs[i].bytes \in Seq(Printed)
    <3>1. fs[i] \in [bytes : Seq(Printed), valid : BOOLEAN]
      BY ElementOfSeq
    <3> QED
      BY <3>1
  <2>2. s \in [1 .. Len(fs) -> Seq(Printed)]
    BY <2>1
  <2> HIDE DEF s
  <2> QED
    BY <1>1, <2>2, FunctionIsSeq
<1>3. r.bytes \in Seq(Printed)
  OBVIOUS
<1>4. /\ rhs \in Seq(Seq(Printed)) /\ Len(rhs) = Len(fs) + 1
      /\ rhs[Len(fs) + 1] = r.bytes /\ \A i \in 1 .. Len(fs) : rhs[i] = fs[i].bytes
  BY <1>2, <1>3
<1>5. \A i \in 1 .. Len(fs) + 1 : v[i].bytes \in Seq(Printed)
  <2>1. v \in Seq([bytes : Seq(Printed), valid : BOOLEAN])
    BY DEF v
  <2>2. \A i \in 1 .. Len(fs) + 1 : v[i] \in [bytes : Seq(Printed), valid : BOOLEAN]
    BY <1>1, <2>1, ElementOfSeq
  <2> QED
    BY <2>2
<1>6. lhs \in Seq(Seq(Printed)) /\ Len(lhs) = Len(fs) + 1
  <2>1. lhs \in [1 .. Len(fs) + 1 -> Seq(Printed)] /\ Len(fs) + 1 \in Nat
    BY <1>1, <1>5
  <2> HIDE DEF lhs
  <2> QED
    BY <2>1, FunctionIsSeq
<1>7. \A i \in 1 .. Len(fs) + 1 : lhs[i] = rhs[i]
  BY <1>1, <1>4
<1> HIDE DEF lhs, rhs
<1>8. lhs = rhs
  BY <1>4, <1>6, <1>7, SeqEqual
<1> QED
  BY <1>1, <1>8 DEF v, lhs, rhs, s

\* The same of frames as they are and as they are reported.
LEMMA InMsgOfAppend ==
  ASSUME NEW fs \in Seq(Seq(Bytes)), NEW f \in Seq(Bytes)
  PROVE  [i \in DOMAIN Append(fs, f) |-> InMsg(Append(fs, f)[i])]
         = Append([i \in DOMAIN fs |-> InMsg(fs[i])], InMsg(f))
<1> DEFINE v == Append(fs, f)
           s == [i \in 1 .. Len(fs) |-> InMsg(fs[i])]
           lhs == [i \in 1 .. Len(fs) + 1 |-> InMsg(v[i])]
           rhs == Append(s, InMsg(f))
<1>1. /\ v \in Seq(Seq(Bytes)) /\ Len(v) = Len(fs) + 1
      /\ DOMAIN v = 1 .. Len(fs) + 1 /\ v[Len(fs) + 1] = f
      /\ \A i \in 1 .. Len(fs) : v[i] = fs[i]
      /\ DOMAIN fs = 1 .. Len(fs) /\ Len(fs) \in Nat
  OBVIOUS
<1> HIDE DEF v
<1>2. s \in Seq(Seq(Printed)) /\ Len(s) = Len(fs)
  <2>1. ASSUME NEW i \in 1 .. Len(fs) PROVE InMsg(fs[i]) \in Seq(Printed)
    <3>1. fs[i] \in Seq(Bytes)
      BY ElementOfSeq
    <3> QED
      BY <3>1, InMsgFacts
  <2>2. s \in [1 .. Len(fs) -> Seq(Printed)]
    BY <2>1
  <2> HIDE DEF s
  <2> QED
    BY <1>1, <2>2, FunctionIsSeq
<1>3. InMsg(f) \in Seq(Printed)
  BY InMsgFacts
<1>4. /\ rhs \in Seq(Seq(Printed)) /\ Len(rhs) = Len(fs) + 1
      /\ rhs[Len(fs) + 1] = InMsg(f) /\ \A i \in 1 .. Len(fs) : rhs[i] = InMsg(fs[i])
  <2>1. \A i \in 1 .. Len(fs) : s[i] = InMsg(fs[i])
    OBVIOUS
  <2> HIDE DEF s
  <2> QED
    BY <1>2, <1>3, <2>1
<1>5. \A i \in 1 .. Len(fs) + 1 : InMsg(v[i]) \in Seq(Printed)
  <2>1. \A i \in 1 .. Len(fs) + 1 : v[i] \in Seq(Bytes)
    BY <1>1, ElementOfSeq
  <2> QED
    BY <2>1, InMsgFacts
<1>6. lhs \in Seq(Seq(Printed)) /\ Len(lhs) = Len(fs) + 1
  <2>1. lhs \in [1 .. Len(fs) + 1 -> Seq(Printed)] /\ Len(fs) + 1 \in Nat
    BY <1>1, <1>5
  <2> HIDE DEF lhs
  <2> QED
    BY <2>1, FunctionIsSeq
<1>7. \A i \in 1 .. Len(fs) + 1 : lhs[i] = rhs[i]
  <2>1. \A i \in 1 .. Len(fs) + 1 : i \in 1 .. Len(fs) \/ i = Len(fs) + 1
    BY <1>1
  <2>2. \A i \in 1 .. Len(fs) + 1 : lhs[i] = InMsg(v[i])
    OBVIOUS
  <2> HIDE DEF lhs, rhs
  <2> QED
    BY <1>1, <1>4, <2>1, <2>2
<1> HIDE DEF lhs, rhs
<1>8. lhs = rhs
  BY <1>4, <1>6, <1>7, SeqEqual
<1> QED
  BY <1>1, <1>8 DEF v, lhs, rhs, s

LEMMA InitStream == Init => StreamInv
<1> SUFFICES ASSUME Init PROVE StreamInv
  OBVIOUS
<1>1. /\ pos = 0 /\ checksum = 0 /\ filtered = << >>
      /\ input = << >> /\ frames = << >> /\ shown = << >>
  BY DEF Init
<1>2. Batch(input) = OnlyRest(<< >>)
  <2>1. << >> \in Seq(Bytes) /\ Len(<< >>) = 0 /\ 1 \in 1 .. 0 + 1
    OBVIOUS
  <2>2. ParsedAt(<< >>, 1)
    BY <2>1, BatchesCases
  <2> QED
    BY <1>1, <2>1, <2>2 DEF ParsedAt, Batch
<1>3. Batch(input).rest = << >> /\ Batch(input).frames = << >> /\ Batch(input).text = << >>
  BY <1>2 DEF OnlyRest
<1>4. Sums(<< >>)[0] % ByteMod = 0
  <2>1. Sums(<< >>)[0] = 0
    <3>1. << >> \in Seq(Bytes)
      OBVIOUS
    <3> QED
      BY <3>1, SumsRule
  <2> QED
    BY <2>1, Constants
<1>5. PendingIsRest
  <2>1. SubSeq(<< >>, Len(<< >>) - 0 + 1, Len(<< >>)) = << >>
    OBVIOUS
  <2> QED
    BY <1>1, <1>3, <1>4, <2>1 DEF PendingIsRest
<1>6. StreamIsBatch
  BY <1>1, <1>3 DEF StreamIsBatch
<1>7. TextKept
  BY <1>1, <1>3 DEF TextKept
<1> QED
  BY <1>5, <1>6, <1>7, InitFilter DEF StreamInv

LEMMA TextByteStream ==
  ASSUME StreamInv, NEW ch \in Bytes, TextByte(ch)
  PROVE  PendingIsRest' /\ StreamIsBatch' /\ TextKept'
<1> DEFINE r == Batch(input)
           q == Batch(input')
<1>1. /\ Receive(ch) /\ pos = 0 /\ ch # START /\ filtered' = Append(filtered, ch)
      /\ pos' = 0 /\ checksum' = checksum /\ frames' = frames /\ shown' = shown
  BY DEF TextByte
<1>2. /\ r.rest = << >> /\ r.text \in Seq(Bytes)
      /\ filtered \in Seq(Bytes) /\ shown \in Seq(Bytes)
      /\ Len(input) \in Nat
  BY <1>1, RestFacts DEF BatchType, StreamInv, FilterInv, TypeOK
<1>3. q = Extended(r, ch) /\ Len(input') = Len(input) + 1
  BY <1>1, OneMore
<1>4. q.frames = r.frames /\ q.text = Append(r.text, ch) /\ q.rest = << >>
  BY <1>1, <1>2, <1>3 DEF Extended
<1>5. /\ checksum = Sums(r.rest)[0] % ByteMod
      /\ [i \in DOMAIN frames |-> frames[i].bytes]
         = [i \in DOMAIN r.frames |-> InMsg(r.frames[i])]
      /\ \A i \in DOMAIN frames :
           Len(frames[i].bytes) <= MsgSize =>
             (frames[i].valid <=> frames[i].bytes[Len(frames[i].bytes)]
                                  = SumOfFront(frames[i].bytes))
  BY <1>1, Constants DEF StreamInv, PendingIsRest, StreamIsBatch
<1>6. PendingIsRest'
  <2>1. input' = Append(input, ch) /\ input \in Seq(Bytes)
    BY <1>1 DEF Receive, StreamInv, FilterInv, TypeOK
  <2>2. SubSeq(input', Len(input') - 0 + 1, Len(input')) = << >>
    BY <2>1, <1>2, <1>3
  <2> QED
    BY <1>1, <1>2, <1>4, <1>5, <2>2 DEF PendingIsRest
<1>7. StreamIsBatch'
  BY <1>1, <1>4, <1>5 DEF StreamIsBatch
<1>8. TextKept'
  <2> SUFFICES ASSUME \A i \in DOMAIN q.text : q.text[i] # NUL,
                      \A i \in DOMAIN frames : Len(frames[i].bytes) <= MsgSize
               PROVE  shown \o Append(filtered, ch) = q.text
    BY <1>1 DEF TextKept
  <2>1. \A i \in DOMAIN r.text : r.text[i] # NUL
    <3> DEFINE t == r.text
    <3>1. t \in Seq(Bytes) /\ \A i \in DOMAIN Append(t, ch) : Append(t, ch)[i] # NUL
      BY <1>2, <1>4
    <3> HIDE DEF t
    <3>2. \A i \in DOMAIN t : i \in DOMAIN Append(t, ch) /\ Append(t, ch)[i] = t[i]
      BY <3>1
    <3>3. \A i \in DOMAIN t : t[i] # NUL
      BY <3>1, <3>2
    <3> QED
      BY <3>3 DEF t
  <2>2. pos <= MsgSize
    BY <1>1, Constants
  <2>3. shown \o filtered = r.text
    BY <2>1, <2>2 DEF StreamInv, TextKept
  <2>4. shown \o Append(filtered, ch) = Append(shown \o filtered, ch)
    BY <1>2
  <2> QED
    BY <1>4, <2>3, <2>4
<1> QED
  BY <1>6, <1>7, <1>8

LEMMA FrameByteStream ==
  ASSUME StreamInv, NEW ch \in Bytes, FrameByte(ch)
  PROVE  PendingIsRest' /\ StreamIsBatch' /\ TextKept'
<1> DEFINE r == Batch(input)
           q == Batch(input')
           f == Append(r.rest, ch)
<1>1. /\ Receive(ch) /\ (pos # 0 \/ ch = START) /\ ~ Ends(ch)
      /\ pos' = pos + 1 /\ filtered' \in TextWith(ch)
      /\ frames' = frames /\ shown' = shown
  BY DEF FrameByte
<1>2. /\ r.rest \in Seq(Bytes) /\ Len(r.rest) = pos /\ pos \in Nat
      /\ MsgSize \in Nat /\ ByteMod \in Nat \ {0} /\ ch \in Nat
  BY RestFacts, Constants, BytesAreNumbers
<1>3. /\ q = Extended(r, ch) /\ Len(input') = Len(input) + 1
      /\ f = SubSeq(input', Len(input') - pos, Len(input'))
  BY <1>1, OneMore
<1>4. ~ Full(f)
  BY <1>1, EndsIsFull
<1>5. q.frames = r.frames /\ q.text = r.text /\ q.rest = f
  <2>1. ~ (r.rest = << >> /\ ch # START)
    BY <1>1, <1>2
  <2> HIDE DEF q, r
  <2>2. Extended(r, ch) = [frames |-> r.frames, text |-> r.text, rest |-> f]
    BY <1>4, <2>1, Zenon DEF Extended
  <2>3. q = [frames |-> r.frames, text |-> r.text, rest |-> f]
    BY <1>3, <2>2, Zenon
  <2> HIDE DEF f
  <2> QED
    BY <2>3
<1>6. Len(f) = pos + 1
  BY <1>2
<1> HIDE DEF f
<1>7. ASSUME pos + 1 <= MsgSize
      PROVE  filtered' = filtered /\ checksum' = Sums(f)[pos + 1] % ByteMod
  <2>1. pos < MsgSize /\ pos <= MsgSize
    BY <1>2, <1>7
  <2>2. SumWith(ch) = {checksum} /\ TextWith(ch) = {filtered}
    BY <2>1, NoOverrun
  <2>3. checksum' = (checksum + ch) % ByteMod
    BY <2>2 DEF FrameByte, AddByte
  <2>4. checksum = Sums(r.rest)[pos] % ByteMod
    BY <2>1 DEF StreamInv, PendingIsRest
  <2>5. Sums(f)[pos + 1] = Sums(r.rest)[pos] + ch /\ Sums(r.rest)[pos] \in Nat
    BY <1>2, SumsAppend, SumsTyped DEF f
  <2>6. checksum' = (Sums(r.rest)[pos] + ch) % ByteMod
    BY <1>2, <2>3, <2>4, <2>5, ModOfSum
  <2> QED
    BY <1>1, <2>2, <2>5, <2>6
<1>8. PendingIsRest'
  <2>1. Len(input') - (pos + 1) + 1 = Len(input') - pos
    BY <1>2, <1>3 DEF StreamInv, FilterInv, TypeOK
  <2> HIDE DEF q, r
  <2>2. q.rest = SubSeq(input', Len(input') - pos' + 1, Len(input'))
    BY <1>1, <1>3, <1>5, <2>1
  <2>3. pos' <= MsgSize => checksum' = Sums(q.rest)[pos'] % ByteMod
    BY <1>1, <1>5, <1>7
  <2> QED
    BY <2>2, <2>3 DEF PendingIsRest, q
<1>9. StreamIsBatch'
  BY <1>1, <1>5, <1>6, <1>2 DEF StreamInv, StreamIsBatch
<1>10. TextKept'
  <2> SUFFICES ASSUME \A i \in DOMAIN q.text : q.text[i] # NUL, pos + 1 <= MsgSize,
                      \A i \in DOMAIN frames : Len(frames[i].bytes) <= MsgSize
               PROVE  shown \o filtered' = q.text
    BY <1>1 DEF TextKept
  <2>1. pos <= MsgSize
    BY <1>2
  <2>2. shown \o filtered = r.text
    BY <1>5, <2>1 DEF StreamInv, TextKept
  <2> QED
    BY <1>5, <1>7, <2>2
<1> QED
  BY <1>8, <1>9, <1>10

LEMMA LastByteStream ==
  ASSUME StreamInv, NEW ch \in Bytes, LastByte(ch)
  PROVE  PendingIsRest' /\ StreamIsBatch' /\ TextKept'
<1> DEFINE r == Batch(input)
           q == Batch(input')
           f == Append(r.rest, ch)
<1>1. /\ Receive(ch) /\ (pos # 0 \/ ch = START) /\ Ends(ch)
      /\ pos' = 0 /\ checksum' = 0 /\ filtered' \in TextWith(ch)
      /\ shown' = shown
  BY DEF LastByte
<1>2. /\ r.rest \in Seq(Bytes) /\ Len(r.rest) = pos /\ pos \in Nat
      /\ MsgSize \in Nat /\ MsgSize > 3 /\ ByteMod \in Nat \ {0}
  BY RestFacts, Constants
<1>3. /\ q = Extended(r, ch) /\ Len(input') = Len(input) + 1
      /\ FrameWith(ch) = InMsg(f)
  BY <1>1, OneMore
<1>4. Full(f)
  BY <1>1, EndsIsFull
<1>5. q.frames = Append(r.frames, f) /\ q.text = r.text /\ q.rest = << >>
  <2>1. ~ (r.rest = << >> /\ ch # START)
    BY <1>1, <1>2
  <2> HIDE DEF r
  <2> QED
    BY <1>3, <1>4, <2>1 DEF Extended
<1>6. Len(f) = pos + 1 /\ f \in Seq(Bytes) /\ f[pos + 1] = ch
  BY <1>2
<1> HIDE DEF f
<1> DEFINE g == InMsg(f)
<1>14. g \in Seq(Printed) /\ Len(g) = Len(f) /\ (Len(f) <= MsgSize => g = f)
  BY <1>6, InMsgFacts
<1>7. PICK sum \in SumWith(ch) : frames' = Append(frames, [bytes |-> g, valid |-> sum = ch])
  BY <1>3 DEF LastByte
<1> HIDE DEF g
<1> DEFINE new == [bytes |-> g, valid |-> sum = ch]
<1>8. /\ frames \in Seq([bytes : Seq(Printed), valid : BOOLEAN])
      /\ new \in [bytes : Seq(Printed), valid : BOOLEAN]
      /\ new.bytes = g /\ (new.valid <=> sum = ch)
  BY <1>14 DEF StreamInv, FilterInv, TypeOK
<1> HIDE DEF new
<1>9. /\ frames' = Append(frames, new)
      /\ DOMAIN frames' = 1 .. Len(frames) + 1 /\ frames'[Len(frames) + 1] = new
      /\ DOMAIN frames = 1 .. Len(frames) /\ Len(frames) \in Nat
      /\ \A i \in DOMAIN frames : frames'[i] = frames[i]
  <2>1. frames' = Append(frames, new)
    BY <1>7 DEF new
  <2> QED
    BY <1>8, <2>1
<1>10. ASSUME pos + 1 <= MsgSize
       PROVE  filtered' = filtered /\ (sum = ch <=> f[Len(f)] = SumOfFront(f))
  <2>1. pos < MsgSize /\ pos <= MsgSize
    BY <1>2, <1>10
  <2>2. SumWith(ch) = {checksum} /\ TextWith(ch) = {filtered}
    BY <2>1, NoOverrun
  <2>3. checksum = Sums(r.rest)[pos] % ByteMod
    BY <2>1 DEF StreamInv, PendingIsRest
  <2>4. Sums(f)[pos] = Sums(r.rest)[pos]
    BY <1>2, SumsAppend DEF f
  <2>5. Len(f) - 1 = pos
    BY <1>2, <1>6
  <2>6. SumOfFront(f) = checksum
    BY <2>3, <2>4, <2>5 DEF SumOfFront
  <2>7. sum = checksum
    BY <2>2
  <2> QED
    BY <1>1, <1>6, <2>2, <2>6, <2>7
<1>11. PendingIsRest'
  <2>1. SubSeq(input', Len(input') - 0 + 1, Len(input')) = << >>
    <3>1. input' \in Seq(Bytes)
      BY <1>1 DEF Receive, StreamInv, FilterInv, TypeOK
    <3> QED
      BY <3>1
  <2>2. Sums(<< >>)[0] % ByteMod = 0
    <3>1. << >> \in Seq(Bytes)
      OBVIOUS
    <3>2. Sums(<< >>)[0] = 0
      BY <3>1, SumsRule
    <3> QED
      BY <1>2, <3>2
  <2> HIDE DEF q, r
  <2>3. q.rest = SubSeq(input', Len(input') - pos' + 1, Len(input'))
    BY <1>1, <1>5, <2>1
  <2>4. checksum' = Sums(q.rest)[pos'] % ByteMod
    BY <1>1, <1>5, <2>2
  <2> QED
    BY <2>3, <2>4 DEF PendingIsRest, q
<1>12. StreamIsBatch'
  <2>1. [i \in DOMAIN frames' |-> frames'[i].bytes]
        = [i \in DOMAIN q.frames |-> InMsg(q.frames[i])]
    <3>1. [i \in DOMAIN frames' |-> frames'[i].bytes]
          = Append([i \in DOMAIN frames |-> frames[i].bytes], g)
      BY <1>8, <1>9, BytesOfAppend
    <3>2. [i \in DOMAIN frames |-> frames[i].bytes]
          = [i \in DOMAIN r.frames |-> InMsg(r.frames[i])]
      BY DEF StreamInv, StreamIsBatch
    <3>3. r.frames \in Seq(Seq(Bytes))
      BY RestFacts DEF BatchType
    <3> DEFINE qf == q.frames
               rf == r.frames
    <3>4. qf = Append(rf, f) /\ rf \in Seq(Seq(Bytes))
      BY <1>5, <3>3
    <3> HIDE DEF qf, rf
    <3>5. [i \in DOMAIN qf |-> InMsg(qf[i])] = Append([i \in DOMAIN rf |-> InMsg(rf[i])], g)
      BY <1>6, <3>4, InMsgOfAppend DEF g
    <3> QED
      BY <3>1, <3>2, <3>5 DEF qf, rf
  <2>2. pos' = Len(q.rest)
    BY <1>1, <1>5
  <2> DEFINE Judged(fr) == Len(fr.bytes) <= MsgSize =>
                             (fr.valid <=> fr.bytes[Len(fr.bytes)] = SumOfFront(fr.bytes))
  <2>3. \A i \in DOMAIN frames : Judged(frames[i])
    BY DEF StreamInv, StreamIsBatch
  <2>4. Judged(new)
    <3> SUFFICES ASSUME Len(f) <= MsgSize
                 PROVE  new.valid <=> f[Len(f)] = SumOfFront(f)
      BY <1>8, <1>14
    <3>1. pos + 1 <= MsgSize
      BY <1>6
    <3> QED
      BY <1>8, <1>10, <3>1
  <2> HIDE DEF Judged
  <2>5. \A i \in DOMAIN frames' : Judged(frames'[i])
    <3>1. \A i \in DOMAIN frames' : i \in DOMAIN frames \/ i = Len(frames) + 1
      BY <1>9
    <3> QED
      BY <1>9, <2>3, <2>4, <3>1
  <2> QED
    BY <2>1, <2>2, <2>5 DEF Judged, StreamIsBatch
<1>13. TextKept'
  <2> SUFFICES ASSUME \A i \in DOMAIN q.text : q.text[i] # NUL,
                      \A i \in DOMAIN frames' : Len(frames'[i].bytes) <= MsgSize
               PROVE  shown \o filtered' = q.text
    BY <1>1 DEF TextKept
  <2>1. \A i \in DOMAIN frames : Len(frames[i].bytes) <= MsgSize
    <3>1. \A i \in DOMAIN frames : i \in DOMAIN frames'
      BY <1>9
    <3> QED
      BY <1>9, <3>1
  <2>2. Len(f) <= MsgSize
    <3>1. Len(frames) + 1 \in DOMAIN frames'
      BY <1>9
    <3> QED
      BY <1>8, <1>9, <1>14, <3>1
  <2>3. pos + 1 <= MsgSize /\ pos <= MsgSize
    BY <1>2, <1>6, <2>2
  <2>4. shown \o filtered = r.text
    BY <1>5, <2>1, <2>3 DEF StreamInv, TextKept
  <2> QED
    BY <1>5, <1>10, <2>3, <2>4
<1> QED
  BY <1>11, <1>12, <1>13

LEMMA ReturnStream ==
  ASSUME StreamInv, Return
  PROVE  PendingIsRest' /\ StreamIsBatch' /\ TextKept'
<1>1. filtered' = << >> /\ UNCHANGED <<pos, len, checksum, input, frames>>
  BY DEF Return
<1>2. PICK n \in 0 .. Len(filtered) :
        EndsAt(filtered, n) /\ shown' = shown \o SubSeq(filtered, 1, n)
  BY DEF Return
<1>3. filtered \in Seq(Bytes) /\ shown \in Seq(Bytes) /\ Len(filtered) \in Nat
  BY DEF StreamInv, FilterInv, TypeOK
<1>4. PendingIsRest' /\ StreamIsBatch'
  BY <1>1 DEF StreamInv, PendingIsRest, StreamIsBatch
<1>5. TextKept'
  <2> DEFINE t == Batch(input).text
  <2> SUFFICES ASSUME \A i \in DOMAIN t : t[i] # NUL, pos <= MsgSize,
                      \A i \in DOMAIN frames : Len(frames[i].bytes) <= MsgSize
               PROVE  shown' \o << >> = t
    BY <1>1 DEF TextKept
  <2>1. shown \o filtered = t
    BY DEF StreamInv, TextKept
  <2> HIDE DEF t
  <2>2. n = Len(filtered)
    <3>1. SUFFICES ASSUME n < Len(filtered) PROVE FALSE
      BY <1>3
    <3>2. filtered[n + 1] = NUL
      BY <1>2, <3>1 DEF EndsAt
    <3>3. /\ Len(shown) + n + 1 \in DOMAIN (shown \o filtered)
          /\ (shown \o filtered)[Len(shown) + n + 1] = filtered[n + 1]
      BY <1>3, <3>1
    <3> QED
      BY <2>1, <3>2, <3>3
  <2>3. SubSeq(filtered, 1, Len(filtered)) = filtered
    BY <1>3
  <2>4. shown' = t
    BY <1>2, <2>1, <2>2, <2>3
  <2>5. t \o << >> = t
    BY <1>3, <2>1
  <2> QED
    BY <2>4, <2>5
<1> QED
  BY <1>4, <1>5

\* What parse_msg and filter_rx have done of the input is, at every byte, what
\* Batch tells of it.
THEOREM StreamInvariant == Spec => []StreamInv
<1>1. ASSUME StreamInv, [Next]_vars PROVE StreamInv'
  <2>1. CASE Return
    <3>1. FilterInv'
      BY <1>1, <2>1, ReturnFilter DEF StreamInv
    <3> QED
      BY <1>1, <2>1, <3>1, ReturnStream DEF StreamInv
  <2>2. ASSUME NEW ch \in Bytes, TextByte(ch) PROVE StreamInv'
    <3>1. FilterInv'
      BY <1>1, <2>2, TextByteFilter DEF StreamInv
    <3> QED
      BY <1>1, <2>2, <3>1, TextByteStream DEF StreamInv
  <2>3. ASSUME NEW ch \in Bytes, FrameByte(ch) PROVE StreamInv'
    <3>1. FilterInv'
      BY <1>1, <2>3, FrameByteFilter DEF StreamInv
    <3> QED
      BY <1>1, <2>3, <3>1, FrameByteStream DEF StreamInv
  <2>4. ASSUME NEW ch \in Bytes, LastByte(ch) PROVE StreamInv'
    <3>1. FilterInv'
      BY <1>1, <2>4, LastByteFilter DEF StreamInv
    <3> QED
      BY <1>1, <2>4, <3>1, LastByteStream DEF StreamInv
  <2>5. CASE UNCHANGED vars
    BY <1>1, <2>5
    DEF vars, StreamInv, FilterInv, TypeOK, FrameInProgress, PendingInInput, FrameShape,
        RoomLeft, PendingIsRest, StreamIsBatch, TextKept
  <2> QED
    BY <1>1, <2>1, <2>2, <2>3, <2>4, <2>5 DEF Next
<1> QED
  BY <1>1, InitStream, PTL DEF Spec

\* The frames reported are those of the input, whatever blocks cut it, and one
\* that fits msg is valid exactly when its last byte is the sum of the others.
THEOREM FramesAreThoseSent == Spec => []StreamIsBatch
BY StreamInvariant, PTL DEF StreamInv

\* Every byte outside the frames is displayed, once and in order, while no NUL
\* is among them and every frame has fitted msg.
THEOREM TextIsKept == Spec => []TextKept
BY StreamInvariant, PTL DEF StreamInv

=============================================================================
