---------------------------- MODULE FrameFilter ----------------------------
(***************************************************************************)
(* filter_rx and parse_msg (filter.cpp): what serial_t::poll's sink does   *)
(* with the bytes of a block.  A byte 0xA5 opens a binary frame, whose     *)
(* third byte tells its length; frames are checked, reported and kept off  *)
(* the display, all other bytes are text.  The parser's state is static,   *)
(* so that a frame may begin in one block and end in another, and nothing  *)
(* but a complete frame ever returns it to the state between frames.       *)
(*                                                                         *)
(* input, frames and shown are history variables; guards use input only to *)
(* bound a run.                                                            *)
(***************************************************************************)
EXTENDS Integers, Sequences

CONSTANTS
  Bytes,         \* the bytes the port delivers
  ByteMod,       \* u08 arithmetic: 256
  START,         \* the first byte of a frame: 0xA5
  MsgSize,       \* sizeof(msg): 256
  FilteredSize,  \* sizeof(filtered): 4096, one more than a later block holds
  FirstSize,     \* bytes of the first block, whose read may be oversized
  MaxInput       \* bound: bytes of a run

ASSUME FilterAssumption ==
  /\ ByteMod \in Nat \ {0} /\ Bytes \subseteq 0 .. ByteMod - 1
  /\ START \in 0 .. ByteMod - 1
  /\ MsgSize \in Nat /\ MsgSize > 3
  /\ FilteredSize \in Nat \ {0} /\ FirstSize \in Nat
  /\ MaxInput \in Nat

VARIABLES
  pos,       \* pos - msg: bytes of the frame in progress, 0 between frames
  len,       \* the alias of msg[2]
  checksum,  \* sum of the bytes of the frame in progress
  filtered,  \* text of the block at hand, up to filter_rx's own pos
  left,      \* bytes the block at hand may still have
  input,     \* history: the bytes received
  frames,    \* history: the frames reported, and whether as valid
  shown      \* history: the text appended to the display

vars == <<pos, len, checksum, filtered, left, input, frames, shown>>

NUL == 0

Init == /\ pos = 0 /\ len = 0 /\ checksum = 0
        /\ filtered = << >> /\ left = FirstSize
        /\ input = << >> /\ frames = << >> /\ shown = << >>

-----------------------------------------------------------------------------
\* *pos = ch: msg[2] is len, and a byte after the end of msg goes to one of the
\* other statics or to memory nobody uses, as the linker has placed them.
LenWith(ch) == IF pos = 2 THEN ch ELSE len
Overrun == pos - MsgSize
SumWith(ch) == {checksum} \cup (IF Overrun >= 0 THEN {ch} ELSE {})
TextWith(ch) ==
  {filtered} \cup (IF Overrun \in 0 .. Len(filtered) - 1
                   THEN {[filtered EXCEPT ![Overrun + 1] = ch]} ELSE {})

AddByte(sum, ch) == (sum + ch) % ByteMod

\* Mutant of Ends: one byte late.
EndsLate(ch) == pos >= LenWith(ch) + 4

Ends(ch) == pos >= LenWith(ch) + 3

Receive(ch) == /\ left > 0 /\ Len(input) < MaxInput
               /\ left' = left - 1
               /\ input' = Append(input, ch)

\* parse_msg returns 0: the byte is text.
TextByte(ch) ==
  /\ Receive(ch)
  /\ pos = 0 /\ ch # START
  /\ filtered' = Append(filtered, ch)
  /\ UNCHANGED <<pos, len, checksum, frames, shown>>

\* A byte of a frame that is not its last.
FrameByte(ch) ==
  /\ Receive(ch)
  /\ pos # 0 \/ ch = START
  /\ ~ Ends(ch)
  /\ len' = LenWith(ch) /\ pos' = pos + 1
  /\ \E sum \in SumWith(ch) : checksum' = AddByte(sum, ch)
  /\ filtered' \in TextWith(ch)
  /\ UNCHANGED <<frames, shown>>

\* What is printed of the frame f: its bytes in msg, and for those after the
\* end of msg whatever the memory there holds by then.
Behind   == -1
InMsg(f) == [i \in DOMAIN f |-> IF i <= MsgSize THEN f[i] ELSE Behind]

\* The frame in progress with the byte ch, as it is reported.
FrameWith(ch) == InMsg(Append(SubSeq(input, Len(input) - pos + 1, Len(input)), ch))

\* Mutants of LastByte: checksum is not reset; the byte is displayed as well.
LastKeepsSum(ch) ==
  /\ Receive(ch)
  /\ pos # 0 \/ ch = START
  /\ Ends(ch)
  /\ frames' = Append(frames, [bytes |-> FrameWith(ch), valid |-> checksum = ch])
  /\ pos' = 0 /\ len' = 0
  /\ UNCHANGED <<checksum, filtered, shown>>

LastShown(ch) ==
  /\ Receive(ch)
  /\ pos # 0 \/ ch = START
  /\ Ends(ch)
  /\ frames' = Append(frames, [bytes |-> FrameWith(ch), valid |-> checksum = ch])
  /\ pos' = 0 /\ len' = 0 /\ checksum' = 0
  /\ filtered' = Append(filtered, ch)
  /\ UNCHANGED shown

\* The last byte of a frame: it is compared with the sum of the others.
LastByte(ch) ==
  /\ Receive(ch)
  /\ pos # 0 \/ ch = START
  /\ Ends(ch)
  /\ \E sum \in SumWith(ch) :
       frames' = Append(frames, [bytes |-> FrameWith(ch), valid |-> sum = ch])
  /\ pos' = 0 /\ len' = 0 /\ checksum' = 0
  /\ filtered' \in TextWith(ch)
  /\ UNCHANGED shown

\* The C string s: its first n bytes, those before the first NUL.
EndsAt(s, n) == /\ \A i \in 1 .. n : s[i] # NUL
                /\ n < Len(s) => s[n + 1] = NUL

\* Mutant of NextRoom: later reads fill data to the last byte.
AllRoom == FilteredSize

NextRoom == FilteredSize - 1

\* The block is done: filter_rx terminates its text, append shows it as a C
\* string, and the next block arrives.
Return == /\ \E n \in 0 .. Len(filtered) :
               /\ EndsAt(filtered, n)
               /\ shown' = shown \o SubSeq(filtered, 1, n)
          /\ filtered' = << >> /\ left' = NextRoom
          /\ UNCHANGED <<pos, len, checksum, input, frames>>

Next == \/ Return
        \/ \E ch \in Bytes : TextByte(ch) \/ FrameByte(ch) \/ LastByte(ch)

Spec == Init /\ [][Next]_vars

-----------------------------------------------------------------------------
(* What the parser computes, byte by byte and over any split into blocks,  *)
(* told of the whole input at once.                                        *)

\* The end of the frame that begins at i, if it is known and received.
FrameEnd(w, i) == i + w[i + 2] + 3
Complete(w, i) == i + 2 <= Len(w) /\ FrameEnd(w, i) <= Len(w)

OnlyRest(f)     == [frames |-> << >>, text |-> << >>, rest |-> f]
WithText(b, r)  == [frames |-> r.frames, text |-> <<b>> \o r.text, rest |-> r.rest]
WithFrame(f, r) == [frames |-> <<f>> \o r.frames, text |-> r.text, rest |-> r.rest]

\* What the bytes from the i-th on are, when later[j] tells it of those from
\* the j-th on.
ParseFrom(w, i, later) ==
  IF i > Len(w) THEN OnlyRest(<< >>)
  ELSE IF w[i] # START THEN WithText(w[i], later[i + 1])
  ELSE IF Complete(w, i)
       THEN WithFrame(SubSeq(w, i, FrameEnd(w, i)), later[FrameEnd(w, i) + 1])
  ELSE OnlyRest(SubSeq(w, i, Len(w)))

Batches(w) == LET From[i \in 1 .. Len(w) + 1] == ParseFrom(w, i, From) IN From
Batch(w)   == Batches(w)[1]

\* The sums of the first bytes of f.
Sums(f) == LET Sum[n \in 0 .. Len(f)] == IF n = 0 THEN 0 ELSE Sum[n - 1] + f[n] IN Sum

SumOfFront(f) == Sums(f)[Len(f) - 1] % ByteMod

-----------------------------------------------------------------------------
(* Properties.                                                             *)

Printed == Bytes \cup {Behind}

TypeOK ==
  /\ pos \in Nat /\ len \in 0 .. ByteMod - 1 /\ checksum \in 0 .. ByteMod - 1
  /\ filtered \in Seq(Bytes) /\ left \in Nat
  /\ input \in Seq(Bytes) /\ shown \in Seq(Bytes)
  /\ frames \in Seq([bytes : Seq(Printed), valid : BOOLEAN])

\* The frames reported are those of the input, in order and with nothing of a
\* neighbour in msg, however the blocks cut it; a frame that fits msg is reported
\* valid exactly when its last byte is the sum of the others.
StreamIsBatch ==
  LET ref == Batch(input)
  IN  /\ [i \in DOMAIN frames |-> frames[i].bytes]
         = [i \in DOMAIN ref.frames |-> InMsg(ref.frames[i])]
      /\ pos = Len(ref.rest)
      /\ \A i \in DOMAIN frames :
           Len(frames[i].bytes) <= MsgSize =>
             LET f == frames[i].bytes
             IN  frames[i].valid <=> f[Len(f)] = SumOfFront(f)

\* Every byte outside the frames is displayed, once and in order, unless one
\* of them is a NUL, which hides the rest of its block, or a frame was too long
\* for msg.
TextKept ==
  LET text == Batch(input).text
  IN  /\ \A i \in DOMAIN text : text[i] # NUL
      /\ pos <= MsgSize /\ \A i \in DOMAIN frames : Len(frames[i].bytes) <= MsgSize
      => shown \o filtered = text

\* A frame in progress never passes the end its third byte tells, and the
\* memory behind msg is written only for a frame too long for msg.
FrameInProgress ==
  /\ pos > 2 => pos <= len + 3
  /\ pos <= 2 => len = 0
  /\ pos > MsgSize => len + 4 > MsgSize

\* The bytes of the frame in progress are the last of the input.
PendingInInput ==
  /\ pos <= Len(input)
  /\ pos > 0 => input[Len(input) - pos + 1] = START
  /\ pos > 2 => input[Len(input) - pos + 3] = len

\* A reported frame begins with START and is as long as its third byte tells.
FrameShape ==
  \A i \in DOMAIN frames :
    LET f == frames[i].bytes
    IN  /\ Len(f) >= 4 /\ Len(f) = f[3] + 4
        /\ f[1] = START

\* A later block fits filtered with its terminator; the first one is of the
\* size of its read.
RoomLeft ==
  \/ Len(filtered) + left <= FilteredSize - 1
  \/ Len(filtered) <= Len(input) /\ Len(input) + left <= FirstSize

\* Why the properties hold: the inductive invariant of the parser's statics.
FilterInv == TypeOK /\ FrameInProgress /\ PendingInInput /\ FrameShape /\ RoomLeft

\* Only the first block, whose read may be oversized, can bring more text than
\* filtered has room for with its terminator.
OnlyFirstOverflows == Len(filtered) >= FilteredSize => Len(input) <= FirstSize

\* The frame in progress is what Batch leaves over, and checksum its sum while
\* it fits msg.
PendingIsRest ==
  /\ Batch(input).rest = SubSeq(input, Len(input) - pos + 1, Len(input))
  /\ pos <= MsgSize => checksum = Sums(Batch(input).rest)[pos] % ByteMod

\* Why StreamIsBatch and TextKept hold.
StreamInv == FilterInv /\ PendingIsRest /\ StreamIsBatch /\ TextKept
=============================================================================
