----------------------------- MODULE SerialRing -----------------------------
(***************************************************************************)
(* The receive path of serial_t (serial.h, serial.cpp): the serial thread  *)
(* keeps one overlapped ReadFileEx outstanding into a pool_t of Dim        *)
(* blocks, its completion routine read_done publishes the block by         *)
(* incrementing block_idx, and the window's timer prints what lies between *)
(* print_idx and block_idx (serial_t::poll).  There is no lock and no back *)
(* pressure: the two atomic indices are all the threads share besides the  *)
(* blocks.                                                                 *)
(*                                                                         *)
(* The bytes of a block are abstracted to the number of the read that      *)
(* brought them (1, 2, ...), 0 for memory nobody wrote; wire and shown are *)
(* history variables, used by guards only to bound a run.                  *)
(***************************************************************************)
EXTENDS Integers, Sequences

CONSTANTS
  Dim,           \* blocks in the pool (4 in block_buffer_t)
  IdxMod,        \* the indices are u32: 2^32
  DataSize,      \* sizeof(block_t::data) (4096)
  CountSize,     \* sizeof(block_t::count), the size_t before data
  MaxTransfers,  \* bound: reads the port completes in a run
  MaxLag         \* bound: published blocks that may wait to be printed

ASSUME ConstantsAssumption ==
  /\ Dim \in Nat /\ Dim >= 2
  /\ IdxMod \in Nat /\ \E k \in 1..IdxMod : IdxMod = Dim * k
  /\ DataSize \in Nat \ {0} /\ CountSize \in Nat \ {0}
  /\ MaxTransfers \in Nat
  /\ MaxLag \in Nat /\ MaxLag < IdxMod

VARIABLES
  block_idx,  \* next block to publish, written by the serial thread only
  print_idx,  \* next block to print, written by the window only
  data,       \* data[s]: the read whose bytes block s holds
  count,      \* count[s]: the count field of block s
  io,         \* the outstanding read and how far its completion has come
  gui,        \* poll: what it took from the block it is printing
  wire,       \* history: counts of the published blocks
  shown       \* history: the last block handed to the sink

vars == <<block_idx, print_idx, data, count, io, gui, wire, shown>>

Slots == 0 .. Dim - 1
Junk  == -1   \* a count field holding bytes that are no count
Torn  == -1   \* bytes that changed while the sink was copying them

\* pool_t::get: idx & (dim-1), dim being a power of two.
Slot(idx) == idx % Dim

\* Mutant of Inc: indices kept modulo the pool.
PoolInc(idx) == (idx + 1) % Dim

Inc(idx) == (idx + 1) % IdxMod

\* start asks for one byte less than the whole block_t, count field included;
\* read_done asks for one byte less than data holds.
FirstRequest == CountSize + DataSize - 1
NextRequest  == DataSize - 1

\* Byte DataSize of a block is the first byte of the next block's count.
SpillCount(cnt, s, last) ==
  IF last >= DataSize THEN [cnt EXCEPT ![(s + 1) % Dim] = Junk] ELSE cnt

Read(st, idx, req) == [st |-> st, slot |-> Slot(idx), req |-> req, n |-> 0]

Init == /\ block_idx = 0 /\ print_idx = 0
        /\ data  = [s \in Slots |-> 0]
        /\ count = [s \in Slots |-> Junk]
        /\ io    = Read("none", 0, 0)
        /\ gui   = [at |-> "idle", tag |-> 0, n |-> 0]
        /\ wire  = << >>
        /\ shown = [seq |-> 0, tag |-> 0, n |-> 0]

-----------------------------------------------------------------------------
(* The serial thread and the driver.                                       *)

\* start: the first read goes into the block block_idx names.
Start ==
  /\ io.st = "none"
  /\ io' = Read("pending", block_idx, FirstRequest)
  /\ UNCHANGED <<block_idx, print_idx, data, count, gui, wire, shown>>

\* The bounds of a run.
MayReceive == /\ Len(wire) < MaxTransfers
              /\ Len(wire) - shown.seq < MaxLag

\* The driver stores the received bytes, at most as many as were asked for.
Fill ==
  /\ io.st = "pending" /\ MayReceive
  /\ \E n \in 1 .. io.req :
       /\ io' = [io EXCEPT !.st = "filled", !.n = n]
       /\ count' = SpillCount(count, io.slot, n - 1)
  /\ data' = [data EXCEPT ![io.slot] = Len(wire) + 1]
  /\ UNCHANGED <<block_idx, print_idx, gui, wire, shown>>

\* The read completes, by its interval timeout or full, or with nothing when
\* the total timeout expires first; its completion routine is queued.
Complete ==
  /\ io.st = "filled" \/ (io.st = "pending" /\ MayReceive)
  /\ io' = [io EXCEPT !.st = "done"]
  /\ UNCHANGED <<block_idx, print_idx, data, count, gui, wire, shown>>

\* Or it completes with an error, as when the adapter is pulled out.
Fail ==
  /\ io.st \in {"pending", "filled"}
  /\ io' = [io EXCEPT !.st = "failed"]
  /\ UNCHANGED <<block_idx, print_idx, data, count, gui, wire, shown>>

\* read_done of such a read: DebugBreak ends the program.
Break ==
  /\ io.st = "failed"
  /\ io' = [io EXCEPT !.st = "dead"]
  /\ UNCHANGED <<block_idx, print_idx, data, count, gui, wire, shown>>

Running == io.st # "dead"

\* Mutant of StoreCount: curr.count is left as it was.
StoreNoCount ==
  /\ io.st = "done"
  /\ io' = [io EXCEPT !.st = "counted"]
  /\ count' = SpillCount(count, Slot(block_idx), io.n)
  /\ UNCHANGED <<block_idx, print_idx, data, gui, wire, shown>>

\* read_done, up to curr.count: terminator and count of the block.
StoreCount ==
  /\ io.st = "done"
  /\ io' = [io EXCEPT !.st = "counted"]
  /\ count' = SpillCount([count EXCEPT ![Slot(block_idx)] = io.n],
                         Slot(block_idx), io.n)
  /\ UNCHANGED <<block_idx, print_idx, data, gui, wire, shown>>

\* Mutant of Publish: the next read goes into the block just published.
PublishSameBlock ==
  /\ io.st = "counted"
  /\ block_idx' = Inc(block_idx)
  /\ io' = Read("pending", block_idx, NextRequest)
  /\ wire' = Append(wire, io.n)
  /\ UNCHANGED <<print_idx, data, count, gui, shown>>

\* read_done, from block_idx++ to ReadFileEx: the window can see the block
\* from here on, and the next read goes into the block after it.
Publish ==
  /\ io.st = "counted"
  /\ block_idx' = Inc(block_idx)
  /\ io' = Read("pending", block_idx', NextRequest)
  /\ wire' = Append(wire, io.n)
  /\ UNCHANGED <<print_idx, data, count, gui, shown>>

-----------------------------------------------------------------------------
(* The window: one turn of poll's loop, in two steps because the sink      *)
(* copies the block while the driver may be writing it.                    *)

\* What was there when the copy began is there when it ends; the bytes that
\* did not fit are in the next block's count for as long as it is junk.
Steady(s) == /\ data[s] = gui.tag
             /\ gui.n > DataSize => count[(s + 1) % Dim] = Junk

PollTake ==
  /\ Running /\ gui.at = "idle"
  /\ print_idx # block_idx
  /\ gui' = [at |-> "copy", tag |-> data[Slot(print_idx)], n |-> count[Slot(print_idx)]]
  /\ UNCHANGED <<block_idx, print_idx, data, count, io, wire, shown>>

\* Mutant of PollDone: the window catches up by jumping to the newest block.
PollSkip ==
  /\ Running /\ gui.at = "copy"
  /\ gui' = [gui EXCEPT !.at = "idle"]
  /\ shown' = [seq |-> shown.seq + 1, n |-> gui.n,
               tag |-> IF Steady(Slot(print_idx)) THEN gui.tag ELSE Torn]
  /\ print_idx' = block_idx
  /\ UNCHANGED <<block_idx, data, count, io, wire>>

PollDone ==
  /\ Running /\ gui.at = "copy"
  /\ gui' = [gui EXCEPT !.at = "idle"]
  /\ shown' = [seq |-> shown.seq + 1, n |-> gui.n,
               tag |-> IF Steady(Slot(print_idx)) THEN gui.tag ELSE Torn]
  /\ print_idx' = Inc(print_idx)
  /\ UNCHANGED <<block_idx, data, count, io, wire>>

-----------------------------------------------------------------------------

Device == Fill \/ Complete \/ Fail
Thread == Start \/ StoreCount \/ Publish \/ Break
Window == PollTake \/ PollDone
Next   == Device \/ Thread \/ Window

Spec == Init /\ [][Next]_vars

\* The completion routine runs in the thread's alertable wait, the timer
\* polls every 33 ms; nothing obliges the device to send.
FairSpec == Spec /\ WF_vars(Thread) /\ WF_vars(Window)

-----------------------------------------------------------------------------
(* Properties.                                                             *)

Counts == 0 .. FirstRequest

TypeOK ==
  /\ block_idx \in 0 .. IdxMod - 1 /\ print_idx \in 0 .. IdxMod - 1
  /\ data \in [Slots -> Nat]
  /\ count \in [Slots -> Counts \cup {Junk}]
  /\ io \in [st : {"none", "pending", "filled", "done", "counted", "failed", "dead"},
             slot : Slots, req : Counts, n : Counts]
  /\ gui \in [at : {"idle", "copy"}, tag : Nat, n : Counts \cup {Junk}]
  /\ wire \in Seq(Counts)
  /\ shown \in [seq : Nat, tag : Nat \cup {Torn}, n : Counts \cup {Junk}]

\* The count the sink is given is always one that read_done stored: neither
\* memory nobody wrote nor the tail of an oversized first read, which spills
\* into the count of the block after it (start's request, serial.cpp:180).
CountIsRead == gui.n # Junk

\* Only the first block printed can be longer than a block has room for with
\* its terminator: every later request is bounded by data.
OnlyFirstOversized == \A i \in 1 .. Len(wire) : wire[i] >= DataSize => i = 1

\* poll's test print_idx == block_idx means that everything was printed, also
\* after the 32-bit indices wrapped (serial.cpp:44-46).
EmptyTestExact == (print_idx = block_idx) <=> (shown.seq = Len(wire))

\* No data race on a block's bytes as long as fewer than Dim blocks wait: the
\* driver's block is never the one the window is printing.
DisjointBlocks ==
  (gui.at = "copy" /\ Len(wire) - shown.seq < Dim) => io.slot # Slot(print_idx)

\* The ring keeps the promise of BlockChannel: arrival order, no block skipped
\* or repeated, contents intact while at most Dim - 1 blocks wait.
Channel == INSTANCE BlockChannel WITH Capacity <- Dim - 1, BlockSize <- DataSize

RefinesChannel == Channel!Spec

\* Why the above hold, as one inductive invariant.
IndicesMatch ==
  block_idx = Len(wire) % IdxMod /\ print_idx = shown.seq % IdxMod

LagBounded ==
  /\ shown.seq <= Len(wire) /\ Len(wire) - shown.seq <= MaxLag
  /\ io.st \in {"filled", "done", "counted"} => Len(wire) - shown.seq < MaxLag

\* The outstanding read goes into the block after the published ones, and only
\* the first may ask for more than data holds.
ReadInFront ==
  /\ io.st = "none" => Len(wire) = 0
  /\ io.slot = Slot(Len(wire))
  /\ io.st \in {"none", "pending"} => io.n = 0
  /\ io.n <= io.req /\ (io.req <= NextRequest \/ Len(wire) = 0)
  /\ (io.st # "pending" /\ io.n > 0) => data[io.slot] = Len(wire) + 1
  /\ io.st = "counted" => count[io.slot] = io.n

\* The last Dim - 1 published blocks are still what was read; every published
\* block's count is a count, and no bytes under it are older than the block.
BlocksHold ==
  \A i \in 1 .. Len(wire) :
    /\ count[Slot(i - 1)] # Junk
    /\ count[Slot(i - 1)] > 0 => data[Slot(i - 1)] >= i
    /\ i > Len(wire) + 1 - Dim =>
         /\ count[Slot(i - 1)] = wire[i]
         /\ wire[i] > 0 => data[Slot(i - 1)] = i

CopyHolds ==
  /\ gui.n # Junk
  /\ gui.at = "copy" =>
       /\ shown.seq < Len(wire)
       /\ gui.n > 0 => gui.tag >= shown.seq + 1
       /\ Len(wire) - shown.seq < Dim =>
            /\ gui.n = wire[shown.seq + 1]
            /\ gui.n > 0 => gui.tag = shown.seq + 1

RingInv == /\ TypeOK /\ IndicesMatch /\ LagBounded /\ ReadInFront
           /\ BlocksHold /\ CopyHolds /\ OnlyFirstOversized

\* Every published block is printed in the end, unless a read that failed ends
\* the program first (serial.cpp:75): the timer keeps polling and an overrun never
\* makes the indices miss each other.
EveryBlockPrinted ==
  \A k \in 1 .. MaxTransfers : (Len(wire) >= k) ~> (shown.seq >= k \/ ~ Running)
=============================================================================
