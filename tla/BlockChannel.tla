---------------------------- MODULE BlockChannel ----------------------------
(***************************************************************************)
(* What the block ring of serial.h promises to the window that prints it:  *)
(* the blocks read from the port are printed one by one in the order they  *)
(* arrived, none skipped and none repeated, and a block that fits is       *)
(* printed as it was read unless more than Capacity blocks were waiting    *)
(* for the printer when its turn ended.  The writer is never held back: a  *)
(* printer that falls further behind loses contents, never order, and what *)
(* it prints instead is newer than the block it asked for, never older.    *)
(***************************************************************************)
EXTENDS Integers, Sequences

CONSTANTS
  Capacity,  \* published blocks that may wait without being overwritten
  BlockSize, \* bytes a block has room for
  Counts     \* the byte counts a read can have

VARIABLES
  wire,      \* byte counts of the published blocks, in order of arrival
  shown      \* the last block printed: its turn, whose bytes, how many bytes

vars == <<wire, shown>>

Torn == -1   \* bytes of two blocks, mixed while they were being printed

Waiting == Len(wire) - shown.seq

\* A printed record is the block whose turn it was, bytes and count alike.
Intact(rec) == /\ rec.n = wire[rec.seq]
               /\ rec.n > 0 => rec.tag = rec.seq

Init == /\ wire = << >>
        /\ shown = [seq |-> 0, tag |-> 0, n |-> 0]

Arrive == /\ \E n \in Counts : wire' = Append(wire, n)
          /\ UNCHANGED shown

Show == /\ Waiting > 0
        /\ shown' = [seq |-> shown.seq + 1, tag |-> shown'.tag, n |-> shown'.n]
        /\ shown'.n \in Counts
        /\ shown'.n > 0 => shown'.tag = Torn \/ shown'.tag >= shown'.seq
        /\ (Waiting <= Capacity /\ shown'.n <= BlockSize) => Intact(shown')
        /\ UNCHANGED wire

Next == Arrive \/ Show

Spec == Init /\ [][Next]_vars
=============================================================================
