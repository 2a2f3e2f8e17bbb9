------------------------------ MODULE PoolIndex ------------------------------
(***************************************************************************)
(* pool_t::get and is_powerOf2 (serial.h), bit by bit.  SerialRing takes   *)
(* the block of an index as a remainder; the code masks.  This module puts *)
(* the two side by side in the states of the ring, where the indices wrap. *)
(***************************************************************************)
EXTENDS SerialRing

U32 == 0 .. IdxMod - 1

\* x & y, bit by bit from the lowest.
BitAnd[x \in U32] ==
  [y \in U32 |-> IF x = 0 \/ y = 0 THEN 0
                 ELSE 2 * BitAnd[x \div 2][y \div 2] + (x % 2) * (y % 2)]

x & y == BitAnd[x][y]

\* u32 arithmetic.
MinusOne(v) == (v - 1) % IdxMod

IsPowerOf2(v) == v # 0 /\ (v & MinusOne(v)) = 0

\* The static_assert lets only such a pool be compiled.
ASSUME PoolAssumption == Dim \in U32 /\ IsPowerOf2(Dim)

\* Mutant of Get: the mask is the dimension.
MaskDim(idx) == idx & Dim

Get(idx) == idx & MinusOne(Dim)

-----------------------------------------------------------------------------
(* Properties.                                                             *)

\* Masking names the block that SerialRing's remainder names, on both sides of
\* the wrap: the driver's next block, the one being published, and the one being
\* printed are those the ring's other properties speak of (serial.h:16-21).
MaskIsSlot ==
  \A idx \in {block_idx, Inc(block_idx), print_idx} : Get(idx) = Slot(idx)
=============================================================================
