-------------------------- MODULE SerialRingProofs --------------------------
(***************************************************************************)
(* For every pool size, index width, block size and length of run: the     *)
(* ring's inductive invariant, the safety properties it gives, that the    *)
(* ring implements BlockChannel, and that masking finds its blocks.        *)
(***************************************************************************)
EXTENDS PoolIndex, WellFoundedInduction, TLAPS

-----------------------------------------------------------------------------
(* Arithmetic of wrapped counters: what remains true of ring positions     *)
(* when the index that names them is itself kept modulo a larger number.   *)

\* A number written as quotient and remainder has that remainder.
LEMMA ModUnique ==
  ASSUME NEW d \in Nat \ {0}, NEW q \in Int, NEW r \in 0 .. d - 1
  PROVE  (d * q + r) % d = r
  OBVIOUS

\* Every integer is so written by \div and %.
LEMMA DivMod ==
  ASSUME NEW d \in Nat \ {0}, NEW x \in Int
  PROVE  /\ x \div d \in Int
         /\ x % d \in 0 .. d - 1
         /\ x = d * (x \div d) + (x % d)
  OBVIOUS

\* Two counters less than d apart are at different positions of a ring of d.
LEMMA ModDistinct ==
  ASSUME NEW d \in Nat \ {0}, NEW a \in Nat, NEW b \in Nat,
         a < b, b - a < d
  PROVE  a % d # b % d
<1> DEFINE q == a \div d
           p == b \div d
           r == a % d
<1>1. q \in Int /\ r \in 0 .. d - 1 /\ a = d * q + r
  BY DivMod
<1>2. p \in Int /\ b = d * p + (b % d)
  BY DivMod
<1>3. SUFFICES ASSUME b % d = r PROVE FALSE
  OBVIOUS
<1>4. b = d * p + r
  BY <1>2, <1>3
<1> HIDE DEF q, p, r
<1>5. b - a = d * (p - q) /\ p - q \in Int
  BY <1>1, <1>2, <1>4
<1>6. d * (p - q) > 0 /\ d * (p - q) < d
  BY <1>5
<1> QED
  BY <1>5, <1>6

\* Reducing a counter modulo a multiple m of d keeps its position modulo d.
LEMMA ModMod ==
  ASSUME NEW d \in Nat \ {0}, NEW k \in Nat \ {0}, NEW m \in Nat \ {0},
         NEW x \in Nat
  PROVE  m = d * k => (x % m) % d = x % d
<1> DEFINE q == x \div m
           r == x % m
           p == r \div d
           s == r % d
<1>1. q \in Int /\ r \in 0 .. m - 1 /\ x = m * q + r
  BY DivMod
<1> HIDE DEF q, r
<1>2. p \in Int /\ s \in 0 .. d - 1 /\ r = d * p + s
  <2>1. r \in Int
    BY <1>1
  <2> QED
    BY <2>1, DivMod
<1> HIDE DEF p, s
<1> HAVE m = d * k
<1>3. x = d * (k * q + p) + s /\ k * q + p \in Int
  BY <1>1, <1>2
<1>4. x % d = s
  BY <1>2, <1>3, ModUnique
<1> QED
  BY <1>4 DEF s, r

\* Incrementing a wrapped counter is wrapping the incremented counter.
LEMMA ModInc ==
  ASSUME NEW m \in Nat \ {0}, NEW x \in Nat
  PROVE  ((x % m) + 1) % m = (x + 1) % m
<1> DEFINE q == x \div m
           r == x % m
<1>1. q \in Int /\ r \in 0 .. m - 1 /\ x = m * q + r
  BY DivMod
<1> HIDE DEF q, r
<1>2. CASE r + 1 < m
  <2>1. x + 1 = m * q + (r + 1)
    BY <1>1
  <2>2. (x + 1) % m = r + 1
    BY <1>1, <1>2, <2>1, ModUnique
  <2>3. (r + 1) % m = r + 1
    BY <1>1, <1>2
  <2> QED
    BY <2>2, <2>3 DEF r
<1>3. CASE r + 1 = m
  <2>1. x + 1 = m * (q + 1) + 0
    BY <1>1, <1>3
  <2>2. (x + 1) % m = 0
    BY <1>1, <2>1, ModUnique
  <2>3. (r + 1) % m = 0
    BY <1>3
  <2> QED
    BY <2>2, <2>3 DEF r
<1> QED
  BY <1>1, <1>2, <1>3

-----------------------------------------------------------------------------
(* The ring.                                                               *)

\* What the proofs use of the assumption on the constants.
LEMMA Constants ==
  /\ Dim \in Nat \ {0} /\ Dim >= 2
  /\ IdxMod \in Nat \ {0}
  /\ DataSize \in Nat \ {0} /\ CountSize \in Nat \ {0}
  /\ NextRequest \in Nat /\ FirstRequest \in Nat /\ NextRequest <= FirstRequest
  /\ MaxTransfers \in Nat /\ MaxLag \in Nat /\ MaxLag < IdxMod
  /\ Counts = 0 .. FirstRequest
BY ConstantsAssumption DEF ConstantsAssumption, NextRequest, FirstRequest, Counts

\* A block number lies in the pool, and so does the block after it, which is
\* another one.
LEMMA SlotInPool ==
  /\ \A x \in Nat : Slot(x) \in Slots
  /\ \A s \in Slots : (s + 1) % Dim \in Slots /\ (s + 1) % Dim # s
BY Constants DEF Slot, Slots

\* Block numbers less than Dim apart are different blocks.
LEMMA SlotsDiffer ==
  \A x, y \in Nat : x < y /\ y - x < Dim => Slot(x) # Slot(y)
<1> SUFFICES ASSUME NEW x \in Nat, NEW y \in Nat, x < y, y - x < Dim
             PROVE  Slot(x) # Slot(y)
  OBVIOUS
<1> QED
  BY Constants, ModDistinct DEF Slot

\* A wrapped index names the block of the unwrapped one.
LEMMA SlotWraps == \A x \in Nat : Slot(x % IdxMod) = Slot(x)
<1> SUFFICES ASSUME NEW x \in Nat PROVE Slot(x % IdxMod) = Slot(x)
  OBVIOUS
<1>1. PICK k \in 1 .. IdxMod : IdxMod = Dim * k
  BY ConstantsAssumption DEF ConstantsAssumption
<1>2. k \in Nat \ {0} /\ Dim \in Nat \ {0} /\ IdxMod \in Nat \ {0}
  BY Constants
<1>3. IdxMod = Dim * k => (x % IdxMod) % Dim = x % Dim
  BY ONLY <1>2, x \in Nat, ModMod, Zenon
<1> QED
  BY <1>1, <1>3, Zenon DEF Slot

\* A wrapped index stays in range and is incremented like the unwrapped one.
LEMMA IndexInRange == \A x \in Nat : x % IdxMod \in 0 .. IdxMod - 1
BY Constants

LEMMA IndexSteps == \A x \in Nat : Inc(x % IdxMod) = (x + 1) % IdxMod
BY Constants, ModInc DEF Inc

\* Two wrapped indices are equal only when the unwrapped ones are, unless these
\* are IdxMod or more apart.
LEMMA IndicesDiffer ==
  \A x, y \in Nat : x < y /\ y - x < IdxMod => x % IdxMod # y % IdxMod
<1> SUFFICES ASSUME NEW x \in Nat, NEW y \in Nat, x < y, y - x < IdxMod
             PROVE  x % IdxMod # y % IdxMod
  OBVIOUS
<1> QED
  BY Constants, ModDistinct

-----------------------------------------------------------------------------
LEMMA InitRing == Init => RingInv
<1> SUFFICES ASSUME Init PROVE RingInv
  OBVIOUS
<1> USE Constants DEF Init, Read
<1>1. Slot(0) \in Slots /\ 0 % IdxMod = 0
  BY SlotInPool
<1>2. TypeOK
  BY <1>1 DEF TypeOK
<1>3. IndicesMatch
  BY <1>1 DEF IndicesMatch
<1>4. LagBounded /\ ReadInFront /\ BlocksHold /\ OnlyFirstOversized
  BY <1>1 DEF LagBounded, ReadInFront, BlocksHold, OnlyFirstOversized
<1>5. CopyHolds
  BY DEF CopyHolds, Junk
<1> QED
  BY <1>2, <1>3, <1>4, <1>5 DEF RingInv

LEMMA StartRing == RingInv /\ Start => RingInv'
<1> SUFFICES ASSUME RingInv, Start PROVE RingInv'
  OBVIOUS
<1> USE Constants DEF RingInv, Start, Read
<1>1. Len(wire) = 0 /\ Slot(block_idx) = Slot(Len(wire)) /\ Slot(block_idx) \in Slots
  <2>1. Len(wire) = 0 /\ block_idx = Len(wire) % IdxMod /\ Len(wire) \in Nat
    BY DEF ReadInFront, IndicesMatch, TypeOK
  <2> QED
    BY <2>1, SlotInPool, SlotWraps
<1>2. TypeOK'
  BY <1>1 DEF TypeOK
<1>3. IndicesMatch' /\ LagBounded' /\ CopyHolds' /\ OnlyFirstOversized'
  BY DEF IndicesMatch, LagBounded, CopyHolds, OnlyFirstOversized
<1>4. ReadInFront' /\ BlocksHold'
  BY <1>1 DEF ReadInFront, BlocksHold, TypeOK
<1> QED
  BY <1>2, <1>3, <1>4

LEMMA FillRing == RingInv /\ Fill => RingInv'
<1> SUFFICES ASSUME RingInv, Fill PROVE RingInv'
  OBVIOUS
<1> USE Constants DEF RingInv
<1>1. PICK n \in 1 .. io.req :
        /\ io' = [io EXCEPT !.st = "filled", !.n = n]
        /\ count' = SpillCount(count, io.slot, n - 1)
  BY DEF Fill
<1>2. /\ Len(wire) \in Nat /\ io.slot = Slot(Len(wire)) /\ io.slot \in Slots
      /\ n \in Counts /\ io.req \in Counts
      /\ (io.slot + 1) % Dim \in Slots
  <2>1. wire \in Seq(Counts) /\ io.slot \in Slots /\ io.req \in Counts
    BY DEF TypeOK
  <2>2. Len(wire) \in Nat /\ n \in Counts
    BY <2>1
  <2>3. io.slot = Slot(Len(wire))
    BY Zenon DEF ReadInFront
  <2> QED
    BY <2>1, <2>2, <2>3, SlotInPool, Zenon
<1>3. data' = [data EXCEPT ![io.slot] = Len(wire) + 1]
  BY DEF Fill
<1>4. UNCHANGED <<block_idx, print_idx, gui, wire, shown>>
  BY DEF Fill
<1>5. Len(wire) > 0 => count' = count
  BY <1>1, <1>2 DEF ReadInFront, SpillCount, NextRequest
<1>6. TypeOK'
  <2>1. count \in [Slots -> Counts \cup {Junk}] /\ data \in [Slots -> Nat]
    BY DEF TypeOK
  <2>2. count' \in [Slots -> Counts \cup {Junk}]
    BY <1>1, <1>2, <2>1 DEF SpillCount
  <2>3. data' \in [Slots -> Nat]
    BY <1>2, <1>3, <2>1
  <2>4. io' \in [st : {"none", "pending", "filled", "done", "counted", "failed", "dead"},
                slot : Slots, req : Counts, n : Counts]
    BY <1>1, <1>2 DEF TypeOK
  <2> QED
    BY <1>4, <2>2, <2>3, <2>4 DEF TypeOK
<1>7. IndicesMatch' /\ CopyHolds' /\ OnlyFirstOversized'
  BY <1>4 DEF IndicesMatch, CopyHolds, OnlyFirstOversized
<1>8. LagBounded'
  BY <1>1, <1>4 DEF LagBounded, Fill, MayReceive, TypeOK
<1>9. ReadInFront'
  BY <1>1, <1>2, <1>3, <1>4 DEF ReadInFront, TypeOK
<1>10. BlocksHold'
  <2> SUFFICES ASSUME NEW i \in 1 .. Len(wire)
               PROVE  /\ count'[Slot(i - 1)] # Junk
                      /\ count'[Slot(i - 1)] > 0 => data'[Slot(i - 1)] >= i
                      /\ i > Len(wire) + 1 - Dim =>
                           /\ count'[Slot(i - 1)] = wire[i]
                           /\ wire[i] > 0 => data'[Slot(i - 1)] = i
    BY <1>4 DEF BlocksHold
  <2>1. i - 1 \in Nat /\ Slot(i - 1) \in Slots
    BY <1>2, SlotInPool
  <2>2. i > Len(wire) + 1 - Dim => Slot(i - 1) # Slot(Len(wire))
    BY <1>2, <2>1, SlotsDiffer
  <2>3. data'[Slot(i - 1)] = IF Slot(i - 1) = io.slot THEN Len(wire) + 1
                                                      ELSE data[Slot(i - 1)]
    BY <1>3, <2>1 DEF TypeOK
  <2>4. count' = count
    BY <1>2, <1>5
  <2> QED
    BY <1>2, <2>2, <2>3, <2>4 DEF BlocksHold
<1> QED
  BY <1>6, <1>7, <1>8, <1>9, <1>10

LEMMA CompleteRing == RingInv /\ Complete => RingInv'
<1> SUFFICES ASSUME RingInv, Complete PROVE RingInv'
  OBVIOUS
<1> USE DEF RingInv, Complete
<1>1. TypeOK' /\ IndicesMatch' /\ BlocksHold' /\ CopyHolds' /\ OnlyFirstOversized'
  BY DEF TypeOK, IndicesMatch, BlocksHold, CopyHolds, OnlyFirstOversized
<1>2. LagBounded'
  BY DEF LagBounded, MayReceive, TypeOK
<1>3. ReadInFront'
  BY DEF ReadInFront, TypeOK
<1> QED
  BY <1>1, <1>2, <1>3

\* The error path leaves the ring as it is.
LEMMA ErrorRing == RingInv /\ (Fail \/ Break) => RingInv'
<1> SUFFICES ASSUME RingInv, Fail \/ Break PROVE RingInv'
  OBVIOUS
<1> USE DEF RingInv
<1>1. /\ io.st \in {"pending", "filled", "failed"}
      /\ io' = [io EXCEPT !.st = "failed"] \/ io' = [io EXCEPT !.st = "dead"]
      /\ io.st = "pending" => io' = [io EXCEPT !.st = "failed"]
      /\ UNCHANGED <<block_idx, print_idx, data, count, gui, wire, shown>>
  BY DEF Fail, Break
<1>2. TypeOK'
  BY <1>1 DEF TypeOK
<1>3. IndicesMatch' /\ BlocksHold' /\ CopyHolds' /\ OnlyFirstOversized'
  BY <1>1 DEF TypeOK, IndicesMatch, BlocksHold, CopyHolds, OnlyFirstOversized
<1>4. LagBounded'
  BY <1>1 DEF LagBounded, TypeOK
<1>5. ReadInFront'
  BY <1>1 DEF ReadInFront, TypeOK
<1> QED
  BY <1>2, <1>3, <1>4, <1>5

LEMMA StoreCountRing == RingInv /\ StoreCount => RingInv'
<1> SUFFICES ASSUME RingInv, StoreCount PROVE RingInv'
  OBVIOUS
<1> USE Constants DEF RingInv
<1>1. /\ io.st = "done" /\ io' = [io EXCEPT !.st = "counted"]
      /\ UNCHANGED <<block_idx, print_idx, data, gui, wire, shown>>
  BY DEF StoreCount
<1>2. /\ wire \in Seq(Counts) /\ Len(wire) \in Nat
      /\ io.n \in Counts /\ io.req \in Counts /\ io.n <= io.req
      /\ (io.req <= NextRequest \/ Len(wire) = 0)
      /\ (io.n > 0 => data[io.slot] = Len(wire) + 1)
  BY <1>1 DEF TypeOK, ReadInFront
<1>3. io.slot = Slot(Len(wire)) /\ Slot(block_idx) = io.slot
  <2>1. io.slot = Slot(Len(wire)) /\ block_idx = Len(wire) % IdxMod
    BY DEF ReadInFront, IndicesMatch
  <2> QED
    BY <1>2, <2>1, SlotWraps
<1>4. io.slot \in Slots /\ (io.slot + 1) % Dim \in Slots /\ (io.slot + 1) % Dim # io.slot
  BY <1>2, <1>3, SlotInPool
<1>5. count' = SpillCount([count EXCEPT ![io.slot] = io.n], io.slot, io.n)
  BY <1>3 DEF StoreCount
<1>6. count \in [Slots -> Counts \cup {Junk}]
  BY DEF TypeOK
<1>7. count' \in [Slots -> Counts \cup {Junk}] /\ count'[io.slot] = io.n
  BY <1>2, <1>4, <1>5, <1>6 DEF SpillCount
<1>8. Len(wire) > 0 => count' = [count EXCEPT ![io.slot] = io.n]
  <2>1. Len(wire) > 0 => ~ (io.n >= DataSize)
    BY <1>2 DEF NextRequest
  <2> QED
    BY <1>5, <2>1 DEF SpillCount
<1>9. TypeOK'
  BY <1>1, <1>7 DEF TypeOK
<1>10. IndicesMatch' /\ CopyHolds' /\ OnlyFirstOversized'
  BY <1>1 DEF IndicesMatch, CopyHolds, OnlyFirstOversized
<1>11. LagBounded'
  BY <1>1 DEF LagBounded, TypeOK
<1>12. ReadInFront'
  BY <1>1, <1>2, <1>3, <1>7 DEF ReadInFront, TypeOK
<1>13. BlocksHold'
  <2> SUFFICES ASSUME NEW i \in 1 .. Len(wire)
               PROVE  /\ count'[Slot(i - 1)] # Junk
                      /\ count'[Slot(i - 1)] > 0 => data[Slot(i - 1)] >= i
                      /\ i > Len(wire) + 1 - Dim =>
                           /\ count'[Slot(i - 1)] = wire[i]
                           /\ wire[i] > 0 => data[Slot(i - 1)] = i
    BY <1>1 DEF BlocksHold
  <2>1. i - 1 \in Nat /\ Slot(i - 1) \in Slots
    BY <1>2, SlotInPool
  <2>2. i > Len(wire) + 1 - Dim => Slot(i - 1) # io.slot
    <3>1. i > Len(wire) + 1 - Dim => i - 1 < Len(wire) /\ Len(wire) - (i - 1) < Dim
      BY <1>2, <2>1
    <3> QED
      BY <1>2, <1>3, <2>1, <3>1, SlotsDiffer
  <2>3. count'[Slot(i - 1)] = IF Slot(i - 1) = io.slot THEN io.n
                                                       ELSE count[Slot(i - 1)]
    BY <1>2, <1>6, <1>8, <2>1
  <2>4. io.n # Junk
    BY <1>2 DEF Junk
  <2>5. CASE Slot(i - 1) = io.slot
    <3>1. count'[Slot(i - 1)] = io.n /\ ~ (i > Len(wire) + 1 - Dim)
      BY <2>2, <2>3, <2>5
    <3>2. io.n > 0 => data[Slot(i - 1)] >= i
      BY <1>2, <2>5
    <3> QED
      BY <2>4, <3>1, <3>2
  <2>6. CASE Slot(i - 1) # io.slot
    <3>1. count'[Slot(i - 1)] = count[Slot(i - 1)]
      BY <2>3, <2>6
    <3> QED
      BY <3>1 DEF BlocksHold
  <2> QED
    BY <2>5, <2>6
<1> QED
  BY <1>9, <1>10, <1>11, <1>12, <1>13

LEMMA PublishRing == RingInv /\ Publish => RingInv'
<1> SUFFICES ASSUME RingInv, Publish PROVE RingInv'
  OBVIOUS
<1> USE Constants DEF RingInv
<1>1. /\ io.st = "counted" /\ block_idx' = Inc(block_idx)
      /\ io' = [st |-> "pending", slot |-> Slot(block_idx'), req |-> NextRequest, n |-> 0]
      /\ wire' = Append(wire, io.n)
      /\ UNCHANGED <<print_idx, data, count, gui, shown>>
  BY DEF Publish, Read
<1>2. /\ wire \in Seq(Counts) /\ Len(wire) \in Nat
      /\ io.n \in Counts /\ io.req \in Counts /\ io.n <= io.req /\ (io.req <= NextRequest \/ Len(wire) = 0)
      /\ (io.n > 0 => data[io.slot] = Len(wire) + 1)
      /\ count[io.slot] = io.n
  BY <1>1 DEF TypeOK, ReadInFront
<1>3. io.slot = Slot(Len(wire)) /\ block_idx = Len(wire) % IdxMod
  BY DEF ReadInFront, IndicesMatch
<1>4. block_idx' = (Len(wire) + 1) % IdxMod /\ block_idx' \in 0 .. IdxMod - 1
  <2>1. block_idx' = Inc(Len(wire) % IdxMod) /\ Len(wire) + 1 \in Nat
    BY <1>1, <1>2, <1>3
  <2>2. block_idx' = (Len(wire) + 1) % IdxMod
    BY <1>2, <2>1, IndexSteps
  <2> QED
    BY <2>1, <2>2, IndexInRange
<1>5. Slot(block_idx') = Slot(Len(wire) + 1) /\ Slot(block_idx') \in Slots
  <2>1. Len(wire) + 1 \in Nat
    BY <1>2
  <2> QED
    BY <1>4, <2>1, SlotWraps, SlotInPool
<1>6. /\ wire' \in Seq(Counts) /\ Len(wire') = Len(wire) + 1
      /\ wire'[Len(wire) + 1] = io.n
      /\ \A i \in 1 .. Len(wire) : wire'[i] = wire[i]
  BY <1>1, <1>2
<1>7. TypeOK'
  BY <1>1, <1>4, <1>5, <1>6 DEF TypeOK
<1>8. IndicesMatch'
  BY <1>1, <1>4, <1>6 DEF IndicesMatch
<1>9. LagBounded'
  BY <1>1, <1>2, <1>6 DEF LagBounded, TypeOK
<1>10. ReadInFront'
  BY <1>1, <1>2, <1>5, <1>6 DEF ReadInFront
<1>11. BlocksHold'
  <2> SUFFICES ASSUME NEW i \in 1 .. Len(wire) + 1
               PROVE  /\ count[Slot(i - 1)] # Junk
                      /\ count[Slot(i - 1)] > 0 => data[Slot(i - 1)] >= i
                      /\ i > Len(wire) + 2 - Dim =>
                           /\ count[Slot(i - 1)] = wire'[i]
                           /\ wire'[i] > 0 => data[Slot(i - 1)] = i
    BY <1>1, <1>2, <1>6 DEF BlocksHold
  <2>1. CASE i = Len(wire) + 1
    <3>1. Slot(i - 1) = io.slot /\ wire'[i] = io.n
      BY <1>2, <1>3, <1>6, <2>1
    <3> QED
      BY <1>2, <2>1, <3>1 DEF Junk
  <2>2. CASE i \in 1 .. Len(wire)
    <3>1. /\ count[Slot(i - 1)] # Junk
          /\ count[Slot(i - 1)] > 0 => data[Slot(i - 1)] >= i
          /\ i > Len(wire) + 1 - Dim =>
               /\ count[Slot(i - 1)] = wire[i]
               /\ wire[i] > 0 => data[Slot(i - 1)] = i
      BY <2>2, Zenon DEF BlocksHold
    <3>2. wire'[i] = wire[i]
      BY <1>6, <2>2
    <3>3. i > Len(wire) + 2 - Dim => i > Len(wire) + 1 - Dim
      BY <1>2, <2>2
    <3> QED
      BY <3>1, <3>2, <3>3
  <2> QED
    BY <1>2, <2>1, <2>2
<1>12. CopyHolds'
  <2>1. /\ gui' = gui /\ shown' = shown /\ shown.seq \in Nat
    BY <1>1 DEF TypeOK
  <2>2. shown.seq < Len(wire) =>
          /\ wire'[shown.seq + 1] = wire[shown.seq + 1]
          /\ shown.seq < Len(wire')
    <3>1. shown.seq < Len(wire) => shown.seq + 1 \in 1 .. Len(wire)
      BY <1>2, <2>1
    <3>2. shown.seq < Len(wire) => shown.seq < Len(wire')
      BY <1>2, <1>6, <2>1
    <3> QED
      BY <1>6, <3>1, <3>2, Zenon
  <2>3. Len(wire') - shown.seq < Dim => Len(wire) - shown.seq < Dim
    BY <1>2, <1>6, <2>1
  <2> QED
    BY <2>1, <2>2, <2>3 DEF CopyHolds
<1>13. OnlyFirstOversized'
  <2> SUFFICES ASSUME NEW i \in 1 .. Len(wire) + 1, wire'[i] >= DataSize
               PROVE  i = 1
    BY <1>6 DEF OnlyFirstOversized
  <2>1. CASE i = Len(wire) + 1
    <3>1. io.n >= DataSize
      BY <1>6, <2>1
    <3> QED
      BY <1>2, <2>1, <3>1 DEF NextRequest
  <2>2. CASE i \in 1 .. Len(wire)
    BY <1>6, <2>2 DEF OnlyFirstOversized
  <2> QED
    BY <1>2, <2>1, <2>2
<1> QED
  BY <1>7, <1>8, <1>9, <1>10, <1>11, <1>12, <1>13

-----------------------------------------------------------------------------
\* The window prints the block of its turn, and there is one when it prints.
LEMMA WindowFacts ==
  ASSUME RingInv
  PROVE  /\ shown.seq \in Nat /\ Len(wire) \in Nat /\ shown.seq <= Len(wire)
         /\ Slot(print_idx) = Slot(shown.seq) /\ Slot(print_idx) \in Slots
         /\ (print_idx = block_idx) <=> (shown.seq = Len(wire))
<1> USE Constants DEF RingInv
<1>1. /\ shown.seq \in Nat /\ Len(wire) \in Nat /\ shown.seq <= Len(wire)
      /\ Len(wire) - shown.seq <= MaxLag
  BY DEF TypeOK, LagBounded
<1>2. print_idx = shown.seq % IdxMod /\ block_idx = Len(wire) % IdxMod
  BY DEF IndicesMatch
<1>3. Slot(print_idx) = Slot(shown.seq) /\ Slot(print_idx) \in Slots
  BY <1>1, <1>2, SlotWraps, SlotInPool
<1>4. ASSUME shown.seq < Len(wire) PROVE print_idx # block_idx
  <2>1. Len(wire) - shown.seq < IdxMod
    BY <1>1
  <2> QED
    BY <1>1, <1>2, <1>4, <2>1, IndicesDiffer
<1> QED
  BY <1>1, <1>2, <1>3, <1>4

\* What block x, counted from zero, still holds.
LEMMA BlockAt ==
  ASSUME RingInv, NEW x \in Nat, x < Len(wire)
  PROVE  /\ count[Slot(x)] # Junk
         /\ count[Slot(x)] > 0 => data[Slot(x)] >= x + 1
         /\ Len(wire) - x < Dim =>
              /\ count[Slot(x)] = wire[x + 1]
              /\ wire[x + 1] > 0 => data[Slot(x)] = x + 1
<1>1. PICK i \in 1 .. Len(wire) : i = x + 1
  BY DEF RingInv, TypeOK
<1>2. i - 1 = x
  BY <1>1
<1>3. /\ count[Slot(i - 1)] # Junk
      /\ count[Slot(i - 1)] > 0 => data[Slot(i - 1)] >= i
      /\ i > Len(wire) + 1 - Dim =>
           /\ count[Slot(i - 1)] = wire[i]
           /\ wire[i] > 0 => data[Slot(i - 1)] = i
  BY Zenon DEF RingInv, BlocksHold
<1>4. Len(wire) - x < Dim => i > Len(wire) + 1 - Dim
  BY <1>1, Constants DEF RingInv, TypeOK
<1> QED
  BY <1>1, <1>2, <1>3, <1>4, Zenon

LEMMA PollTakeRing == RingInv /\ PollTake => RingInv'
<1> SUFFICES ASSUME RingInv, PollTake PROVE RingInv'
  OBVIOUS
<1> USE Constants DEF RingInv
<1> DEFINE s == Slot(shown.seq)
<1>1. /\ print_idx # block_idx
      /\ gui' = [at |-> "copy", tag |-> data[s], n |-> count[s]]
      /\ UNCHANGED <<block_idx, print_idx, data, count, io, wire, shown>>
  BY WindowFacts DEF PollTake
<1>2. /\ shown.seq \in Nat /\ Len(wire) \in Nat /\ shown.seq < Len(wire)
      /\ s \in Slots
  BY <1>1, WindowFacts
<1>3. data[s] \in Nat /\ count[s] \in Counts \cup {Junk}
  BY <1>2 DEF TypeOK
<1>4. /\ count[s] # Junk
      /\ count[s] > 0 => data[s] >= shown.seq + 1
      /\ Len(wire) - shown.seq < Dim =>
           /\ count[s] = wire[shown.seq + 1]
           /\ wire[shown.seq + 1] > 0 => data[s] = shown.seq + 1
  BY <1>2, BlockAt
<1>5. TypeOK'
  BY <1>1, <1>3 DEF TypeOK
<1>6. CopyHolds'
  BY <1>1, <1>2, <1>3, <1>4 DEF CopyHolds
<1>7. IndicesMatch' /\ LagBounded' /\ ReadInFront' /\ BlocksHold' /\ OnlyFirstOversized'
  BY <1>1 DEF IndicesMatch, LagBounded, ReadInFront, BlocksHold, OnlyFirstOversized
<1> QED
  BY <1>5, <1>6, <1>7

LEMMA PollDoneRing == RingInv /\ PollDone => RingInv'
<1> SUFFICES ASSUME RingInv, PollDone PROVE RingInv'
  OBVIOUS
<1> USE Constants DEF RingInv
<1> DEFINE t == IF Steady(Slot(print_idx)) THEN gui.tag ELSE Torn
<1>1. /\ gui.at = "copy" /\ gui' = [gui EXCEPT !.at = "idle"]
      /\ shown' = [seq |-> shown.seq + 1, n |-> gui.n, tag |-> t]
      /\ print_idx' = Inc(print_idx)
      /\ UNCHANGED <<block_idx, data, count, io, wire>>
  BY DEF PollDone
<1>2. /\ shown.seq \in Nat /\ Len(wire) \in Nat /\ shown.seq < Len(wire)
      /\ gui.tag \in Nat /\ gui.n \in Counts \cup {Junk} /\ gui.n # Junk
  BY <1>1 DEF TypeOK, CopyHolds
<1>3. print_idx' = (shown.seq + 1) % IdxMod /\ print_idx' \in 0 .. IdxMod - 1
  <2>1. print_idx = shown.seq % IdxMod /\ shown.seq + 1 \in Nat
    BY <1>2 DEF IndicesMatch
  <2> QED
    BY <1>1, <1>2, <2>1, IndexSteps, IndexInRange
<1>4. t \in Nat \cup {Torn}
  BY <1>2
<1> HIDE DEF t
<1>5. shown'.seq = shown.seq + 1 /\ wire' = wire /\ gui'.at = "idle" /\ gui'.n = gui.n
  BY <1>1 DEF TypeOK
<1>6. TypeOK'
  <2>1. shown' \in [seq : Nat, tag : Nat \cup {Torn}, n : Counts \cup {Junk}]
    BY <1>1, <1>2, <1>4
  <2>2. gui' \in [at : {"idle", "copy"}, tag : Nat, n : Counts \cup {Junk}]
    BY <1>1 DEF TypeOK
  <2> QED
    BY <1>1, <1>3, <2>1, <2>2 DEF TypeOK
<1>7. IndicesMatch'
  BY <1>1, <1>3, <1>5 DEF IndicesMatch
<1>8. LagBounded'
  BY <1>1, <1>2, <1>5 DEF LagBounded
<1>9. CopyHolds'
  BY <1>2, <1>5 DEF CopyHolds
<1>10. ReadInFront' /\ BlocksHold' /\ OnlyFirstOversized'
  BY <1>1 DEF ReadInFront, BlocksHold, OnlyFirstOversized
<1> QED
  BY <1>6, <1>7, <1>8, <1>9, <1>10

-----------------------------------------------------------------------------
\* The strengthened invariant holds in every run of serial_t's receive path,
\* whatever the pool, the index width, the block size and the bounds.
THEOREM RingInvariant == Spec => []RingInv
<1>1. ASSUME RingInv, [Next]_vars PROVE RingInv'
  <2>1. CASE Start
    BY <1>1, <2>1, StartRing
  <2>2. CASE Fill
    BY <1>1, <2>2, FillRing
  <2>3. CASE Complete
    BY <1>1, <2>3, CompleteRing
  <2>4. CASE StoreCount
    BY <1>1, <2>4, StoreCountRing
  <2>5. CASE Publish
    BY <1>1, <2>5, PublishRing
  <2>6. CASE PollTake
    BY <1>1, <2>6, PollTakeRing
  <2>7. CASE PollDone
    BY <1>1, <2>7, PollDoneRing
  <2>9. CASE Fail \/ Break
    BY <1>1, <2>9, ErrorRing
  <2>8. CASE UNCHANGED vars
    BY <1>1, <2>8 DEF vars, RingInv, TypeOK, IndicesMatch, LagBounded, ReadInFront,
       BlocksHold, CopyHolds, OnlyFirstOversized
  <2> QED
    BY <1>1, <2>1, <2>2, <2>3, <2>4, <2>5, <2>6, <2>7, <2>8, <2>9
       DEF Next, Device, Thread, Window
<1> QED
  BY <1>1, InitRing, PTL DEF Spec

\* The invariant of types.
THEOREM RingTypes == Spec => []TypeOK
BY RingInvariant, PTL DEF RingInv

\* The sink is never handed a count that read_done did not store.
THEOREM CountAlwaysRead == Spec => []CountIsRead
<1>1. RingInv => CountIsRead
  BY DEF RingInv, CopyHolds, CountIsRead
<1> QED
  BY <1>1, RingInvariant, PTL

\* poll's comparison of the two wrapped indices finds exactly the moments when
\* everything published was printed, as long as fewer than 2^32 blocks wait.
THEOREM EmptyTest == Spec => []EmptyTestExact
<1>1. RingInv => EmptyTestExact
  BY WindowFacts DEF EmptyTestExact
<1> QED
  BY <1>1, RingInvariant, PTL

\* While fewer than Dim blocks wait, the driver does not write the block that
\* the window prints.
THEOREM NoRaceOnBlocks == Spec => []DisjointBlocks
<1>1. ASSUME RingInv PROVE DisjointBlocks
  <2> SUFFICES ASSUME gui.at = "copy", Len(wire) - shown.seq < Dim
               PROVE  io.slot # Slot(print_idx)
    BY DEF DisjointBlocks
  <2>1. /\ shown.seq \in Nat /\ Len(wire) \in Nat
        /\ Slot(print_idx) = Slot(shown.seq)
    BY <1>1, WindowFacts
  <2>2. shown.seq < Len(wire) /\ io.slot = Slot(Len(wire))
    BY <1>1 DEF RingInv, CopyHolds, ReadInFront
  <2> QED
    BY <2>1, <2>2, SlotsDiffer
<1> QED
  BY <1>1, RingInvariant, PTL

-----------------------------------------------------------------------------
\* Publishing a block is an arrival of BlockChannel.
LEMMA PublishArrives == RingInv /\ Publish => Channel!Next
BY DEF RingInv, TypeOK, Publish, Channel!Next, Channel!Arrive

\* Printing one is a Show: its contents are the block's own unless Dim or more
\* blocks waited, and newer than the block's otherwise.
LEMMA PollDoneShows == RingInv /\ PollDone => Channel!Next
<1> SUFFICES ASSUME RingInv, PollDone PROVE Channel!Show
  BY DEF Channel!Next
<1> DEFINE x == shown.seq
           t == IF Steady(Slot(print_idx)) THEN gui.tag ELSE Torn
<1>1. /\ gui.at = "copy" /\ wire' = wire
      /\ shown' = [seq |-> x + 1, n |-> gui.n, tag |-> t]
  BY DEF PollDone
<1>2. /\ x \in Nat /\ Len(wire) \in Nat /\ x < Len(wire)
      /\ gui.n \in Counts /\ gui.tag \in Nat
      /\ gui.n > 0 => gui.tag >= x + 1
      /\ Len(wire) - x < Dim =>
           /\ gui.n = wire[x + 1]
           /\ gui.n > 0 => gui.tag = x + 1
  BY <1>1 DEF RingInv, TypeOK, CopyHolds
<1>3. gui.n > 0 => t = Torn \/ t >= x + 1
  BY <1>2
<1>4. (Len(wire) - x <= Dim - 1 /\ gui.n <= DataSize /\ gui.n > 0) => t = x + 1
  <2> HAVE Len(wire) - x <= Dim - 1 /\ gui.n <= DataSize /\ gui.n > 0
  <2>1. Len(wire) - x < Dim
    BY <1>2, Constants
  <2>2. gui.tag = x + 1 /\ wire[x + 1] = gui.n /\ wire[x + 1] > 0
    BY <1>2, <2>1
  <2>3. data[Slot(x)] = x + 1 /\ Slot(print_idx) = Slot(x)
    BY <1>2, <2>1, <2>2, BlockAt, WindowFacts
  <2>4. ~ (gui.n > DataSize)
    BY <1>2, Constants
  <2>5. Steady(Slot(print_idx))
    BY <2>2, <2>3, <2>4 DEF Steady
  <2> QED
    BY <2>2, <2>5
<1> HIDE DEF t
<1>5. shown'.seq = x + 1 /\ shown'.n = gui.n /\ shown'.tag = t
  BY <1>1
<1>6. shown' = [seq |-> x + 1, tag |-> shown'.tag, n |-> shown'.n]
  BY <1>1
<1>7. (Len(wire) - x <= Dim - 1 /\ gui.n <= DataSize) => Channel!Intact(shown')
  <2>1. Len(wire) - x <= Dim - 1 => gui.n = wire[x + 1]
    BY <1>2, Constants
  <2> QED
    BY <1>4, <1>5, <2>1 DEF Channel!Intact
<1>8. Len(wire) - x > 0
  BY <1>2
<1> QED
  BY <1>1, <1>2, <1>3, <1>5, <1>6, <1>7, <1>8
     DEF Channel!Show, Channel!Waiting, Channel!Torn, Torn

\* The ring implements BlockChannel with room for Dim - 1 waiting blocks: every
\* step of the threads, the driver and the window is a step of the channel or
\* leaves it alone.
THEOREM RingRefinesChannel == Spec => RefinesChannel
<1>1. Init => Channel!Init
  BY DEF Init, Channel!Init
<1>2. ASSUME RingInv, [Next]_vars PROVE [Channel!Next]_(Channel!vars)
  <2>1. CASE Publish
    BY <1>2, <2>1, PublishArrives
  <2>2. CASE PollDone
    BY <1>2, <2>2, PollDoneShows
  <2>3. CASE UNCHANGED <<wire, shown>>
    BY <2>3 DEF Channel!vars
  <2>4. \/ Publish \/ PollDone \/ UNCHANGED <<wire, shown>>
    BY <1>2 DEF Next, Device, Thread, Window, Start, Fill, Complete, Fail, Break,
                   StoreCount, PollTake, vars
  <2> QED
    BY <2>1, <2>2, <2>3, <2>4
<1> QED
  BY <1>1, <1>2, RingInvariant, PTL DEF Spec, RefinesChannel, Channel!Spec
-----------------------------------------------------------------------------
(* Masking.  What the recursive BitAnd computes for every index, and why a *)
(* number that passes is_powerOf2 makes a mask that is a remainder.        *)

LEMMA SetInduction ==
  ASSUME NEW S, 0 \in S, \A n \in Nat : n \in S => n + 1 \in S
  PROVE  Nat \subseteq S
<1> DEFINE T == Nat \ S
<1>1. SUFFICES ASSUME T # {} PROVE FALSE
  OBVIOUS
<1>2. IsWellFoundedOn(OpToRel(<, Nat), Nat)
  BY NatLessThanWellFounded
<1>3. PICK x \in T : \A y \in T : ~ (<<y, x>> \in OpToRel(<, Nat))
  BY <1>1, <1>2, WFMin
<1>4. x # 0 /\ x - 1 \in Nat
  OBVIOUS
<1>5. <<x - 1, x>> \in OpToRel(<, Nat)
  BY <1>4 DEF OpToRel
<1>6. x - 1 \in S
  BY <1>3, <1>4, <1>5
<1> QED
  BY <1>4, <1>6

\* What holds of zero, and of every number whose half it holds of, holds of all.
LEMMA HalvingInduction ==
  ASSUME NEW S, 0 \in S, \A x \in U32 \ {0} : x \div 2 \in S => x \in S
  PROVE  U32 \subseteq S
<1> DEFINE T == {n \in Nat : \A x \in U32 : x <= n => x \in S}
<1>1. 0 \in T
  BY DEF U32
<1>2. ASSUME NEW n \in Nat, n \in T PROVE n + 1 \in T
  <2> SUFFICES ASSUME NEW x \in U32, x <= n + 1 PROVE x \in S
    OBVIOUS
  <2>1. CASE x = 0
    BY <2>1
  <2>2. CASE x # 0
    <3>1. x \div 2 \in U32 /\ x \div 2 <= n
      BY <2>2, Constants DEF U32
    <3> QED
      BY <1>2, <2>2, <3>1
  <2> QED
    BY <2>1, <2>2
<1> HIDE DEF T
<1>3. Nat \subseteq T
  BY <1>1, <1>2, SetInduction
<1> QED
  <2> SUFFICES ASSUME NEW x \in U32 PROVE x \in S
    OBVIOUS
  <2>1. x \in Nat
    BY DEF U32
  <2> QED
    BY <1>3, <2>1 DEF T

\* Halves and bits.
LEMMA Halves ==
  ASSUME NEW x \in U32
  PROVE  /\ x \div 2 \in U32 /\ x % 2 \in {0, 1}
         /\ x = 2 * (x \div 2) + (x % 2)
BY Constants DEF U32

AndStep(x, f) ==
  [y \in U32 |-> IF x = 0 \/ y = 0 THEN 0
                 ELSE 2 * f[x \div 2][y \div 2] + (x % 2) * (y % 2)]

\* The recursion of BitAnd has a solution on all of u32 ...
LEMMA AndExists == \E f : f = [x \in U32 |-> AndStep(x, f)]
<1> DEFINE Solves(n, f) == \A x \in U32 : x <= n => f[x] = AndStep(x, f)
           T == {n \in Nat : \E f : Solves(n, f)}
<1>1. 0 \in T
  <2> DEFINE f == [x \in U32 |-> [y \in U32 |-> 0]]
  <2>1. \A x \in U32 : x <= 0 => x = 0
    BY DEF U32
  <2>2. 0 \in U32
    BY Constants DEF U32
  <2>3. Solves(0, f)
    BY <2>1, <2>2 DEF AndStep
  <2> QED
    BY <2>3
<1>2. ASSUME NEW n \in Nat, n \in T PROVE n + 1 \in T
  <2>1. PICK h : Solves(n, h)
    BY <1>2
  <2> DEFINE f == [x \in U32 |-> IF x <= n THEN h[x] ELSE AndStep(x, h)]
  <2>2. ASSUME NEW x \in U32, x <= n + 1 PROVE f[x] = AndStep(x, f)
    <3>1. x # 0 => x \div 2 \in U32 /\ x \div 2 <= n
      BY <2>2, Constants DEF U32
    <3>2. x # 0 => f[x \div 2] = h[x \div 2]
      BY <3>1
    <3>3. AndStep(x, f) = AndStep(x, h)
      BY <3>2 DEF AndStep
    <3>4. f[x] = AndStep(x, h)
      BY <2>1
    <3> QED
      BY <3>3, <3>4
  <2> HIDE DEF f
  <2>3. \E g : Solves(n + 1, g)
    BY <2>2
  <2> QED
    BY <2>3
<1> HIDE DEF T
<1>3. Nat \subseteq T
  BY <1>1, <1>2, SetInduction
<1>4. PICK h : Solves(IdxMod, h)
  BY <1>3, Constants DEF T
<1>5. \A x \in U32 : h[x] = AndStep(x, h)
  BY <1>4, Constants DEF U32
<1> DEFINE f == [x \in U32 |-> h[x]]
<1>6. ASSUME NEW x \in U32 PROVE h[x] = AndStep(x, f)
  <2>1. f[x \div 2] = h[x \div 2]
    BY Halves
  <2>2. AndStep(x, f) = AndStep(x, h)
    BY <2>1 DEF AndStep
  <2> QED
    BY <1>5, <2>2
<1>7. f = [x \in U32 |-> AndStep(x, f)]
  BY <1>6
<1> QED
  BY <1>7

\* One more row of numbers follows from the rows of the halves.
LEMMA AndStepTyped ==
  ASSUME NEW x \in U32, NEW f, x # 0 => f[x \div 2] \in [U32 -> Nat]
  PROVE  AndStep(x, f) \in [U32 -> Nat]
<1> SUFFICES ASSUME NEW y \in U32, x # 0, y # 0
             PROVE  2 * f[x \div 2][y \div 2] + (x % 2) * (y % 2) \in Nat
  BY DEF AndStep
<1>1. f[x \div 2][y \div 2] \in Nat
  BY Halves
<1>2. (x % 2) * (y % 2) \in Nat
  <2>1. x % 2 \in {0, 1} /\ y % 2 \in {0, 1}
    BY Halves
  <2> QED
    BY <2>1
<1> QED
  BY <1>1, <1>2

\* ... so that BitAnd is what its definition says, a table of numbers.
LEMMA AndRule ==
  /\ BitAnd \in [U32 -> [U32 -> Nat]]
  /\ BitAnd = [x \in U32 |-> AndStep(x, BitAnd)]
<1> DEFINE Rule(f) == f = [x \in U32 |-> AndStep(x, f)]
<1>1. \E f : Rule(f)
  BY AndExists
<1>2. BitAnd = CHOOSE f : Rule(f)
  BY DEF BitAnd, AndStep
<1>3. Rule(BitAnd)
  BY <1>1, <1>2, Zenon
<1> HIDE DEF Rule
<1>4. \A x \in U32 : BitAnd[x] = AndStep(x, BitAnd)
  BY <1>3 DEF Rule
<1> DEFINE S == {x \in U32 : BitAnd[x] \in [U32 -> Nat]}
<1>5. 0 \in S
  <2>1. 0 \in U32
    BY Constants DEF U32
  <2>2. AndStep(0, BitAnd) \in [U32 -> Nat]
    BY <2>1, AndStepTyped
  <2> QED
    BY <1>4, <2>1, <2>2
<1>6. ASSUME NEW x \in U32 \ {0}, x \div 2 \in S PROVE x \in S
  <2>1. AndStep(x, BitAnd) \in [U32 -> Nat]
    BY <1>6, AndStepTyped
  <2> QED
    BY <1>4, <2>1
<1> HIDE DEF S
<1>7. U32 \subseteq S
  BY <1>5, <1>6, HalvingInduction
<1>8. \A x \in U32 : BitAnd[x] \in [U32 -> Nat]
  BY <1>7 DEF S
<1>9. BitAnd = [x \in U32 |-> AndStep(x, BitAnd)]
  BY <1>3 DEF Rule
<1>10. BitAnd \in [U32 -> [U32 -> Nat]]
  BY <1>8, <1>9
<1> QED
  BY <1>9, <1>10

\* Bit by bit.
LEMMA AndOf ==
  ASSUME NEW x \in U32, NEW y \in U32
  PROVE  /\ BitAnd[x][y] \in Nat
         /\ x = 0 \/ y = 0 => BitAnd[x][y] = 0
         /\ x # 0 /\ y # 0 =>
              BitAnd[x][y] = 2 * BitAnd[x \div 2][y \div 2] + (x % 2) * (y % 2)
<1>1. BitAnd[x] = AndStep(x, BitAnd) /\ BitAnd[x] \in [U32 -> Nat]
  BY AndRule
<1> QED
  BY <1>1 DEF AndStep

\* A number and itself have all its bits.
LEMMA AndSelf == \A x \in U32 : BitAnd[x][x] = x
<1> DEFINE S == {x \in U32 : BitAnd[x][x] = x}
<1>1. 0 \in S
  BY Constants, AndOf DEF U32
<1>2. ASSUME NEW x \in U32 \ {0}, x \div 2 \in S PROVE x \in S
  <2>1. BitAnd[x][x] = 2 * (x \div 2) + (x % 2) * (x % 2)
    BY <1>2, AndOf
  <2>2. (x % 2) * (x % 2) = x % 2
    <3>1. x % 2 \in {0, 1}
      BY Halves
    <3> QED
      BY <3>1
  <2> QED
    BY <2>1, <2>2, Halves
<1> HIDE DEF S
<1>3. U32 \subseteq S
  BY <1>1, <1>2, HalvingInduction
<1> QED
  BY <1>3 DEF S

\* is_powerOf2 holds of an odd number only if it is 1, and of an even one only if
\* it holds of the half.
LEMMA PowerHalves ==
  ASSUME NEW v \in U32, v > 1, BitAnd[v][v - 1] = 0
  PROVE  /\ v % 2 = 0 /\ (v - 1) \div 2 = (v \div 2) - 1 /\ (v - 1) % 2 = 1
         /\ v \div 2 >= 1 /\ (v \div 2) - 1 \in U32
         /\ BitAnd[v \div 2][(v \div 2) - 1] = 0
<1> DEFINE h == v \div 2
<1>0. v \in Nat /\ v - 1 \in U32 /\ h \in U32 /\ h - 1 \in U32 /\ h >= 1
  BY Constants DEF U32
<1>1. /\ BitAnd[v][v - 1] = 2 * BitAnd[h][(v - 1) \div 2] + (v % 2) * ((v - 1) % 2)
      /\ BitAnd[h][(v - 1) \div 2] \in Nat
  BY <1>0, AndOf, Halves
<1>2. v % 2 = 0
  <2> SUFFICES ASSUME v % 2 = 1 PROVE FALSE
    BY Halves
  <2>1. (v - 1) \div 2 = h /\ (v - 1) % 2 = 0
    BY <1>0
  <2>2. BitAnd[h][h] = 0
    BY <1>1, <2>1
  <2> QED
    BY <1>0, <2>2, AndSelf
<1>3. (v - 1) \div 2 = h - 1 /\ (v - 1) % 2 = 1
  BY <1>0, <1>2
<1> HIDE DEF h
<1>4. BitAnd[h][h - 1] = 0
  BY <1>1, <1>2, <1>3
<1> QED
  BY <1>0, <1>2, <1>3, <1>4 DEF h

\* Doubling a divisor keeps the remainder's bits and adds one below them.
LEMMA ModDouble ==
  ASSUME NEW x \in Nat, NEW h \in Nat \ {0}
  PROVE  x % (2 * h) = 2 * ((x \div 2) % h) + (x % 2)
<1> DEFINE b == x % 2
           q == x \div 2
           r == q % h
           k == q \div h
<1>1. q \in Nat /\ b \in {0, 1} /\ x = 2 * q + b
  OBVIOUS
<1> HIDE DEF q, b
<1>2. r \in 0 .. h - 1 /\ k \in Int /\ q = h * k + r
  BY <1>1, DivMod
<1> HIDE DEF r, k
<1>3. 2 * h \in Nat \ {0} /\ 2 * r + b \in 0 .. (2 * h) - 1
  BY <1>1, <1>2
<1>4. x = (2 * h) * k + (2 * r + b)
  BY <1>1, <1>2
<1>5. x % (2 * h) = 2 * r + b
  BY <1>2, <1>3, <1>4, ModUnique
<1> QED
  BY <1>5 DEF r, q, b

\* The mask made of a number that passes is_powerOf2 is the remainder by it.
LEMMA MaskIsMod ==
  \A v \in U32 : v # 0 /\ BitAnd[v][v - 1] = 0
                   => \A x \in U32 : BitAnd[x][v - 1] = x % v
<1> DEFINE S == {v \in U32 : v # 0 /\ BitAnd[v][v - 1] = 0
                               => \A x \in U32 : BitAnd[x][v - 1] = x % v}
<1>1. 0 \in S
  BY Constants DEF U32
<1>2. ASSUME NEW v \in U32 \ {0}, v \div 2 \in S PROVE v \in S
  <2> SUFFICES ASSUME BitAnd[v][v - 1] = 0, NEW x \in U32
               PROVE  BitAnd[x][v - 1] = x % v
    OBVIOUS
  <2>0. v \in Nat /\ x \in Nat /\ v - 1 \in U32 /\ 0 \in U32
    BY Constants DEF U32
  <2>1. CASE v = 1
    <3>1. BitAnd[x][0] = 0
      BY <2>0, AndOf
    <3> QED
      BY <2>0, <2>1, <3>1
  <2>2. CASE v > 1 /\ x = 0
    <3>1. BitAnd[0][v - 1] = 0
      BY <2>0, AndOf
    <3> QED
      BY <2>0, <2>2, <3>1
  <2>3. CASE v > 1 /\ x # 0
    <3> DEFINE h == v \div 2
    <3>1. /\ v = 2 * h /\ (v - 1) \div 2 = h - 1 /\ (v - 1) % 2 = 1
          /\ h \in Nat \ {0} /\ BitAnd[h][h - 1] = 0
      BY <2>0, <2>3, PowerHalves
    <3>2. \A y \in U32 : BitAnd[y][h - 1] = y % h
      BY <1>2, <3>1
    <3> HIDE DEF h
    <3>3. BitAnd[x][v - 1] = 2 * BitAnd[x \div 2][h - 1] + (x % 2) * 1
      BY <2>0, <2>3, <3>1, AndOf
    <3>4. BitAnd[x \div 2][h - 1] = (x \div 2) % h
      BY <3>2, Halves
    <3>5. BitAnd[x][v - 1] = 2 * ((x \div 2) % h) + (x % 2)
      BY <2>0, <3>3, <3>4
    <3> QED
      BY <2>0, <3>1, <3>5, ModDouble
  <2> QED
    BY <2>0, <2>1, <2>2, <2>3
<1> HIDE DEF S
<1>3. U32 \subseteq S
  BY <1>1, <1>2, HalvingInduction
<1> QED
  BY <1>3 DEF S

\* Every index the code can have is masked to the block of its remainder, in a
\* pool of any size that the static_assert lets be compiled (serial.h:6-21).
THEOREM GetIsSlot == \A idx \in U32 : Get(idx) = Slot(idx)
<1>1. MinusOne(Dim) = Dim - 1
  BY Constants, PoolAssumption DEF PoolAssumption, MinusOne, U32
<1>2. Dim \in U32 /\ Dim # 0 /\ BitAnd[Dim][Dim - 1] = 0
  BY <1>1, PoolAssumption DEF PoolAssumption, IsPowerOf2, &
<1>3. \A x \in U32 : BitAnd[x][Dim - 1] = x % Dim
  BY <1>2, MaskIsMod
<1> QED
  BY <1>1, <1>3 DEF Get, Slot, &

\* In every state of the ring, on both sides of the wrap of the indices, masking
\* names the block that the ring's other theorems speak of.
THEOREM MaskAlwaysSlot == Spec => []MaskIsSlot
<1>1. ASSUME TypeOK PROVE MaskIsSlot
  <2>1. block_idx \in U32 /\ print_idx \in U32
    BY <1>1 DEF TypeOK, U32
  <2>2. Inc(block_idx) \in U32
    BY <2>1, Constants DEF Inc, U32
  <2> QED
    BY <2>1, <2>2, GetIsSlot DEF MaskIsSlot
<1> QED
  BY <1>1, RingTypes, PTL
=============================================================================
