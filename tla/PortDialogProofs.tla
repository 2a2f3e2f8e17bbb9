-------------------------- MODULE PortDialogProofs --------------------------
(***************************************************************************)
(* For any ports, sizes and changes outside: the enumeration of the ports  *)
(* gives up all it acquired and leaks a block on one path only, and once   *)
(* the dialog was shown the program dies only for a cause outside.         *)
(***************************************************************************)
EXTENDS PortDialog, FiniteSetTheorems, TLAPS

-----------------------------------------------------------------------------
(* The enumeration.                                                        *)

\* Any order of a set of ports is a sequence of ports.
LEMMA OrdersAreLists ==
  ASSUME NEW S, S \subseteq Ports
  PROVE  Orders(S) \subseteq Seq(Ports)
<1>1. IsFiniteSet(S)
  BY EnumAssumption, FS_Subset DEF EnumAssumption
<1>2. Cardinality(S) \in Nat
  BY <1>1, FS_CardinalityType
<1> SUFFICES ASSUME NEW s \in [1 .. Cardinality(S) -> S] PROVE s \in Seq(Ports)
  BY DEF Orders
<1>3. s \in Seq(S)
  BY <1>2
<1> QED
  BY <1>3

LEMMA InitEnum == EnumInit => EnumInv
<1> SUFFICES ASSUME EnumInit PROVE EnumTypes /\ HeldWhere /\ LeakExplained
  BY DEF EnumInv
<1>1. EnumTypes
  BY EnumAssumption DEF EnumAssumption, EnumInit, EnumTypes
<1>2. HeldWhere
  BY DEF EnumInit, HeldWhere, held
<1>3. LeakExplained
  BY DEF EnumInit, LeakExplained
<1> QED
  BY <1>1, <1>2, <1>3

\* Every step acquires or gives up what the place it leads to asks for.
LEMMA HeldKept ==
  ASSUME NEW present, HeldWhere, EnumStep(present)
  PROVE  HeldWhere'
<1> USE DEF HeldWhere, held
<1>1. CASE Load
  BY <1>1 DEF Load, ReturnFalse
<1>2. CASE FindClass
  BY <1>2 DEF FindClass, ReturnFalse
<1>3. CASE GetDevices(present)
  BY <1>3 DEF GetDevices, ReturnFalse
<1>4. CASE NextDevice
  BY <1>4 DEF NextDevice
<1>5. CASE QuerySize
  BY <1>5 DEF QuerySize, CloseKey
<1>6. CASE QueryValue
  BY <1>6 DEF QueryValue, QueryError, OtherName, TooFull, PortName, CloseKey
<1>7. CASE ReturnTrue
  BY <1>7 DEF ReturnTrue
<1>8. CASE Fault
  BY <1>8 DEF Fault
<1> QED
  BY <1>1, <1>2, <1>3, <1>4, <1>5, <1>6, <1>7, <1>8 DEF EnumStep

\* The lists are lists of ports, and each block is freed or one of those grown.
LEMMA ListsKept ==
  ASSUME NEW present, present \subseteq Ports,
         EnumTypes, LeakExplained, EnumStep(present)
  PROVE  EnumTypes' /\ LeakExplained'
<1> USE DEF EnumTypes, LeakExplained
<1>1. CASE Load
  BY <1>1 DEF Load, ReturnFalse
<1>2. CASE FindClass
  BY <1>2 DEF FindClass, ReturnFalse
<1>3. CASE GetDevices(present)
  <2>1. CASE ReturnFalse /\ enum = "set"
    BY <2>1 DEF ReturnFalse
  <2>2. CASE ~ ReturnFalse
    <3>1. found' \in Orders(present) /\ enum = "set" /\ enum' = "next"
          /\ UNCHANGED <<dev, ports, heap, size, grew>>
      BY <1>3, <2>2 DEF GetDevices
    <3>2. found' \in Seq(Ports)
      BY <3>1, OrdersAreLists
    <3>3. dev' = 0
      BY <3>1
    <3> QED
      BY <3>1, <3>2
  <2> QED
    BY <1>3, <2>1, <2>2 DEF GetDevices
<1>4. CASE NextDevice
  BY <1>4 DEF NextDevice
<1>5. CASE QuerySize
  BY <1>5 DEF QuerySize, CloseKey
<1>6. CASE QueryValue
  <2>1. enum = "value" /\ heap = grew + 1 /\ dev \in DOMAIN found
    BY <1>6 DEF QueryValue
  <2>2. CASE QueryError \/ OtherName \/ TooFull
    BY <1>6, <2>1, <2>2 DEF QueryValue, QueryError, OtherName, TooFull
  <2>3. CASE PortName
    <3>1. ports' \in Seq(Ports)
      BY <2>1, <2>3 DEF PortName
    <3> QED
      BY <1>6, <2>1, <2>3, <3>1 DEF QueryValue, PortName
  <2> QED
    BY <1>6, <2>2, <2>3 DEF QueryValue
<1>7. CASE ReturnTrue
  BY <1>7 DEF ReturnTrue
<1>8. CASE Fault
  BY <1>8 DEF Fault
<1> QED
  BY <1>1, <1>2, <1>3, <1>4, <1>5, <1>6, <1>7, <1>8 DEF EnumStep

LEMMA EnumKeeps ==
  ASSUME NEW present, present \subseteq Ports, EnumInv, EnumStep(present)
  PROVE  EnumInv'
BY HeldKept, ListsKept DEF EnumInv

-----------------------------------------------------------------------------
(* The dialog.                                                             *)

\* The invariant of the enumeration depends on its variables only.
LEMMA EnumStutters == EnumInv /\ UNCHANGED enumVars => EnumInv'
BY DEF enumVars, held, EnumInv, EnumTypes, HeldWhere, LeakExplained

LEMMA InitPort == PortInit => PortInv
<1> SUFFICES ASSUME PortInit PROVE PortInv
  OBVIOUS
<1>1. EnumInv
  BY InitEnum DEF PortInit
<1>2. plugged \subseteq Ports /\ taken \subseteq plugged /\ listed = << >>
      /\ stage = "enum" /\ portLine = 0 /\ baudLine = 0 /\ below = FALSE /\ refused = FALSE
  BY DEF PortInit
<1>3. Len(Rates) = 2
  BY DEF Rates
<1>4. DialogTypes
  <2>1. listed \in Seq(Ports) /\ portLine \in 0 .. Len(listed) /\ baudLine \in 0 .. Len(Rates)
    BY <1>2, <1>3
  <2> QED
    BY <1>2, <2>1, Zenon DEF DialogTypes
<1> QED
  BY <1>1, <1>2, <1>4 DEF PortInv, SelectionKept, TroubleSeen, DeathExplained

LEMMA PortKeeps == PortInv /\ [PortNext]_portVars => PortInv'
<1> SUFFICES ASSUME PortInv, [PortNext]_portVars PROVE PortInv'
  OBVIOUS
<1>0. Len(Rates) = 2 /\ DOMAIN Rates = 1 .. 2 /\ Rates[1] # 0 /\ Rates[2] # 0
  BY DEF Rates
<1> USE DEF PortInv, DialogTypes, SelectionKept, TroubleSeen, DeathExplained
<1>1. CASE Outside
  <2>1. EnumInv'
    BY <1>1, EnumStutters DEF Outside
  <2>2. stage \in {"enum", "dialog", "open"}
        /\ UNCHANGED <<stage, listed, portLine, baudLine, below, refused>>
    BY <1>1 DEF Outside
  <2>3. plugged' \subseteq Ports /\ taken' \subseteq plugged'
    BY <1>1 DEF Outside, Free
  <2>4. Range(listed') \ Free' \subseteq troubled'
    BY <1>1, <2>2 DEF Outside, Free
  <2> QED
    BY <2>1, <2>2, <2>3, <2>4
<1>2. CASE EnumerationStep
  <2>1. EnumInv'
    BY <1>2, EnumKeeps DEF EnumerationStep
  <2> QED
    BY <1>2, <2>1 DEF EnumerationStep, outside, dialogVars, Free
<1>3. CASE EnumerationFails
  <2>1. EnumInv'
    BY <1>3, EnumStutters DEF EnumerationFails
  <2> QED
    BY <1>3, <2>1 DEF EnumerationFails, outside, dialogVars
<1>4. CASE Enumerate
  <2>1. EnumInv' /\ ports \in Seq(Ports)
    BY <1>4, EnumStutters DEF Enumerate, EnumInv, EnumTypes
  <2>2. listed' \in Seq(Ports) /\ stage' = "dialog" /\ UNCHANGED <<outside, below, refused>>
    BY <1>4, <2>1 DEF Enumerate
  <2>3. portLine' \in 0 .. Len(listed') /\ (portLine' = 0 => listed' = << >>)
    BY <1>4, <2>2 DEF Enumerate, FirstLine
  <2>4. baudLine' = 1
    BY <1>4 DEF Enumerate, FirstLine, Rates
  <2>5. Range(listed') \ Free' \subseteq troubled'
    BY <1>4 DEF Enumerate, Free, outside
  <2> QED
    BY <1>0, <2>1, <2>2, <2>3, <2>4, <2>5 DEF outside
<1>5. CASE Click
  <2>1. EnumInv'
    BY <1>5, EnumStutters DEF Click
  <2>2. stage = "dialog" /\ UNCHANGED <<stage, outside, listed, troubled, refused>>
    BY <1>5 DEF Click
  <2>3. portLine' \in 0 .. Len(listed) /\ baudLine' \in 0 .. Len(Rates)
    BY <1>5 DEF Click
  <2>4. below' = (below \/ (portLine' = 0 /\ portLine # 0) \/ (baudLine' = 0 /\ baudLine # 0))
    BY <1>5 DEF Click
  <2>5. below' \in BOOLEAN
    BY <2>4
  <2>6. (portLine' = 0 => listed' = << >> \/ below') /\ (baudLine' = 0 => below')
    BY <2>2, <2>4
  <2> QED
    BY <2>1, <2>2, <2>3, <2>5, <2>6 DEF outside, Free
<1>6. CASE Close
  <2>1. EnumInv'
    BY <1>6, EnumStutters DEF Close
  <2> QED
    BY <1>6, <2>1 DEF Close, outside, dialogVars, Free
<1>7. CASE Open
  <2>1. EnumInv'
    BY <1>7, EnumStutters DEF Open
  <2> QED
    BY <1>7, <2>1 DEF Open, outside, dialogVars
<1>8. CASE OpenThrows
  <2>1. EnumInv'
    BY <1>8, EnumStutters DEF OpenThrows
  <2>2. stage = "open" /\ stage' = "dead"
        /\ UNCHANGED <<outside, listed, portLine, baudLine, below, troubled>>
        /\ refused' = (Port \in Free /\ Rate # 0) /\ refused' \in BOOLEAN
    BY <1>8 DEF OpenThrows
  <2>3. CASE portLine = 0
    BY <2>1, <2>2, <2>3 DEF outside
  <2>4. CASE portLine > 0 /\ Port \notin Free
    <3>1. portLine \in DOMAIN listed
      BY <2>4
    <3>2. listed[portLine] \in Range(listed) \ Free
      BY <2>4, <3>1 DEF Port, Data, Range
    <3> QED
      BY <2>1, <2>2, <2>4, <3>2 DEF outside
  <2>5. CASE portLine > 0 /\ Rate = 0
    <3>1. baudLine = 0
      BY <1>0, <2>5 DEF Rate, Data
    <3> QED
      BY <2>1, <2>2, <3>1 DEF outside
  <2>6. CASE Port \in Free /\ Rate # 0
    <3>1. refused'
      BY <2>2, <2>6
    <3> QED
      BY <2>1, <2>2, <3>1 DEF outside
  <2> QED
    BY <2>3, <2>4, <2>5, <2>6
<1>9. CASE UNCHANGED portVars
  <2>1. EnumInv'
    BY <1>9, EnumStutters DEF portVars
  <2> QED
    BY <1>9, <2>1 DEF portVars, outside, dialogVars, Free
<1> QED
  BY <1>1, <1>2, <1>3, <1>4, <1>5, <1>6, <1>7, <1>8, <1>9 DEF PortNext

-----------------------------------------------------------------------------
\* The inductive invariant: what is held at every place of the enumeration,
\* and how the selection and the troubled ports came about.
THEOREM PortInvariant == PortSpec => []PortInv
BY InitPort, PortKeeps, PTL DEF PortSpec

\* Whichever call of the enumeration fails, nothing of the system's is held at
\* its end.
THEOREM EnumerationReleases == PortSpec => []Released
<1>1. PortInv => Released
  BY DEF PortInv, EnumInv, HeldWhere, held, Released
<1> QED
  BY <1>1, PortInvariant, PTL

\* A block is leaked only where a value has grown between its two reads.
THEOREM OnlyGrownLeak == PortSpec => []LeakExplained
BY PortInvariant, PTL DEF PortInv, EnumInv

\* Once ports were listed, the program ends without a window only for a cause
\* outside.
THEOREM DeathsHaveCauses == PortSpec => []DeathExplained
BY PortInvariant, PTL DEF PortInv
=============================================================================
