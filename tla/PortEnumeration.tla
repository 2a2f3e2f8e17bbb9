--------------------------- MODULE PortEnumeration ---------------------------
(***************************************************************************)
(* CEnumerateSerial::UsingSetupAPI2 with QueryRegistryPortName and         *)
(* RegQueryValueString (enumser/enumser.cpp), by which the dialog learns   *)
(* the ports: a walk over the devices that are present, with one registry  *)
(* value read in two calls, its size first and its data then; between them *)
(* anybody may change the value.                                           *)
(*                                                                         *)
(* The Windows calls are external and may fail at every place.  A device   *)
(* stands for the number of its port; a value is the size of its data and  *)
(* whether it reads "COM" and a number.  The devices' descriptions, which  *)
(* only fill a second list that the dialog does not use, are left out.     *)
(***************************************************************************)
EXTENDS Integers, Sequences, Functions, FiniteSets

CONSTANTS
  Ports,    \* the numbers of the ports there may be
  MaxSize,  \* bound: size of a registry value
  MinName   \* size of the shortest name of a port: 4

ASSUME EnumAssumption ==
  /\ Ports \subseteq Nat \ {0} /\ IsFiniteSet(Ports)
  /\ MaxSize \in Nat /\ MinName \in Nat \ {0}

VARIABLES
  enum,     \* where the functions are
  found,    \* the set of devices, in its order
  dev,      \* nIndex: devices looked at
  ports,    \* the numbers pushed
  module, guids, devset, key,  \* resources held
  heap,     \* values' blocks allocated and not freed
  size,     \* what the first call told
  grew      \* history: values that had grown at the second call, to the size
            \* of the block

held     == <<module, guids, devset, key>>
enumVars == <<enum, found, dev, ports, held, heap, size, grew>>

EnumInit == /\ enum = "load" /\ found = << >> /\ dev = 0 /\ ports = << >>
            /\ module = FALSE /\ guids = FALSE /\ devset = FALSE /\ key = FALSE
            /\ heap = 0 /\ size = 0 /\ grew = 0

-----------------------------------------------------------------------------
\* The objects that hold setupapi.dll and the GUIDs release them at a return.
ReturnFalse == /\ enum' = "failed"
               /\ module' = FALSE /\ guids' = FALSE
               /\ UNCHANGED <<found, dev, ports, devset, key, heap, size, grew>>

\* LoadLibraryFromSystem32 and GetProcAddress.
Load ==
  /\ enum = "load"
  /\ \/ /\ enum' = "guids" /\ module' = TRUE
        /\ UNCHANGED <<found, dev, ports, guids, devset, key, heap, size, grew>>
     \/ ReturnFalse

\* The class "Ports": how many GUIDs, memory for them, the GUIDs.
FindClass ==
  /\ enum = "guids"
  /\ \/ /\ enum' = "set" /\ guids' = TRUE
        /\ UNCHANGED <<found, dev, ports, module, devset, key, heap, size, grew>>
     \/ ReturnFalse

\* Every order of a set.
Orders(S) == {s \in [1 .. Cardinality(S) -> S] : Range(s) = S}

\* SetupDiGetClassDevs: the ports present at this moment, in some order.
GetDevices(present) ==
  /\ enum = "set"
  /\ \/ /\ enum' = "next" /\ devset' = TRUE
        /\ found' \in Orders(present)
        /\ UNCHANGED <<dev, ports, module, guids, key, heap, size, grew>>
     \/ ReturnFalse

\* The next device, whose key may not open.
NextDevice ==
  /\ enum = "next" /\ dev < Len(found)
  /\ dev' = dev + 1
  /\ \/ key' = TRUE /\ enum' = "size"
     \/ UNCHANGED <<key, enum>>
  /\ UNCHANGED <<found, ports, module, guids, devset, heap, size, grew>>

\* RegCloseKey, whether or not there is a port.
CloseKey == key' = FALSE

\* The first RegQueryValueEx: no such value, no string, no memory; or its size.
QuerySize ==
  /\ enum = "size"
  /\ \/ /\ size' \in 0 .. MaxSize
        /\ heap' = heap + 1 /\ enum' = "value"
        /\ UNCHANGED key
     \/ CloseKey /\ enum' = "next" /\ UNCHANGED <<size, heap>>
  /\ UNCHANGED <<found, dev, ports, module, guids, devset, grew>>

\* Room for the data and a terminator.
Room == size + 1

\* Mutant of QueryError: the block is not freed.
ErrorLeaks == heap' = heap /\ enum' = "next" /\ UNCHANGED <<ports, grew>>

\* The second call fails, for want of room or otherwise.
QueryError == heap' = heap - 1 /\ enum' = "next" /\ UNCHANGED <<ports, grew>>

\* The data fills the block, and might not be terminated: failure, but the
\* block is the caller's then, who does not know.
TooFull == heap' = heap /\ grew' = grew + 1 /\ enum' = "next" /\ UNCHANGED ports

\* The value is no name of a port.
OtherName == heap' = heap - 1 /\ enum' = "next" /\ UNCHANGED <<ports, grew>>

PortName == /\ heap' = heap - 1 /\ enum' = "next"
            /\ ports' = Append(ports, found[dev])
            /\ UNCHANGED grew

QueryValue ==
  /\ enum = "value"
  /\ \/ QueryError
     \/ \E returned \in 0 .. Room :
          \/ returned = Room /\ TooFull
          \/ returned < Room /\ OtherName
          \/ returned < Room /\ returned >= MinName /\ PortName
  /\ CloseKey
  /\ UNCHANGED <<found, dev, module, guids, devset, size>>

\* A second call that returns no bytes: the byte looked at for a terminator is at
\* index -1, of an unsigned type.  The 32-bit build wraps around to the byte before
\* the block and goes on as in OtherName, whatever is there; the 64-bit build
\* reads 4 GB behind the block and may end there.
Fault ==
  /\ enum = "value" /\ enum' = "fault"
  /\ UNCHANGED <<found, dev, ports, held, heap, size, grew>>

\* Mutant of ReturnTrue: the set of devices is not destroyed.
KeepSet ==
  /\ enum = "next" /\ dev = Len(found)
  /\ enum' = "done" /\ module' = FALSE /\ guids' = FALSE
  /\ UNCHANGED <<found, dev, ports, devset, key, heap, size, grew>>

ReturnTrue ==
  /\ enum = "next" /\ dev = Len(found)
  /\ enum' = "done" /\ devset' = FALSE /\ module' = FALSE /\ guids' = FALSE
  /\ UNCHANGED <<found, dev, ports, key, heap, size, grew>>

\* A step, with the devices that are present at it.
EnumStep(present) == \/ Load \/ FindClass \/ GetDevices(present) \/ NextDevice
                     \/ QuerySize \/ QueryValue \/ Fault \/ ReturnTrue

-----------------------------------------------------------------------------
(* Properties.                                                             *)

EnumTypes ==
  /\ found \in Seq(Ports) /\ ports \in Seq(Ports)
  /\ dev \in 0 .. Len(found) /\ (enum \in {"size", "value", "fault"} => dev > 0)
  /\ enum \in {"load", "guids", "set"} => dev = 0
  /\ heap \in Nat /\ grew \in Nat /\ size \in 0 .. MaxSize

\* What is held at each place: a resource is acquired by the step that leaves
\* one place for the next, and every return gives up all of them.
HeldWhere ==
  \/ enum \in {"load", "done", "failed"} /\ held = <<FALSE, FALSE, FALSE, FALSE>>
  \/ enum = "guids" /\ held = <<TRUE, FALSE, FALSE, FALSE>>
  \/ enum = "set" /\ held = <<TRUE, TRUE, FALSE, FALSE>>
  \/ enum = "next" /\ held = <<TRUE, TRUE, TRUE, FALSE>>
  \/ enum \in {"size", "value", "fault"} /\ held = <<TRUE, TRUE, TRUE, TRUE>>

\* Whichever call fails, nothing of the system's is held at the end: not the
\* library, the device set, a key (enumser.cpp:820, 853).
Released == enum \in {"done", "failed"} => ~ (module \/ guids \/ devset \/ key)

\* The block for a value is freed on every path but one: the value has grown
\* between the two calls by as much as the room left for a terminator
\* (enumser.cpp:352-356, 372-388).
LeakExplained == heap = grew + IF enum \in {"value", "fault"} THEN 1 ELSE 0

\* Inductive for EnumStep.
EnumInv == EnumTypes /\ HeldWhere /\ LeakExplained
=============================================================================
