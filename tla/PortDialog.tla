----------------------------- MODULE PortDialog -----------------------------
(***************************************************************************)
(* Choosing and opening the port: dialog_SerialConfig                      *)
(* (dlgSerialConfig.cpp), then main_fltk and the constructor of serial_t.  *)
(* The dialog lists what PortEnumeration found once; from then on a port   *)
(* may be unplugged, or taken by another program, until it is opened.      *)
(* Nothing catches what is thrown.                                         *)
(*                                                                         *)
(* FLTK and enumser are external.  A list has the value 0 when no line is  *)
(* selected, which a click below the lines brings about, and data(0) is a  *)
(* null pointer; that becomes the port number 0 and the baud rate 0.       *)
(***************************************************************************)
EXTENDS PortEnumeration

CONSTANT
  MaxChanges  \* bound: times a port is plugged, unplugged, taken or released

ASSUME PortAssumption == MaxChanges \in Nat

VARIABLES
  stage,    \* where the program is
  plugged,  \* the ports there are
  taken,    \* the ports other programs have opened
  changes,  \* history: times the two have changed
  listed,   \* ports, the lines of the first list
  portLine, baudLine,  \* the selections
  below,    \* history: the user has clicked below the lines of a list
  troubled, \* history: ports that were not free at some time since the listing
  refused   \* history: the driver refused a free port, or a rate that was selected

outside    == <<plugged, taken, changes>>
dialogVars == <<listed, portLine, baudLine, below, troubled, refused>>
portVars   == <<enumVars, stage, outside, dialogVars>>

\* The lines of the second list.
Rates == <<38400, 115200>>

Free == plugged \ taken

PortInit == /\ EnumInit /\ stage = "enum" /\ plugged \in SUBSET Ports /\ taken \in SUBSET plugged
            /\ changes = 0 /\ listed = << >> /\ portLine = 0 /\ baudLine = 0
            /\ below = FALSE /\ troubled = {} /\ refused = FALSE

\* The user, other programs.
Outside ==
  /\ stage \in {"enum", "dialog", "open"} /\ changes < MaxChanges
  /\ changes' = changes + 1
  /\ \/ \E p \in Ports \ plugged : plugged' = plugged \cup {p} /\ UNCHANGED taken
     \/ \E p \in plugged : plugged' = plugged \ {p} /\ taken' = taken \ {p}
     \/ \E p \in Free : taken' = taken \cup {p} /\ UNCHANGED plugged
     \/ \E p \in taken : taken' = taken \ {p} /\ UNCHANGED plugged
  /\ troubled' = troubled \cup (Range(listed) \ (plugged' \ taken'))
  /\ UNCHANGED <<enumVars, stage, listed, portLine, baudLine, below, refused>>

\* Inside UsingSetupAPI2.
EnumerationStep == stage = "enum" /\ EnumStep(plugged) /\ UNCHANGED <<stage, outside, dialogVars>>

\* UsingSetupAPI2 fails, or does not return.
EnumerationFails ==
  /\ stage = "enum" /\ enum \in {"failed", "fault"} /\ stage' = "dead"
  /\ UNCHANGED <<enumVars, outside, dialogVars>>

\* Mutant of FirstLine: nothing is selected to begin with.
NoLine(s) == 0

\* select(1, 1), which an empty list ignores.
FirstLine(s) == IF s = << >> THEN 0 ELSE 1

\* Ports in use are listed, too.
Enumerate ==
  /\ stage = "enum" /\ enum = "done" /\ stage' = "dialog"
  /\ listed' = ports
  /\ portLine' = FirstLine(listed') /\ baudLine' = FirstLine(Rates)
  /\ troubled' = Range(ports) \ Free
  /\ UNCHANGED <<enumVars, outside, below, refused>>

Click ==
  /\ stage = "dialog"
  /\ \/ portLine' \in 0 .. Len(listed) /\ UNCHANGED baudLine
     \/ baudLine' \in 0 .. Len(Rates) /\ UNCHANGED portLine
  /\ below' = (below \/ (portLine' = 0 /\ portLine # 0) \/ (baudLine' = 0 /\ baudLine # 0))
  /\ UNCHANGED <<enumVars, stage, outside, listed, troubled, refused>>

\* "Select", or the window is closed: the dialog does not tell the two apart.
Close ==
  /\ stage = "dialog" /\ stage' = "open"
  /\ UNCHANGED <<enumVars, outside, dialogVars>>

Data(s, line) == IF line \in DOMAIN s THEN s[line] ELSE 0

Port == Data(listed, portLine)
Rate == Data(Rates, baudLine)

\* CreateFile, GetCommState, SetCommState and SetCommTimeouts; a driver may take
\* the rate 0, or not.
Open ==
  /\ stage = "open"
  /\ Port \in Free
  /\ stage' = "window"
  /\ UNCHANGED <<enumVars, outside, dialogVars>>

\* CreateFile fails, for a port that is not there or in use or for any other
\* reason, or one of the calls after it does: an exception, or DebugBreak.
OpenThrows ==
  /\ stage = "open"
  /\ stage' = "dead"
  /\ refused' = (Port \in Free /\ Rate # 0)
  /\ UNCHANGED <<enumVars, outside, listed, portLine, baudLine, below, troubled>>

PortNext == \/ Outside \/ EnumerationStep \/ EnumerationFails
            \/ Enumerate \/ Click \/ Close \/ Open \/ OpenThrows

PortSpec == PortInit /\ [][PortNext]_portVars

-----------------------------------------------------------------------------
(* Properties.                                                             *)

\* Once the dialog was shown, the program ends without a window only for a
\* cause outside: there was no port, nothing is selected because the user
\* clicked below the lines, the port selected was not free all the time since
\* the listing, or the driver refused a port that was free, or a rate of the
\* list (serial.cpp:124, 130, 136-139, 155-158).  The dialog never brings it
\* about by itself: what it passes on untouched is a port of the list and a rate.
DeathExplained ==
  stage = "dead" /\ listed # << >> =>
    \/ (portLine = 0 \/ baudLine = 0) /\ below
    \/ portLine > 0 /\ listed[portLine] \in troubled
    \/ refused

DialogTypes ==
  /\ stage \in {"enum", "dialog", "open", "window", "dead"}
  /\ plugged \subseteq Ports /\ taken \subseteq plugged
  /\ listed \in Seq(Ports) /\ (stage = "enum" => listed = << >>)
  /\ portLine \in 0 .. Len(listed) /\ baudLine \in 0 .. Len(Rates)
  /\ below \in BOOLEAN /\ refused \in BOOLEAN

\* A list without a selection was clicked below its lines, unless it is empty.
SelectionKept ==
  stage \in {"dialog", "open"} =>
    /\ portLine = 0 => listed = << >> \/ below
    /\ baudLine = 0 => below

\* A port of the list that is not free now is among the troubled.
TroubleSeen == stage \in {"dialog", "open"} => Range(listed) \ Free \subseteq troubled

\* Inductive for PortNext.
PortInv == EnumInv /\ DialogTypes /\ SelectionKept /\ TroubleSeen /\ DeathExplained
=============================================================================
