------------------------------ MODULE Lifecycle ------------------------------
(***************************************************************************)
(* The program from the construction of ConsoleWindow to the end of its    *)
(* destruction (main_fltk.cpp), with the threads it starts: the Lua thread *)
(* (luaThread) and the serial thread (serial_main), and what the three     *)
(* transmit (module Transmit) meanwhile.                                   *)
(*                                                                         *)
(* Members are constructed in the order of their declaration, whatever the *)
(* order of the initialisers: lua, serial, the stop event, serial_thread;  *)
(* and destroyed the other way round.  So the Lua thread lives before the  *)
(* port is opened and after it is closed.                                  *)
(*                                                                         *)
(* The Lua thread is reduced to what a start and an end need: script and   *)
(* functions transmit and return, or do not; LuaThread has the rest.       *)
(***************************************************************************)
EXTENDS Transmit

CONSTANTS
  MayHang,     \* a script or function may not return
  MaxRecords,  \* console events that one ReadConsoleInput takes: 512
  MaxEvents    \* bound: console events in a run

ASSUME LifeAssumption ==
  MayHang \in BOOLEAN /\ MaxRecords \in Nat \ {0} /\ MaxEvents \in Nat

VARIABLES
  main,       \* the main thread: the member being constructed or destroyed
  port,       \* hCom: not initialised, open, closed
  lua, stuck, \* the Lua thread; it runs something that does not return
  delegates,  \* luaThread's constructor has reached delMenuAdd and delTransmit
  execEvent, quitEvent,
  serial,     \* the serial thread
  stopEvent,  \* serial_stop, a manual-reset event
  console,    \* console input: the queue of events, keys pressed and others
  events      \* history: their number

luaVars    == <<lua, stuck, delegates, execEvent, quitEvent>>
serialVars == <<serial, stopEvent, console, events>>
lifeVars   == <<txVars, main, port, luaVars, serialVars>>

LifeInit ==
  /\ TxInit
  /\ main = "lua" /\ port = "raw"
  /\ lua = "script" /\ stuck \in {FALSE, MayHang} /\ delegates = FALSE
  /\ execEvent = FALSE /\ quitEvent = FALSE
  /\ serial = "none" /\ stopEvent = FALSE
  /\ console = << >> /\ events = 0

Main(at)  == main = at
Alive     == main # "dead"
Goto(at)  == main' = at

-----------------------------------------------------------------------------
(* The main thread.                                                        *)

LuaConstructed ==
  /\ Main("lua") /\ Goto("port")
  /\ delegates' = TRUE
  /\ UNCHANGED <<txVars, port, lua, stuck, execEvent, quitEvent, serialVars>>

OpenPort ==
  /\ Main("port") /\ Goto("thread")
  /\ port' = "open"
  /\ UNCHANGED <<txVars, luaVars, serialVars>>

\* serial_t's constructor throws, and nothing catches.
NoPort ==
  /\ Main("port") /\ Goto("dead")
  /\ UNCHANGED <<txVars, port, luaVars, serialVars>>

StartSerial ==
  /\ Main("thread") /\ Goto("loop")
  /\ serial' = "start"
  /\ UNCHANGED <<txVars, port, luaVars, stopEvent, console, events>>

Command ==
  /\ Main("loop") /\ MoreMessages /\ Begin("window")
  /\ UNCHANGED <<main, port, luaVars, serialVars>>

CommandChar ==
  /\ Alive /\ TransmitCommChar("window")
  /\ UNCHANGED <<main, port, luaVars, serialVars>>

RunTest ==
  /\ Main("loop") /\ ~ Busy("window") /\ ~ execEvent
  /\ execEvent' = TRUE
  /\ UNCHANGED <<txVars, main, port, lua, stuck, delegates, quitEvent, serialVars>>

\* Fl::run returns and ~ConsoleWindow begins.
CloseWindow ==
  /\ Main("loop") /\ ~ Busy("window") /\ Goto("stop")
  /\ UNCHANGED <<txVars, port, luaVars, serialVars>>

\* Mutant of SetStop: PulseEvent.
PulseStop ==
  /\ Main("stop") /\ Goto("join")
  /\ stopEvent' = (serial = "wait" /\ console = << >>)
  /\ UNCHANGED <<txVars, port, luaVars, serial, console, events>>

SetStop ==
  /\ Main("stop") /\ Goto("join")
  /\ stopEvent' = TRUE
  /\ UNCHANGED <<txVars, port, luaVars, serial, console, events>>

\* Mutant of JoinSerial: the thread is detached.
DetachSerial ==
  /\ Main("join") /\ Goto("serial")
  /\ UNCHANGED <<txVars, port, luaVars, serialVars>>

JoinSerial ==
  /\ Main("join") /\ serial = "ended" /\ Goto("serial")
  /\ UNCHANGED <<txVars, port, luaVars, serialVars>>

\* ~serial_t.
ClosePort ==
  /\ Main("serial") /\ Goto("quit")
  /\ port' = "closed"
  /\ UNCHANGED <<txVars, luaVars, serialVars>>

\* ~luaThread: nothing is aborted.
SetQuit ==
  /\ Main("quit") /\ Goto("joinlua")
  /\ quitEvent' = TRUE
  /\ UNCHANGED <<txVars, port, lua, stuck, delegates, execEvent, serialVars>>

JoinLua ==
  /\ Main("joinlua") /\ lua = "ended" /\ Goto("end")
  /\ UNCHANGED <<txVars, port, luaVars, serialVars>>

-----------------------------------------------------------------------------
(* The serial thread: serial_main.                                         *)

\* serial.start, which posts the first read.
StartRead ==
  /\ Alive /\ serial = "start" /\ serial' = "wait"
  /\ UNCHANGED <<txVars, main, port, luaVars, stopEvent, console, events>>

ConsoleEvents == {"key", "other"}

\* The user.
ConsoleInput ==
  /\ Alive /\ events < MaxEvents
  /\ events' = events + 1
  /\ \E e \in ConsoleEvents : console' = Append(console, e)
  /\ UNCHANGED <<txVars, main, port, luaVars, serial, stopEvent>>

IsKey(k) == console[k] = "key"

\* STDIN comes first in the array: _kbhit finds a key anywhere in the queue;
\* _getch reads up to it; then TransmitCommChar.
TakeKey ==
  /\ Alive /\ serial = "wait" /\ serial' = "key"
  /\ \E k \in DOMAIN console :
       /\ IsKey(k) /\ \A j \in 1 .. k - 1 : ~ IsKey(j)
       /\ console' = SubSeq(console, k + 1, Len(console))
  /\ Begin("serial")
  /\ UNCHANGED <<main, port, luaVars, stopEvent, events>>

KeyChar ==
  /\ Alive /\ serial = "key" /\ serial' = "wait"
  /\ TransmitCommChar("serial")
  /\ UNCHANGED <<main, port, luaVars, stopEvent, console, events>>

\* No key yet.
NoKey ==
  /\ Alive /\ serial = "wait" /\ console # << >> /\ \A k \in DOMAIN console : ~ IsKey(k)
  /\ serial' = "discard"
  /\ UNCHANGED <<txVars, main, port, luaVars, stopEvent, console, events>>

\* ReadConsoleInput takes as much as its buffer has room for, a key pressed since
\* _kbhit included.
Discard ==
  /\ Alive /\ serial = "discard" /\ serial' = "wait"
  /\ LET read == IF Len(console) < MaxRecords THEN Len(console) ELSE MaxRecords
     IN  console' = SubSeq(console, read + 1, Len(console))
  /\ UNCHANGED <<txVars, main, port, luaVars, stopEvent, events>>

TakeStop ==
  /\ Alive /\ serial = "wait" /\ stopEvent /\ console = << >>
  /\ serial' = "ended"
  /\ UNCHANGED <<txVars, main, port, luaVars, stopEvent, console, events>>

\* The wait fails, on an invalid handle or in a way not provided for, or the routine
\* of a failed read runs in it: exit(1) or DebugBreak.  After other errors, and after
\* a completion routine that returns, it is repeated.
WaitFails ==
  /\ Alive /\ serial = "wait" /\ Goto("dead")
  /\ UNCHANGED <<txVars, port, luaVars, serialVars>>

-----------------------------------------------------------------------------
(* The Lua thread.                                                         *)

Executing == Alive /\ lua \in {"script", "run"} /\ ~ Busy("lua")

\* tx; through a delegate that may not be constructed yet.
Tx ==
  /\ Executing
  /\ IF delegates THEN MoreMessages /\ Begin("lua") /\ UNCHANGED main
                  ELSE main' = "dead" /\ UNCHANGED txVars
  /\ UNCHANGED <<port, luaVars, serialVars>>

\* Without an open port the call fails.
TxChar ==
  /\ Alive
  /\ \/ port = "open" /\ TransmitCommChar("lua")
     \/ /\ port # "open" /\ Busy("lua")
        /\ pos' = [pos EXCEPT !["lua"] = @ + 1]
        /\ lost' = lost \cup {Next1("lua")}
        /\ UNCHANGED <<slot, wire, msgs, mixed>>
  /\ UNCHANGED <<main, port, luaVars, serialVars>>

Return ==
  /\ Executing /\ ~ stuck
  /\ lua' = "wait"
  /\ UNCHANGED <<txVars, main, port, stuck, delegates, execEvent, quitEvent, serialVars>>

TakeQuit ==
  /\ Alive /\ lua = "wait" /\ quitEvent
  /\ lua' = "ended"
  /\ UNCHANGED <<txVars, main, port, stuck, delegates, execEvent, quitEvent, serialVars>>

TakeExec ==
  /\ Alive /\ lua = "wait" /\ execEvent /\ ~ quitEvent
  /\ lua' = "run" /\ execEvent' = FALSE /\ stuck' \in {FALSE, MayHang}
  /\ UNCHANGED <<txVars, main, port, delegates, quitEvent, serialVars>>

Driver == Sent /\ UNCHANGED <<main, port, luaVars, serialVars>>

-----------------------------------------------------------------------------

MainSteps   == \/ LuaConstructed \/ OpenPort \/ NoPort \/ StartSerial \/ CommandChar
               \/ SetStop \/ JoinSerial \/ ClosePort \/ SetQuit \/ JoinLua
User        == Command \/ RunTest \/ CloseWindow \/ ConsoleInput
SerialSteps == \/ StartRead \/ TakeKey \/ KeyChar \/ NoKey \/ Discard \/ TakeStop
LuaSteps    == TxChar \/ Return \/ TakeQuit \/ TakeExec

LifeNext == MainSteps \/ User \/ SerialSteps \/ WaitFails \/ LuaSteps \/ Tx \/ Driver

LifeSpec == LifeInit /\ [][LifeNext]_lifeVars

\* The threads are scheduled.  Nothing makes the user or the device do anything.
LifeFairSpec == /\ LifeSpec
                /\ WF_lifeVars(MainSteps) /\ WF_lifeVars(SerialSteps) /\ WF_lifeVars(LuaSteps)

-----------------------------------------------------------------------------
(* Properties.                                                             *)

\* The port is open whenever the window or the serial thread may use it: it is
\* the Lua thread alone that can meet another one (main_fltk.cpp:229-234).
PortOutlives ==
  serial \in {"start", "wait", "key", "discard"} \/ Busy("window") => port = "open"

\* At the end no thread is left, none in the middle of a message.
AllJoined ==
  main = "end" => /\ serial = "ended" /\ lua = "ended"
                  /\ \A s \in Senders : ~ Busy(s)

\* Closing the window ends the program, with a silent device too, unless a
\* function does not return: then it hangs in ~luaThread, which aborts nothing,
\* with the port already closed (luaThread.h:34-37).
ProgramEnds ==
  main = "stop" ~> \/ main \in {"end", "dead"}
                   \/ main = "joinlua" /\ stuck /\ port = "closed"

\* Every message that was begun is handed over to its last character, although
\* the device may take no character any more and the port be closed
\* (serial.cpp:54-55): no sender ever waits.
SendingEnds == \A s \in {"window", "lua"} : Busy(s) ~> ~ Busy(s) \/ main = "dead"

\* Why the two safety properties hold.
Built == {"loop", "stop", "join", "serial"}

LifeInv ==
  /\ TxTypeOK
  /\ main \in {"thread"} \cup Built => port = "open"
  /\ serial \in {"start", "wait", "key", "discard"} => main \in {"loop", "stop", "join", "dead"} /\ port = "open"
  /\ Busy("window") => main \in {"loop", "dead"} /\ port = "open"
  /\ Busy("serial") => serial = "key"
  /\ serial = "key" => pos["serial"] = 0 /\ msgs["serial"][Current("serial")] = 1
  /\ lua \in {"wait", "ended"} => ~ Busy("lua")
  /\ main \in {"serial", "quit", "joinlua", "end"} => serial = "ended"
  /\ main = "end" => lua = "ended"

LifeTypeOK ==
  /\ main \in {"lua", "port", "thread", "loop", "stop", "join", "serial", "quit", "joinlua",
               "end", "dead"}
  /\ port \in {"raw", "open", "closed"}
  /\ lua \in {"script", "run", "wait", "ended"}
  /\ serial \in {"none", "start", "wait", "key", "discard", "ended"}
  /\ stuck \in BOOLEAN /\ delegates \in BOOLEAN
  /\ execEvent \in BOOLEAN /\ quitEvent \in BOOLEAN /\ stopEvent \in BOOLEAN
  /\ console \in Seq(ConsoleEvents) /\ events \in 0 .. MaxEvents

\* Of the safety behind ProgramEnds: whoever is joined has been told to end, by
\* an event that stays set.
EndTold ==
  /\ main \in {"join", "serial", "quit", "joinlua", "end"} \/ serial = "ended" => stopEvent
  /\ main \in {"joinlua", "end"} \/ lua = "ended" => quitEvent
  /\ serial = "discard" => console # << >>

Closing == main \in {"stop", "join", "serial", "quit", "joinlua"}

MainStage   == [stop |-> 5, join |-> 4, serial |-> 3, quit |-> 2, joinlua |-> 1,
                end |-> 0, dead |-> 0]
SerialStage == [key |-> 4, start |-> 3, wait |-> 2, discard |-> 1, ended |-> 0, none |-> 0]
LuaStage    == [script |-> 2, run |-> 2, wait |-> 1, ended |-> 0]

CharsLeft(s) == IF Busy(s) THEN msgs[s][Current(s)] - pos[s] ELSE 0

\* How many steps the program is from its end at most.
ClosingLeft ==
  MainStage[main] + SerialStage[serial] + 3 * Len(console)
    + LuaStage[lua] + (IF execEvent THEN 2 ELSE 0) + 2 * CharsLeft("lua") + Len(slot)

\* Once the window is closed every step brings the program closer to its end, but
\* a key pressed and a message that a function begins (main_fltk.cpp:229-234).
EndNears ==
  [][Closing /\ ~ Tx /\ ~ ConsoleInput => ClosingLeft' < ClosingLeft]_lifeVars
=============================================================================
