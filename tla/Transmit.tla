------------------------------ MODULE Transmit ------------------------------
(***************************************************************************)
(* Sending through the port: serial_t::transmit (serial.cpp) by the window *)
(* for a command and by the Lua thread for tx, and serial_main for a key   *)
(* pressed on the console.  Nothing orders the three.  TransmitCommChar    *)
(* puts one character into the driver, which has room for one: while that  *)
(* waits the call fails, and nobody looks at its result.                   *)
(*                                                                         *)
(* A character is who sent it, with which message and at which place.  The *)
(* message of a command is its text and the CR that follows in a call of   *)
(* its own (main_fltk.cpp:301-302); a key is a message of one character.   *)
(***************************************************************************)
EXTENDS Integers, Sequences, Functions

CONSTANTS
  MaxLen,  \* bound: characters of a text
  MaxMsgs  \* bound: messages of a run

ASSUME TransmitAssumption == MaxLen \in Nat /\ MaxMsgs \in Nat

VARIABLES
  slot,  \* the driver: << >> or the one character it holds
  wire,  \* history: the characters sent
  msgs,  \* msgs[s]: the lengths of the messages s has begun
  pos,   \* pos[s]: characters of the last of them that s has handed over
  lost,  \* history: the characters a call failed for
  mixed  \* history: messages during which another one was sent

txVars == <<slot, wire, msgs, pos, lost, mixed>>

Senders == {"window", "lua", "serial"}

TxInit == /\ slot = << >> /\ wire = << >>
          /\ msgs = [s \in Senders |-> << >>] /\ pos = [s \in Senders |-> 0]
          /\ lost = {} /\ mixed = {}

Current(s) == Len(msgs[s])
Busy(s)    == Current(s) > 0 /\ pos[s] < msgs[s][Current(s)]
Char(s, m, i)  == [from |-> s, msg |-> m, i |-> i]
Message(s, m)  == [from |-> s, msg |-> m]

Lengths(s) == CASE s = "serial" -> {1}
                [] s = "lua"    -> 0 .. MaxLen
                [] s = "window" -> 1 .. MaxLen + 1

\* transmit is called, or a key was pressed.
Begin(s) ==
  /\ ~ Busy(s)
  /\ \E n \in Lengths(s) : msgs' = [msgs EXCEPT ![s] = Append(@, n)]
  /\ pos' = [pos EXCEPT ![s] = 0]
  /\ LET others == {t \in Senders \ {s} : Busy(t)}
     IN  mixed' = mixed \cup
           IF others = {} THEN {}
           ELSE {Message(s, Current(s) + 1)} \cup {Message(t, Current(t)) : t \in others}
  /\ UNCHANGED <<slot, wire, lost>>

\* Mutant of Next1: *++msg for *msg++.
PreIncrement(s) == Char(s, Current(s), pos[s] + 2)

Next1(s) == Char(s, Current(s), pos[s] + 1)

\* Mutant of TransmitCommChar: it is repeated until it succeeds.
WaitsForRoom(s) ==
  /\ Busy(s) /\ slot = << >>
  /\ pos' = [pos EXCEPT ![s] = @ + 1]
  /\ slot' = <<Next1(s)>>
  /\ UNCHANGED <<wire, msgs, mixed, lost>>

\* One turn of transmit's loop.
TransmitCommChar(s) ==
  /\ Busy(s)
  /\ pos' = [pos EXCEPT ![s] = @ + 1]
  /\ IF slot = << >> THEN slot' = <<Next1(s)>> /\ UNCHANGED lost
                     ELSE lost' = lost \cup {Next1(s)} /\ UNCHANGED slot
  /\ UNCHANGED <<wire, msgs, mixed>>

\* The driver has sent its character.
Sent ==
  /\ slot # << >>
  /\ wire' = wire \o slot /\ slot' = << >>
  /\ UNCHANGED <<msgs, pos, lost, mixed>>

MoreMessages == Current("window") + Current("lua") + Current("serial") < MaxMsgs

-----------------------------------------------------------------------------
(* Properties.                                                             *)

Chars == [from : Senders, msg : Nat, i : Nat]

TxTypeOK ==
  /\ slot \in Seq(Chars) /\ Len(slot) <= 1 /\ wire \in Seq(Chars)
  /\ msgs \in [Senders -> Seq(Nat)] /\ pos \in [Senders -> Nat]
  /\ lost \subseteq Chars /\ mixed \subseteq [from : Senders, msg : Nat]

Out == wire \o slot

Before(c, d) == c.msg < d.msg \/ (c.msg = d.msg /\ c.i < d.i)

\* Why the next holds: nothing is out that was not handed over.
PastOnly ==
  \A j \in DOMAIN Out :
    LET c == Out[j]
    IN  c.msg < Current(c.from) \/ (c.msg = Current(c.from) /\ c.i <= pos[c.from])

\* What a sender gets through is in its order and sent once, whatever is lost
\* between and whoever sends in between (serial.cpp:54-55).
InOrder ==
  \A j, k \in DOMAIN Out : j < k /\ Out[j].from = Out[k].from => Before(Out[j], Out[k])

\* How many characters of its message m s has handed over.
Done(s, m) == IF m < Current(s) THEN msgs[s][m] ELSE pos[s]

\* No call failed for the message so far, and nobody else sent during it.
Intact(s, m) ==
  Message(s, m) \notin mixed /\ \A i \in 1 .. Done(s, m) : Char(s, m, i) \notin lost

\* The message, so far, is out as a whole, after the at first characters.
OutAt(s, m, at) == \A i \in 1 .. Done(s, m) : Out[at + i] = Char(s, m, i)

\* A message of which no call failed and during which nobody else sent is on
\* the wire as a whole: it is only overlap and loss that spoil a message.
WholeMessages ==
  \A s \in Senders : \A m \in 1 .. Current(s) :
    Intact(s, m) => \E at \in 0 .. Len(Out) - Done(s, m) : OutAt(s, m, at)

TxInv == TxTypeOK /\ InOrder /\ PastOnly

\* Why it holds.  Nobody hands over more than there is; of two who
\* are in the middle of a message at once both messages are marked; so an intact
\* message under way is what was put out last.
PosFits == \A s \in Senders : pos[s] <= IF Current(s) = 0 THEN 0 ELSE msgs[s][Current(s)]

OverlapMarked ==
  \A s, t \in Senders : s # t /\ Busy(s) /\ Busy(t) => Message(s, Current(s)) \in mixed

IntactIsLast ==
  \A s \in Senders :
    Busy(s) /\ Intact(s, Current(s)) =>
      pos[s] <= Len(Out) /\ OutAt(s, Current(s), Len(Out) - pos[s])

WireInv == TxInv /\ PosFits /\ OverlapMarked /\ IntactIsLast /\ WholeMessages
=============================================================================
