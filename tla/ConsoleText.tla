----------------------------- MODULE ConsoleText -----------------------------
(***************************************************************************)
(* What the window displays: ConsoleDisplay::append and scroll_to_end, and *)
(* the Clear item (main_fltk.cpp).  A poll hands the text of every block   *)
(* that waits to append, which drops the oldest text over a limit, and     *)
(* then scrolls, which shortens the buffer in a way of its own.            *)
(***************************************************************************)
EXTENDS FrameFilter, FiniteSets

CONSTANTS
  Limit,        \* Config::console_buffer: 10000
  ScrollLines,  \* scroll_to_end shortens a text of more lines: 10
  NL            \* '\n'

ASSUME ConsoleAssumption == /\ Limit \in Nat \ {0} /\ ScrollLines \in Nat
                            /\ NL \in Bytes \ {NUL}

VARIABLES
  poll,     \* poll_callback: not running, in a block, between blocks
  lines,    \* the text buffer
  cleared,  \* history: how much had been shown at the last Clear
  trims     \* history: times scroll_to_end removed text since the buffer was
            \* last cleared or last reached its limit

consoleVars == <<vars, poll, lines, cleared, trims>>

ConsoleInit == Init /\ poll = "idle" /\ lines = << >> /\ cleared = 0 /\ trims = 0

\* poll finds that print_idx # block_idx.
TakeBlock ==
  /\ poll \in {"idle", "between"} /\ poll' = "block"
  /\ UNCHANGED <<vars, lines, cleared, trims>>

Byte ==
  /\ poll = "block"
  /\ \E ch \in Bytes : TextByte(ch) \/ FrameByte(ch) \/ LastByte(ch)
  /\ UNCHANGED <<poll, lines, cleared, trims>>

\* Mutant of Newest: the oldest text is kept.
Oldest(s) == IF Len(s) > Limit THEN SubSeq(s, 1, Limit) ELSE s

Newest(s) == IF Len(s) > Limit THEN SubSeq(s, Len(s) - Limit + 1, Len(s)) ELSE s

\* append.
Show ==
  /\ poll = "block" /\ poll' = "between"
  /\ Return
  /\ LET all == lines \o SubSeq(shown', Len(shown) + 1, Len(shown'))
     IN  /\ lines' = Newest(all)
         /\ trims' = IF Len(all) > Limit THEN 0 ELSE trims
  /\ UNCHANGED cleared

Breaks(s)   == {i \in DOMAIN s : s[i] = NL}
IsFirst(i)  == i \in Breaks(lines) /\ \A j \in 1 .. i - 1 : lines[j] # NL

\* Mutant of From: the line break goes too.
After(i) == SubSeq(lines, i + 1, Len(lines))

\* lines.remove(0, idx): the line break stays.
From(i) == SubSeq(lines, i, Len(lines))

\* count_lines counts the line breaks and what the width of the window adds.
CountMayPass == Len(lines) > ScrollLines

\* scroll_to_end.
Shorten ==
  /\ CountMayPass
  /\ \E i \in DOMAIN lines :
       /\ IsFirst(i)
       /\ lines' = From(i)
       /\ trims' = IF i > 1 THEN trims + 1 ELSE trims

KeepAll ==
  /\ Cardinality(Breaks(lines)) <= ScrollLines \/ Breaks(lines) = {}
  /\ UNCHANGED <<lines, trims>>

Scroll ==
  /\ poll = "between" /\ poll' = "idle"
  /\ Shorten \/ KeepAll
  /\ UNCHANGED <<vars, cleared>>

\* The menu item: text(NULL).
Clear ==
  /\ poll = "idle"
  /\ lines' = << >> /\ cleared' = Len(shown) /\ trims' = 0
  /\ UNCHANGED <<vars, poll>>

ConsoleNext == TakeBlock \/ Byte \/ Show \/ Scroll \/ Clear

ConsoleSpec == ConsoleInit /\ [][ConsoleNext]_consoleVars

-----------------------------------------------------------------------------
(* Properties.                                                             *)

\* What is displayed is the newest text received since Clear, unbroken: the
\* two places that shorten the buffer only ever take from its old end
\* (main_fltk.cpp:208, 220).
TailKept ==
  /\ cleared + Len(lines) <= Len(shown)
  /\ \A i \in 1 .. Len(lines) : lines[i] = shown[Len(shown) - Len(lines) + i]

\* Text is missing only because the limit was reached, or because a scroll cut
\* the buffer at a line break: nothing else ever loses any.
MissingExplained ==
  \/ cleared + Len(lines) = Len(shown)
  \/ Len(lines) = Limit
  \/ Len(lines) > 0 /\ lines[1] = NL

\* scroll_to_end keeps the line break at which it cuts, so that it finds the
\* same one the next time: it removes text once, and from then on only the
\* limit keeps the buffer small (main_fltk.cpp:205-210).
ScrollTrimsOnce ==
  /\ trims <= 1
  /\ trims = 1 => Len(lines) > 0 /\ lines[1] = NL

\* "Keep buffer size under limit" (main_fltk.cpp:218), whatever two successive
\* blocks and scrolls leave.
UnderLimit == Len(lines) <= Limit

ConsoleTypeOK == /\ poll \in {"idle", "block", "between"}
                 /\ lines \in Seq(Bytes) /\ cleared \in Nat /\ trims \in Nat

ConsoleInv == ConsoleTypeOK /\ TailKept /\ MissingExplained /\ ScrollTrimsOnce /\ UnderLimit
=============================================================================
