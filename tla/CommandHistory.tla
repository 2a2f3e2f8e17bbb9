--------------------------- MODULE CommandHistory ---------------------------
(***************************************************************************)
(* The command line (CommandInput and PopupBrowser in main_fltk.cpp): an   *)
(* input, a toggle button, and a list of former commands that the button   *)
(* shows and that hides itself when it loses the mouse or the focus.       *)
(*                                                                         *)
(* A command is a word in one of its spellings: stricmp compares the word. *)
(* FLTK is external.  What matters of it: a list calls back on every click *)
(* and a click below its lines leaves it with the value 0; text(0) is a    *)
(* null pointer; a toggle button has its new value when it calls back.     *)
(***************************************************************************)
EXTENDS Integers, Sequences, Functions

CONSTANTS
  Words, Spellings,  \* a command is a word in a spelling
  MaxSent            \* bound: commands sent in a run

ASSUME HistoryAssumption == MaxSent \in Nat

VARIABLES
  command,  \* the text of the input
  history,  \* the lines of the list
  value,    \* history.value(): the line selected, or 0
  dropdown, \* dropdown.value()
  visible,  \* the list is shown
  crashed,  \* a null pointer was transmitted
  typed,    \* history: the commands entered
  sent      \* history: the commands transmitted

historyVars == <<command, history, value, dropdown, visible, crashed, typed, sent>>

Blank    == [word |-> "", spelling |-> ""]
Commands == [word : Words, spelling : Spellings] \cup {Blank}

HistoryInit == /\ command = Blank /\ history = << >> /\ value = 0
               /\ dropdown = FALSE /\ visible = FALSE /\ crashed = FALSE
               /\ typed = << >> /\ sent = << >>

MoreCommands == Len(sent) < MaxSent

\* The user edits the input.
Edit ==
  /\ ~ crashed
  /\ command' \in Commands \ {command}
  /\ UNCHANGED <<history, value, dropdown, visible, crashed, typed, sent>>

SameText(c, d) == c.word = d.word

\* Mutant of AddUnique: only the last line is compared.
AddUnlessLast(c) ==
  IF history # << >> /\ SameText(history[Len(history)], c) THEN history ELSE Append(history, c)

AddUnique(c) ==
  IF \E i \in DOMAIN history : SameText(history[i], c) THEN history ELSE Append(history, c)

\* Return in the input: do_command.
DoCommand ==
  /\ ~ crashed /\ MoreCommands
  /\ history' = AddUnique(command)
  /\ typed' = Append(typed, command) /\ sent' = Append(sent, command)
  /\ UNCHANGED <<command, value, dropdown, visible, crashed>>

\* Mutant of Hide: Fl_Browser::hide without the bound function.
HidePlain == visible' = FALSE /\ UNCHANGED dropdown

\* PopupBrowser::hide: the bound function releases the button.
Hide == dropdown' = FALSE /\ visible' = FALSE

\* The button is pressed: its value changes, then it calls back.
Press ==
  /\ ~ crashed
  /\ IF ~ dropdown THEN dropdown' = TRUE /\ visible' = TRUE ELSE Hide
  /\ UNCHANGED <<command, history, value, crashed, typed, sent>>

\* FL_LEAVE or FL_UNFOCUS reaches the list.
Leave ==
  /\ ~ crashed /\ visible
  /\ Hide
  /\ UNCHANGED <<command, history, value, crashed, typed, sent>>

\* A click into the list: do_history with the text of a line.
DoHistory ==
  /\ ~ crashed /\ visible /\ MoreCommands
  /\ \E line \in DOMAIN history :
       /\ value' = line
       /\ command' = history[line]
       /\ sent' = Append(sent, history[line])
  /\ Hide
  /\ UNCHANGED <<history, crashed, typed>>

\* A click below the lines: command.value(NULL) empties the input, the callback
\* transmits through a null pointer.
DoNothing ==
  /\ ~ crashed /\ visible
  /\ value' = 0 /\ crashed' = TRUE
  /\ command' = Blank
  /\ Hide
  /\ UNCHANGED <<history, typed, sent>>

HistoryNext == Edit \/ DoCommand \/ Press \/ Leave \/ DoHistory \/ DoNothing

HistorySpec == HistoryInit /\ [][HistoryNext]_historyVars

-----------------------------------------------------------------------------
(* Properties.                                                             *)

IsFirst(i) == \A j \in 1 .. i - 1 : ~ SameText(typed[j], typed[i])

\* The list is what a reader of all commands entered would write down: each one
\* once, whatever its spelling, in the order and the spelling in which it was
\* first entered (main_fltk.cpp:101-106).
HistoryIsFirsts ==
  \E at \in [DOMAIN history -> DOMAIN typed] :
    /\ \A k, m \in DOMAIN history : k < m => at[k] < at[m]
    /\ Range(at) = {i \in DOMAIN typed : IsFirst(i)}
    /\ \A k \in DOMAIN history : history[k] = typed[at[k]]

\* The button is down exactly while the list is shown, however it was hidden:
\* one press always shows a hidden list (main_fltk.cpp:131-136, 146-149).
ButtonTellsList == dropdown <=> visible

HistoryTypes ==
  /\ history \in Seq(Commands) /\ typed \in Seq(Commands) /\ command \in Commands
  /\ dropdown \in BOOLEAN /\ visible \in BOOLEAN

\* No command entered is missing from the list.
AllListed == \A i \in DOMAIN typed : \E k \in DOMAIN history : SameText(history[k], typed[i])

\* Inductive for HistoryNext.
HistoryInv == HistoryTypes /\ AllListed /\ HistoryIsFirsts /\ ButtonTellsList
=============================================================================
