---------------------------- MODULE SerialOptions ----------------------------
(***************************************************************************)
(* main_args (serial.config.cpp) with the table of options.h: how the      *)
(* command line sets comm.  The file is not among those the project builds;*)
(* it mixes narrow and wide strings, which are taken as one type here.     *)
(*                                                                         *)
(* The text after an option letter is abstracted to what the functions tell*)
(* apart; the text of an option in its long form is its own name, which is *)
(* what s points to.                                                       *)
(***************************************************************************)
EXTENDS Integers, Sequences

CONSTANT MaxArgs  \* bound: arguments of a run

VARIABLES
  comm,    \* config_comm_s
  exited,  \* exit(EXIT_FAILURE)
  args     \* history: the arguments read

optionVars == <<comm, exited, args>>

\* NOPARITY, ODDPARITY and so on, ONESTOPBIT and so on.
ParityOf == [none |-> 0, odd |-> 1, even |-> 2, mark |-> 3, space |-> 4]
StopOf   == [one |-> 0, half |-> 1, two |-> 2]
RateOf   == [mx |-> 38400, vic |-> 115200, valid |-> 9600]

Default == [file |-> "COM2", log |-> "NULL", baud |-> 115200,
            bytesize |-> 8, parity |-> 0, stopbits |-> 0]

Init == comm = Default /\ exited = FALSE /\ args = << >>

\* Texts after an option letter: "short" is at most one character.
Texts ==
  [baud     |-> DOMAIN RateOf \cup {"short", "other"},
   parity   |-> DOMAIN ParityOf \cup {"short", "other"},
   stopbits |-> DOMAIN StopOf \cup {"short", "other"},
   log      |-> {"a.log", "b.log"}]
Options == DOMAIN Texts

Short(opt, text) == [kind |-> "short", opt |-> opt, text |-> text]
Long(opt)        == [kind |-> "long", opt |-> opt, text |-> "other"]
Word(text)       == [kind |-> "word", opt |-> "", text |-> text]

\* options_baud: a number that is no rate, or no number, ends the program.
KnownRate(text)  == text \in DOMAIN RateOf
WrongRate(text)  == text = "other"

SetBaud(text) == IF KnownRate(text) THEN [comm EXCEPT !.baud = RateOf[text]] ELSE comm

SetParity(text) ==
  IF text \in DOMAIN ParityOf THEN [comm EXCEPT !.parity = ParityOf[text]] ELSE comm

\* options_stopbits: a lone "1" or "2" is too short, "1.5" contains "1".
SetStopbits(text) ==
  IF text \in DOMAIN StopOf THEN [comm EXCEPT !.parity = StopOf[text]] ELSE comm

SetLog(text) == [comm EXCEPT !.log = text]

Apply(opt, text) ==
  CASE opt = "baud"     -> SetBaud(text)
    [] opt = "parity"   -> SetParity(text)
    [] opt = "stopbits" -> SetStopbits(text)
    [] opt = "log"      -> SetLog(text)

Read(arg) == ~ exited /\ Len(args) < MaxArgs /\ args' = Append(args, arg)

\* -b, -p, -s and -l.
ShortOption ==
  \E opt \in Options : \E text \in Texts[opt] :
    /\ Read(Short(opt, text))
    /\ comm' = Apply(opt, text)
    /\ exited' = (opt = "baud" /\ WrongRate(text))

\* --baud and so on: the function is given the name itself.
LongOption ==
  \E opt \in Options :
    /\ Read(Long(opt))
    /\ comm' = IF opt = "log" THEN SetLog("log") ELSE comm
    /\ exited' = (opt = "baud")

\* -h and every other letter.
Usage == Read(Word("-h")) /\ exited' = TRUE /\ UNCHANGED comm

\* An argument without '-', or a long one that no option has: nothing is done.
Ignored == \E text \in {"COM3", "--other"} : Read(Word(text)) /\ UNCHANGED <<comm, exited>>

\* "-" alone is what reaches case 0.
Dash == Read(Word("-")) /\ comm' = [comm EXCEPT !.file = "-"] /\ UNCHANGED exited

Next == ShortOption \/ LongOption \/ Usage \/ Ignored \/ Dash

Spec == Init /\ [][Next]_optionVars

-----------------------------------------------------------------------------
(* Properties.                                                             *)

\* options.h:8: -s "sets serial stopbits".
StopbitsSet ==
  args # << >> =>
    LET arg == args[Len(args)]
    IN  arg.kind = "short" /\ arg.opt = "stopbits" /\ arg.text \in DOMAIN StopOf
        => comm.stopbits = StopOf[arg.text]
=============================================================================
