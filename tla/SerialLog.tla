----------------------------- MODULE SerialLog -----------------------------
(***************************************************************************)
(* The log file of serial_t (serial.cpp: log, read_done's loop, the        *)
(* destructor) and the menu item that switches it (main_fltk.cpp).  The    *)
(* window opens and closes the file through the plain member fLog; the     *)
(* serial thread tests fLog once per block and uses it once per byte,      *)
(* without a lock.                                                         *)
(*                                                                         *)
(* A FILE* is an address, which a later file may get again.  The bytes     *)
(* that are not CR are numbered as they arrive, a file's contents are the  *)
(* numbers it was given.  What the C library does with a FILE that is      *)
(* closed, or being closed by another thread, is undefined: the model      *)
(* stops there and remembers it in damage.                                 *)
(*                                                                         *)
(* hLog is INVALID_HANDLE_VALUE for ever: the part of log that would open  *)
(* it follows a return.                                                    *)
(***************************************************************************)
EXTENDS Integers, Sequences

CONSTANTS
  Addr,      \* addresses of FILEs
  Null,      \* NULL
  MaxBlock,  \* bytes of a block
  MaxBytes,  \* bound: bytes other than CR that arrive in a run
  MaxFiles   \* bound: files opened in a run

ASSUME LogAssumption ==
  /\ Null \notin Addr
  /\ MaxBlock \in Nat /\ MaxBytes \in Nat /\ MaxFiles \in Nat

VARIABLES
  fLog,     \* the member
  slot,     \* slot[a]: the file open at address a, 0 if none
  files,    \* files[f]: the bytes written to the f-th file opened
  disk,     \* disk[f]: how many of them are surely on disk
  checked,  \* the menu item's mark
  win,      \* the window: where it is in the menu callback, in log, at its end
  want,     \* log was given a file name
  rd,       \* the serial thread: waiting, in read_done's loop, ended
  left,     \* bytes of the block the loop has still to look at
  held,     \* the value of fLog the loop read last
  seen,     \* history: bytes other than CR that arrived
  from,     \* history: from[f] is seen when file f was opened
  overlap,  \* history: log ran during the block at hand
  damage    \* history: a FILE was used that was closed ("race") or closed again

file   == <<fLog, slot, files, disk, from>>
window == <<checked, win, want>>
loop   == <<rd, left, held, seen>>
vars   == <<file, window, loop, overlap, damage>>

InLog == {"test", "close", "null", "open"}

Init == /\ fLog = Null /\ slot = [a \in Addr |-> 0]
        /\ files = << >> /\ disk = << >> /\ from = << >>
        /\ checked = FALSE /\ win = "idle" /\ want = FALSE
        /\ rd = "wait" /\ left = 0 /\ held = Null /\ seen = 0
        /\ overlap = FALSE /\ damage = "none"

-----------------------------------------------------------------------------
(* The window.                                                             *)

At(where) == win = where /\ damage = "none"
Overlap   == overlap' = (overlap \/ rd = "log")

\* FLTK changes the mark and calls the item's callback, which asks for a file
\* or calls log().
Toggle ==
  /\ At("idle") /\ (~ checked => Len(files) < MaxFiles)
  /\ checked' = ~ checked /\ want' = FALSE
  /\ win' = IF checked THEN "test" ELSE "choose"
  /\ UNCHANGED <<file, loop, overlap, damage>>

Choose ==
  /\ At("choose")
  /\ win' = "test" /\ want' = TRUE
  /\ UNCHANGED <<checked, file, loop, overlap, damage>>

\* Mutant of Cancel: the mark stays.
CancelKeepsMark ==
  /\ At("choose")
  /\ win' = "idle"
  /\ UNCHANGED <<checked, want, file, loop, overlap, damage>>

Cancel ==
  /\ At("choose")
  /\ win' = "idle" /\ checked' = FALSE
  /\ UNCHANGED <<want, file, loop, overlap, damage>>

LogTest ==
  /\ At("test") /\ Overlap
  /\ win' = IF fLog # Null THEN "close" ELSE "open"
  /\ UNCHANGED <<checked, want, file, loop, damage>>

\* fclose(fLog) by the thread that is there alone.
Fclose ==
  IF slot[fLog] = 0
  THEN damage' = "twice" /\ UNCHANGED <<slot, disk>>
  ELSE /\ slot' = [slot EXCEPT ![fLog] = 0]
       /\ disk' = [disk EXCEPT ![slot[fLog]] = Len(files[slot[fLog]])]
       /\ UNCHANGED damage

\* log: while the loop is in a call on the same FILE, fclose may do anything.
LogClose ==
  /\ At("close") /\ Overlap
  /\ win' = "null"
  /\ \/ Fclose
     \/ rd = "log" /\ damage' = "race" /\ UNCHANGED <<slot, disk>>
  /\ UNCHANGED <<fLog, files, from, checked, want, loop>>

\* Mutant of LogNull: the member still names the closed file.
LogStale ==
  /\ At("null") /\ Overlap
  /\ win' = "open"
  /\ UNCHANGED <<fLog, slot, files, disk, from, checked, want, loop, damage>>

LogNull ==
  /\ At("null") /\ Overlap
  /\ fLog' = Null /\ win' = "open"
  /\ UNCHANGED <<slot, files, disk, from, checked, want, loop, damage>>

\* _fsopen succeeds; the item keeps its mark.
LogOpen ==
  /\ At("open") /\ want /\ Overlap
  /\ \E a \in Addr : /\ slot[a] = 0
                     /\ fLog' = a
                     /\ slot' = [slot EXCEPT ![a] = Len(files) + 1]
  /\ files' = Append(files, << >>) /\ disk' = Append(disk, 0)
  /\ from' = Append(from, seen)
  /\ win' = "idle"
  /\ UNCHANGED <<checked, want, loop, damage>>

\* It fails, and the mark is taken back.
LogFails ==
  /\ At("open") /\ want /\ Overlap
  /\ win' = "idle" /\ checked' = FALSE
  /\ UNCHANGED <<want, file, loop, damage>>

\* log() had nothing to open.
LogOff ==
  /\ At("open") /\ ~ want /\ Overlap
  /\ win' = IF rd = "ended" THEN "gone" ELSE "idle"
  /\ UNCHANGED <<checked, want, file, loop, damage>>

\* ~ConsoleWindow joins the serial thread, which ends in its wait.
Quit ==
  /\ At("idle") /\ rd = "wait"
  /\ rd' = "ended" /\ win' = "dtor" /\ want' = FALSE
  /\ UNCHANGED <<checked, file, left, held, seen, overlap, damage>>

\* ~serial_t closes the file, and then calls log(NULL).
Destroy ==
  /\ At("dtor")
  /\ win' = "test"
  /\ IF fLog = Null THEN UNCHANGED <<slot, disk, damage>> ELSE Fclose
  /\ UNCHANGED <<fLog, files, from, checked, want, loop, overlap>>

-----------------------------------------------------------------------------
(* The serial thread: read_done after it has published the block.          *)

\* The test fLog && count > 0; a block that is not logged passes at once.
Block ==
  /\ rd = "wait" /\ damage = "none"
  /\ \E n \in 0 .. MaxBlock :
       /\ seen + n <= MaxBytes
       /\ IF fLog # Null /\ n > 0
          THEN rd' = "log" /\ left' = n /\ UNCHANGED seen
          ELSE (\E k \in 0 .. n : seen' = seen + k) /\ UNCHANGED <<rd, left>>
  /\ held' = fLog
  /\ overlap' = (win \in InLog)
  /\ UNCHANGED <<file, window, damage>>

InLoop == rd = "log" /\ damage = "none"

\* A CR is passed over.
SkipCR ==
  /\ InLoop /\ left > 0
  /\ left' = left - 1
  /\ UNCHANGED <<rd, held, seen, file, window, overlap, damage>>

\* fLog is no atomic: a use of it may find its value or the one read before.
Pointers == {held, fLog}
IsOpen(p) == p # Null /\ slot[p] # 0

\* Mutant of Put: the last byte of the block is not written.
PutAllButLast ==
  /\ InLoop /\ left > 0
  /\ left' = left - 1 /\ seen' = seen + 1
  /\ held' = fLog
  /\ files' = IF left > 1 /\ IsOpen(fLog)
              THEN [files EXCEPT ![slot[fLog]] = Append(@, seen + 1)] ELSE files
  /\ UNCHANGED <<fLog, slot, disk, from, rd, window, overlap, damage>>

\* _fputc_nolock of any other byte.
Put ==
  /\ InLoop /\ left > 0
  /\ left' = left - 1 /\ seen' = seen + 1
  /\ \E p \in Pointers :
       /\ held' = p
       /\ IF IsOpen(p)
          THEN /\ files' = [files EXCEPT ![slot[p]] = Append(@, seen + 1)]
               /\ UNCHANGED damage
          ELSE damage' = "race" /\ UNCHANGED files
  /\ UNCHANGED <<fLog, slot, disk, from, rd, window, overlap>>

\* Mutant of Flush: what was written waits in the library's buffer.
NoFlush ==
  /\ InLoop /\ left = 0
  /\ rd' = "wait"
  /\ UNCHANGED <<left, held, seen, file, window, overlap, damage>>

\* fflush, of all files if it finds NULL.
Flush ==
  /\ InLoop /\ left = 0
  /\ rd' = "wait"
  /\ \E p \in Pointers :
       /\ held' = p
       /\ \/ /\ p = Null
             /\ disk' = [f \in DOMAIN disk |-> Len(files[f])] /\ UNCHANGED damage
          \/ /\ IsOpen(p)
             /\ disk' = [disk EXCEPT ![slot[p]] = Len(files[slot[p]])] /\ UNCHANGED damage
          \/ /\ p # Null /\ ~ IsOpen(p)
             /\ damage' = "race" /\ UNCHANGED disk
  /\ UNCHANGED <<fLog, slot, files, from, left, seen, window, overlap>>

-----------------------------------------------------------------------------

Window == \/ Toggle \/ Choose \/ Cancel
          \/ LogTest \/ LogClose \/ LogNull \/ LogOpen \/ LogFails \/ LogOff
          \/ Quit \/ Destroy
Thread == Block \/ SkipCR \/ Put \/ Flush
Next   == Window \/ Thread

Spec == Init /\ [][Next]_vars

-----------------------------------------------------------------------------
(* Properties.                                                             *)

TypeOK ==
  /\ fLog \in Addr \cup {Null} /\ held \in Addr \cup {Null}
  /\ slot \in [Addr -> 0 .. Len(files)]
  /\ files \in Seq(Seq(Nat)) /\ disk \in Seq(Nat) /\ from \in Seq(Nat)
  /\ Len(disk) = Len(files) /\ Len(from) = Len(files)
  /\ checked \in BOOLEAN /\ want \in BOOLEAN /\ overlap \in BOOLEAN
  /\ win \in InLog \cup {"idle", "choose", "dtor", "gone"}
  /\ rd \in {"wait", "log", "ended"}
  /\ left \in Nat /\ seen \in Nat
  /\ damage \in {"none", "race", "twice"}

Open(f) == \E a \in Addr : slot[a] = f

\* A log is the stream without its CRs, without a gap from the moment it was
\* opened, up to now or to the moment it was closed; also when the menu item
\* was used in the middle of a block (serial.cpp:87-97 against 9-20).
LogIsStream ==
  \A f \in DOMAIN files :
    /\ \A i \in 1 .. Len(files[f]) : files[f][i] = from[f] + i
    /\ Open(f) /\ damage = "none" => from[f] + Len(files[f]) = seen

\* A crash loses at most the block at hand: between two blocks everything
\* logged is on disk, of every file (serial.cpp:97).
BlocksOnDisk ==
  rd # "log" /\ damage = "none" =>
    \A f \in DOMAIN files : disk[f] = Len(files[f])

\* Undefined behaviour has two causes only: the item was used while a block was
\* being logged, or the program ends with the log open (serial.cpp:167-169).
DamageExplained ==
  /\ damage = "race" => overlap
  /\ damage = "twice" => rd = "ended" /\ checked

\* The mark tells whether the log is open, after a cancelled or failed choice
\* too, and no file is left open without it (main_fltk.cpp:273-290).
MarkTold ==
  (win = "idle" /\ damage = "none") =>
    /\ checked <=> fLog # Null
    /\ \A a \in Addr : slot[a] # 0 <=> a = fLog

\* Why they hold: at most one file is open, it is the one fLog names, and the
\* stages of the menu's callback tell which.
FileClosed == win = "null" \/ (rd = "ended" /\ win \in {"test", "close"})

OneOpen == \A a \in Addr : slot[a] # 0 <=> a = fLog /\ ~ FileClosed

Stages ==
  /\ win \in {"idle", "dtor"} => (checked <=> fLog # Null)
  /\ win = "choose" => checked /\ fLog = Null
  /\ win = "test" => IF want THEN checked /\ fLog = Null
                    ELSE checked <=> (rd = "ended" /\ fLog # Null)
  /\ win = "close" => ~ want /\ fLog # Null /\ (checked <=> rd = "ended")
  /\ win = "null" => ~ want /\ ~ checked /\ rd # "ended"
  /\ win = "open" => fLog = Null /\ (checked <=> want)
  /\ win = "dtor" => rd = "ended"
  /\ rd = "ended" => ~ want /\ win \in {"dtor", "test", "close", "open", "gone"}

LoopSees ==
  rd = "log" /\ ~ overlap => held = fLog /\ fLog # Null /\ slot[fLog] # 0

OnDisk ==
  \A f \in DOMAIN files : disk[f] = Len(files[f]) \/ (rd = "log" /\ Open(f))

LogInv ==
  /\ TypeOK /\ LogIsStream /\ DamageExplained
  /\ damage = "none" => OneOpen /\ Stages /\ LoopSees /\ OnDisk
=============================================================================
