------------------------------ MODULE TestMenu ------------------------------
(***************************************************************************)
(* The menu of Lua test functions (main_fltk.cpp: menu_add, Load Script,   *)
(* ConsoleWindow::handle), on top of luaThread.  The Lua thread itself     *)
(* adds the items, at any time until its thread has ended; the window      *)
(* clears the menu, asks luaThread to restart, and on a right click shows  *)
(* the menu of tests or, by running, the one that aborts.                  *)
(*                                                                         *)
(* An item knows the ref of its function and nothing of the Lua state the  *)
(* ref belongs to: the model gives it the number of the thread that added  *)
(* it.  Every action is one of LuaThread's with its part of the menu, or   *)
(* concerns the popup alone.  A shortcut (main_fltk.cpp:331) is handled by *)
(* FLTK, which gives the item's callback the menu button where a luaThread *)
(* is expected: that call reaches nothing modelled here.                   *)
(***************************************************************************)
EXTENDS LuaThread

VARIABLES
  items,    \* tests_menu
  popup,    \* what a right click put on the screen
  wanted,   \* history: the item m_func is from, and the thread when it was asked
  now,      \* history: the same of the function fetched last
  started,  \* history: functions called
  abortAt   \* history: the thread and started when an abort was last asked for

menu     == <<items, popup>>
menuHist == <<wanted, now, started, abortAt>>
menuVars == <<vars, menu, menuHist>>

InReset == call \in {"abort", "quit", "join"}

NoRequest == [ref |-> 0, gen |-> 0, late |-> FALSE, in |-> 0]

MenuInit == /\ Init
            /\ items = {} /\ popup = "none"
            /\ wanted = NoRequest /\ now = NoRequest
            /\ started = 0 /\ abortAt = [gen |-> 0, started |-> 0]

-----------------------------------------------------------------------------
(* The window.                                                             *)

\* A right click.
OpenPopup ==
  /\ CallerAt("idle") /\ popup = "none"
  /\ popup' = IF running THEN "abort" ELSE "tests"
  /\ UNCHANGED <<vars, items, menuHist>>

Dismiss ==
  /\ popup # "none" /\ pc # "crashed"
  /\ popup' = "none"
  /\ UNCHANGED <<vars, items, menuHist>>

PickTest(i) ==
  /\ popup = "tests" /\ popup' = "none"
  /\ Exec(i.ref)
  /\ wanted' = [ref |-> i.ref, gen |-> i.gen, late |-> i.late, in |-> gen]
  /\ UNCHANGED <<items, now, started, abortAt>>

AbortNow == abortAt' = [gen |-> gen, started |-> started]

PickAbort ==
  /\ popup = "abort" /\ popup' = "none"
  /\ Abort /\ AbortNow
  /\ UNCHANGED <<items, wanted, now, started>>

\* Mutant of LoadScript: the menu is not cleared.
LoadKeepsItems ==
  /\ popup = "none"
  /\ Reset
  /\ UNCHANGED <<menu, menuHist>>

\* tests_menu.clear(), then reset.
LoadScript ==
  /\ popup = "none"
  /\ Reset
  /\ items' = {}
  /\ UNCHANGED <<popup, menuHist>>

MenuResetAbort == ResetAbort /\ AbortNow /\ UNCHANGED <<menu, wanted, now, started>>

-----------------------------------------------------------------------------
(* The Lua thread.                                                         *)

\* Mutant of NewItem: the ref after the one the function got.
NextRef(r) == [ref |-> nreg + 2, gen |-> gen, late |-> InReset]

\* RefNil is not 0, so that its item passes the callback's test of v, too.
NewItem(r) == [ref |-> r, gen |-> gen, late |-> InReset]

\* register calls menu_add, which may replace an item of the same label.
RegisterItem(r) ==
  /\ RegisterRef(r)
  /\ \/ UNCHANGED items
     \/ /\ pc' # "crashed" /\ r \in offered'
        /\ \E old \in SUBSET items : /\ Cardinality(old) <= 1
                                     /\ items' = (items \ old) \cup {NewItem(r)}
  /\ UNCHANGED <<popup, menuHist>>

MenuRegister == \E r \in NewRefs : RegisterItem(r)

MenuFetch == Fetch /\ now' = wanted /\ UNCHANGED <<menu, wanted, started, abortAt>>

MenuRun == SetRunning /\ started' = started + 1 /\ UNCHANGED <<menu, wanted, now, abortAt>>

-----------------------------------------------------------------------------

MenuCaller == \/ MenuResetAbort
              \/ (FinishCtor \/ SetExec \/ SetQuit \/ Restart) /\ UNCHANGED <<menu, menuHist>>
MenuCalls  == \/ OpenPopup \/ Dismiss \/ PickAbort \/ LoadScript
              \/ \E i \in items : PickTest(i)
MenuProc   == \/ MenuRegister \/ MenuFetch \/ MenuRun
              \/ /\ \/ NewState \/ LoadDone \/ TakeQuit \/ CloseState \/ TakeExec \/ ClearExec
                    \/ Finish \/ Killed \/ ClearAbort \/ ClearRunning
                 /\ UNCHANGED <<menu, menuHist>>

MenuNext == MenuCaller \/ MenuCalls \/ MenuProc

MenuSpec == MenuInit /\ [][MenuNext]_menuVars

\* As in LuaThread.  A popup may stay open.
MenuFairSpec == MenuSpec /\ WF_menuVars(MenuCaller) /\ WF_menuVars(MenuProc)

-----------------------------------------------------------------------------
(* Properties.                                                             *)

Request == [ref : AnyRef, gen : Nat, late : BOOLEAN, in : Nat]

MenuTypeOK ==
  /\ items \subseteq [ref : Refs \cup {RefNil}, gen : Nat, late : BOOLEAN]
  /\ popup \in {"none", "abort", "tests"}
  /\ wanted \in Request /\ now \in Request
  /\ started \in Nat /\ abortAt \in [gen : Nat, started : Nat]

\* The window uses luaThread in the ways LuaThread allows, and both threads
\* stay as fair: what holds there holds under the menu.
RefinesLuaThread == FairSpec

\* An item of the menu is of the thread that runs, or it was added by the one
\* before it after Load Script had cleared the menu (main_fltk.cpp:264-265): at
\* the next Load Script it is gone.
ItemsFresh ==
  \A i \in items : i.gen = gen \/ (i.late /\ i.gen = gen - 1)

\* A function of another state than its item's is called only if the item was
\* such a late one or the request was made before the last Load Script
\* (luaThread.h:46-51 keeps execEvent and m_func).
StaleExplained ==
  pc \in {"called", "run"} /\ now.gen # gen => now.late \/ now.in # gen

\* A call of an item of the running thread is of that item's own function.  A
\* ref its state does not have, at which the program ends (luaThread.cpp:50,
\* 55-57), is called for two reasons only: the item is of another thread, or the
\* script registered a nil (luaThread.cpp:80, main_fltk.cpp:41-42).
MissingRefs ==
  pc \in {"called", "run"} =>
    /\ now.gen = gen => func = now.ref
    /\ func \notin 1 .. nreg => now.gen # gen \/ now.ref = RefNil

\* An abort ends the function that is called when it is asked for or the next
\* one, of the same thread: not one asked for later (luaThread.cpp:63).
AbortAims ==
  pc = "run" /\ lua_abort = L /\ abortAt.gen = gen => started <= abortAt.started + 1

\* Why they hold.
ItemsKnown ==
  \A i \in items : /\ i.ref \in offered
                   /\ i.gen = gen => pc # "new" /\ i.ref \in {RefNil} \cup 1 .. nreg
                   /\ InReset => i.late /\ i.gen = gen

Requests ==
  /\ m_func = wanted.ref /\ (call = "ctor" => m_func = 0)
  /\ \A w \in {wanted, now} :
       /\ w.in <= gen /\ w.gen <= gen
       /\ w.in = gen => w.gen = gen \/ w.late
       /\ w.gen = gen => pc # "new" /\ w.ref \in {RefNil} \cup 1 .. nreg
  /\ pc \in {"called", "run"} => func = now.ref

Aim ==
  /\ abortAt.gen <= gen
  /\ pc = "new" /\ abortAt.gen = gen => started <= abortAt.started
  /\ pc \in Live /\ lua_abort = L /\ abortAt.gen = gen =>
       started <= abortAt.started + IF pc \in {"run", "clear"} THEN 1 ELSE 0

MenuInv ==
  /\ LuaInv /\ MenuTypeOK /\ ItemsFresh /\ StaleExplained /\ MissingRefs /\ AbortAims
  /\ ItemsKnown /\ Requests /\ Aim
=============================================================================
