----------------------------- MODULE LuaThread -----------------------------
(***************************************************************************)
(* Class luaThread (luaThread.h, luaThread.cpp): a thread that owns a Lua  *)
(* state, loads script.lua into it and then runs, one at a time, the       *)
(* functions its caller asks for.  The caller is the window's thread; the  *)
(* two share two auto-reset events and five plain variables and no lock.   *)
(*                                                                         *)
(*   exec    stores the function and sets execEvent;                       *)
(*   abort   stores the state in lua_abort, which the thread's debug hook  *)
(*           and sleep compare with their own state;                       *)
(*   reset   aborts what runs, sets quitEvent, joins, starts a new thread. *)
(*                                                                         *)
(* A Lua state is its address, which a later state may get again.  The     *)
(* caller may call exec, abort and reset at any time; the window asks for  *)
(* functions only that were registered with it since it last cleared its   *)
(* menu, which it does right before reset (main_fltk.cpp:263-266).         *)
(***************************************************************************)
EXTENDS Integers, FiniteSets

CONSTANTS
  Addr,      \* addresses a Lua state can have
  Null,      \* nullptr
  MaxRef,    \* functions a script registers at most; their refs are 1, 2, ...
  Endless,   \* refs of functions that do not return by themselves
  MaxCalls   \* bound: calls of exec, abort and reset in a run

ASSUME LuaAssumption ==
  /\ Null \notin Addr /\ MaxRef \in Nat /\ MaxCalls \in Nat
  /\ Endless \subseteq 1 .. MaxRef

VARIABLES
  execEvent, quitEvent,  \* auto-reset events
  m_func,                \* the function exec asks for
  m_L,                   \* the state as abort knows it
  running,
  lua_abort,             \* the state whose function is to be aborted
  pc,                    \* the Lua thread
  L, hook, nreg, func,   \* its state, hook mask, functions, and the one called
  call,                  \* what the caller is in the middle of
  offered,               \* refs in the caller's menu
  gen,                   \* history: threads started
  calls,                 \* history: calls made
  unfetched,             \* history: the last exec's function was not fetched yet
  asked, killed,         \* history: aborts asked for, functions killed by one
  due,                   \* history: how often the last exec's function may be fetched
  wiped                  \* history: the constructor overwrote the first thread's m_L

events == <<execEvent, quitEvent>>
thread == <<L, hook, nreg, func>>
hist   == <<gen, calls, unfetched, asked, killed, due, wiped>>
vars   == <<events, m_func, m_L, running, lua_abort, pc, thread, call, offered, hist>>

Refs == 1 .. MaxRef

\* LUA_REFNIL, which luaL_ref returns for nil: no state has a value there.
RefNil == -1

AnyRef == {RefNil} \cup 0 .. MaxRef

\* The thread is started by luaThread's constructor before the members declared
\* after it (luaThread.h:15-22) are initialised.
Init == /\ execEvent = FALSE /\ quitEvent = FALSE
        /\ m_func = 0 /\ m_L = Null /\ running = FALSE
        /\ lua_abort = Null
        /\ pc = "new" /\ L = Null /\ hook = "count" /\ nreg = 0 /\ func = 0
        /\ call = "ctor" /\ offered = {}
        /\ gen = 1 /\ calls = 0 /\ unfetched = FALSE /\ asked = 0 /\ killed = 0
        /\ due = 0 /\ wiped = FALSE

-----------------------------------------------------------------------------
(* The caller.                                                             *)

CallerAt(at) == call = at /\ pc # "crashed"
Begin        == CallerAt("idle") /\ calls < MaxCalls /\ calls' = calls + 1

\* The rest of the constructor.
FinishCtor ==
  /\ CallerAt("ctor")
  /\ call' = "idle"
  /\ m_func' = 0 /\ m_L' = Null /\ running' = FALSE
  /\ wiped' = (pc # "new")
  /\ UNCHANGED <<events, lua_abort, pc, thread, offered, gen, calls, unfetched, asked, killed, due>>

\* The wake-ups that earlier requests have under way.
WakeUps == (IF execEvent THEN 1 ELSE 0) + (IF pc \in {"woke", "fetch"} THEN 1 ELSE 0)

\* exec: m_func = func, then SetEvent.  The function is to be fetched once for
\* this request, and once more by each wake-up of one that it overwrites.
Exec(f) ==
  /\ Begin
  /\ m_func' = f /\ call' = "exec" /\ unfetched' = TRUE /\ due' = 1 + WakeUps
  /\ UNCHANGED <<events, m_L, running, lua_abort, pc, thread, offered, gen, asked, killed, wiped>>

SetExec ==
  /\ CallerAt("exec")
  /\ execEvent' = TRUE /\ call' = "idle"
  /\ UNCHANGED <<quitEvent, m_func, m_L, running, lua_abort, pc, thread, offered, hist>>

\* Mutant of Abort: a second abort takes the first one back.
AbortToggles ==
  /\ Begin
  /\ lua_abort' = (IF lua_abort = Null THEN m_L ELSE Null) /\ asked' = asked + 1
  /\ UNCHANGED <<events, m_func, m_L, running, pc, thread, call, offered, gen, unfetched, killed, due, wiped>>

Abort ==
  /\ Begin
  /\ lua_abort' = m_L /\ asked' = asked + 1
  /\ UNCHANGED <<events, m_func, m_L, running, pc, thread, call, offered, gen, unfetched, killed, due, wiped>>

\* Load Script: the menu is cleared, then reset tests running.
Reset ==
  /\ Begin
  /\ offered' = {}
  /\ call' = IF running THEN "abort" ELSE "quit"
  /\ UNCHANGED <<events, m_func, m_L, running, lua_abort, pc, thread, gen, unfetched, asked, killed, due, wiped>>

ResetAbort ==
  /\ CallerAt("abort")
  /\ lua_abort' = m_L /\ asked' = asked + 1 /\ call' = "quit"
  /\ UNCHANGED <<events, m_func, m_L, running, pc, thread, offered, gen, calls, unfetched, killed, due, wiped>>

\* Mutant of SetQuit: PulseEvent, which a thread that is not waiting misses.
PulseQuit ==
  /\ CallerAt("quit")
  /\ quitEvent' = (pc = "wait") /\ call' = "join"
  /\ UNCHANGED <<execEvent, m_func, m_L, running, lua_abort, pc, thread, offered, hist>>

SetQuit ==
  /\ CallerAt("quit")
  /\ quitEvent' = TRUE /\ call' = "join"
  /\ UNCHANGED <<execEvent, m_func, m_L, running, lua_abort, pc, thread, offered, hist>>

\* Mutant of Restart: both events are reset for the new thread.
RestartClean ==
  /\ CallerAt("join") /\ pc = "exited"
  /\ quitEvent' = FALSE /\ execEvent' = FALSE
  /\ call' = "idle" /\ pc' = "new" /\ gen' = gen + 1
  /\ UNCHANGED <<m_func, m_L, running, lua_abort, thread, offered, calls, unfetched, asked, killed, due, wiped>>

\* join returns when the thread has; a new one is started.
Restart ==
  /\ CallerAt("join") /\ pc = "exited"
  /\ quitEvent' = FALSE
  /\ call' = "idle" /\ pc' = "new" /\ gen' = gen + 1
  /\ UNCHANGED <<execEvent, m_func, m_L, running, lua_abort, thread, offered, calls, unfetched, asked, killed, due, wiped>>

-----------------------------------------------------------------------------
(* The Lua thread: proc.                                                   *)

\* Mutant of NewState: the state is a local of proc only.
NewStateLocal ==
  /\ pc = "new"
  /\ \E a \in Addr : L' = a
  /\ hook' = "count" /\ nreg' = 0 /\ pc' = "load"
  /\ UNCHANGED <<events, m_func, m_L, running, lua_abort, func, call, offered, hist>>

\* A state is made, its library and hook installed.
NewState ==
  /\ pc = "new"
  /\ \E a \in Addr : L' = a /\ m_L' = a
  /\ hook' = "count" /\ nreg' = 0 /\ pc' = "load"
  /\ UNCHANGED <<events, m_func, running, lua_abort, func, call, offered, hist>>

\* The script, or a function of it, calls register: luaL_ref keeps the function
\* under the next ref r, or gives RefNil for a nil, such as a name misspelt.
\* Either goes through delMenuAdd, constructed by the constructor after the
\* thread was started, and to the menu, unless its name is no string.
RegisterRef(r) ==
  /\ pc \in {"load", "run"}
  /\ nreg' = IF r = RefNil THEN nreg ELSE r
  /\ IF call = "ctor"
     THEN pc' = "crashed" /\ UNCHANGED offered
     ELSE offered' \in {offered, offered \cup {r}} /\ UNCHANGED pc
  /\ UNCHANGED <<events, m_func, m_L, running, lua_abort, L, hook, func, call, hist>>

NewRefs  == {RefNil} \cup ({nreg + 1} \cap Refs)
Register == \E r \in NewRefs : RegisterRef(r)

\* luaL_dofile returns; an error of the script is printed and nothing else, one
\* that the hook raised for lua_abort included.
LoadDone ==
  /\ pc = "load" /\ pc' = "wait"
  /\ hook' \in {hook} \cup (IF lua_abort = L THEN {"line"} ELSE {})
  /\ UNCHANGED <<events, m_func, m_L, running, lua_abort, L, nreg, func, call, offered, hist>>

\* WaitForMultipleObjects: of two set events it takes, and resets, the first.
TakeQuit ==
  /\ pc = "wait" /\ quitEvent
  /\ quitEvent' = FALSE /\ pc' = "close"
  /\ UNCHANGED <<execEvent, m_func, m_L, running, lua_abort, thread, call, offered, hist>>

\* Mutant of TakeExec: execEvent comes first in the array.
TakeExecFirst ==
  /\ pc = "wait" /\ execEvent
  /\ execEvent' = FALSE /\ pc' = "woke"
  /\ UNCHANGED <<quitEvent, m_func, m_L, running, lua_abort, thread, call, offered, hist>>

TakeExec ==
  /\ pc = "wait" /\ execEvent /\ ~ quitEvent
  /\ execEvent' = FALSE /\ pc' = "woke"
  /\ UNCHANGED <<quitEvent, m_func, m_L, running, lua_abort, thread, call, offered, hist>>

CloseState ==
  /\ pc = "close"
  /\ L' = Null /\ pc' = "exited"
  /\ UNCHANGED <<events, m_func, m_L, running, lua_abort, hook, nreg, func, call, offered, hist>>

\* Mutant of ClearExec: SetEvent.
ClearExecSets ==
  /\ pc = "woke" /\ pc' = "fetch"
  /\ execEvent' = TRUE
  /\ UNCHANGED <<quitEvent, m_func, m_L, running, lua_abort, thread, call, offered, hist>>

\* ResetEvent(execEvent), although the wait has reset it.
ClearExec ==
  /\ pc = "woke" /\ pc' = "fetch"
  /\ execEvent' = FALSE
  /\ UNCHANGED <<quitEvent, m_func, m_L, running, lua_abort, thread, call, offered, hist>>

\* lua_rawgeti of m_func.
Fetch ==
  /\ pc = "fetch" /\ pc' = "called"
  /\ func' = m_func /\ unfetched' = FALSE /\ due' = due - 1
  /\ UNCHANGED <<events, m_func, m_L, running, lua_abort, L, hook, nreg, call, offered,
                 gen, calls, asked, killed, wiped>>

\* Mutant of SetRunning: the event is reset after m_func was read.
SetRunningClears ==
  /\ pc = "called" /\ pc' = "run"
  /\ running' = TRUE /\ execEvent' = FALSE
  /\ UNCHANGED <<quitEvent, m_func, m_L, lua_abort, thread, call, offered, hist>>

SetRunning ==
  /\ pc = "called" /\ pc' = "run"
  /\ running' = TRUE
  /\ UNCHANGED <<events, m_func, m_L, lua_abort, thread, call, offered, hist>>

\* lua_pcall returns.  An error is searched for the colons of the position that
\* Lua puts before a message when Lua code is at its origin; a message without
\* them (strchr(strchr(err, ':') + 1, ':')) is the end of the program.
Reported == {"clear", "crashed"}

\* The function returned, or failed by itself; a ref the state does not have is
\* nil, and calling nil an error without a position.
Finish ==
  /\ pc = "run"
  /\ IF func \in 1 .. nreg THEN func \notin Endless /\ pc' \in Reported
                           ELSE pc' = "crashed"
  /\ UNCHANGED <<events, m_func, m_L, running, lua_abort, thread, call, offered, hist>>

\* Mutant of Killed: sleep tests lua_abort, the hook is not installed.
KilledAsleep ==
  /\ pc = "run" /\ lua_abort = L /\ func \in (1 .. nreg) \ Endless
  /\ pc' \in Reported
  /\ killed' = killed + 1
  /\ UNCHANGED <<events, m_func, m_L, running, lua_abort, thread, call, offered,
                 gen, calls, unfetched, asked, due, wiped>>

\* The hook, or sleep, raises "abort": without a position when the function
\* itself is interrupted, with one in what it calls.  The hook replaces itself
\* by one for every line.
Killed ==
  /\ pc = "run" /\ lua_abort = L /\ func \in 1 .. nreg
  /\ pc' \in Reported
  /\ killed' = killed + 1
  /\ hook' \in {hook, "line"}
  /\ UNCHANGED <<events, m_func, m_L, running, lua_abort, L, nreg, func, call, offered,
                 gen, calls, unfetched, asked, due, wiped>>

\* Mutant of ClearAbort: the request stays.
KeepAbort ==
  /\ pc = "clear" /\ pc' = "stop"
  /\ UNCHANGED <<events, m_func, m_L, running, lua_abort, thread, call, offered, hist>>

ClearAbort ==
  /\ pc = "clear" /\ pc' = "stop"
  /\ lua_abort' = IF lua_abort = L THEN Null ELSE lua_abort
  /\ UNCHANGED <<events, m_func, m_L, running, thread, call, offered, hist>>

\* Mutant of ClearRunning: running is left set.
KeepRunning ==
  /\ pc = "stop" /\ pc' = "wait"
  /\ UNCHANGED <<events, m_func, m_L, running, lua_abort, thread, call, offered, hist>>

ClearRunning ==
  /\ pc = "stop" /\ pc' = "wait"
  /\ running' = FALSE
  /\ UNCHANGED <<events, m_func, m_L, lua_abort, thread, call, offered, hist>>

-----------------------------------------------------------------------------

Caller == \/ FinishCtor \/ SetExec \/ ResetAbort \/ SetQuit \/ Restart
Calls  == (\E f \in offered : Exec(f)) \/ Abort \/ Reset
Proc   == \/ NewState \/ Register \/ LoadDone
          \/ TakeQuit \/ CloseState
          \/ TakeExec \/ ClearExec \/ Fetch \/ SetRunning
          \/ Finish \/ Killed \/ ClearAbort \/ ClearRunning

Next == Caller \/ Calls \/ Proc

Spec == Init /\ [][Next]_vars

\* Both threads are scheduled; nobody need call anything.  That a call which
\* does not end by itself is ended by nothing but Killed is in Finish.
FairSpec == Spec /\ WF_vars(Caller) /\ WF_vars(Proc)

-----------------------------------------------------------------------------
(* Properties.                                                             *)

Live == {"load", "wait", "woke", "fetch", "called", "run", "clear", "stop", "close"}

TypeOK ==
  /\ execEvent \in BOOLEAN /\ quitEvent \in BOOLEAN
  /\ m_func \in AnyRef /\ func \in AnyRef /\ nreg \in 0 .. MaxRef
  /\ m_L \in Addr \cup {Null} /\ L \in Addr \cup {Null} /\ lua_abort \in Addr \cup {Null}
  /\ running \in BOOLEAN /\ unfetched \in BOOLEAN
  /\ pc \in Live \cup {"new", "exited", "crashed"}
  /\ hook \in {"count", "line"}
  /\ call \in {"ctor", "idle", "exec", "abort", "quit", "join"}
  /\ offered \subseteq Refs \cup {RefNil}
  /\ gen \in Nat \ {0} /\ calls \in Nat /\ asked \in Nat /\ killed \in Nat
  /\ due \in Int /\ wiped \in BOOLEAN

\* A function asked for and not yet fetched has a wake-up under way, whatever
\* the thread does with the one before it and however often it is restarted:
\* the thread resets the event before it reads m_func (luaThread.cpp:49-50).
NoLostRequest ==
  unfetched => call = "exec" \/ execEvent \/ pc \in {"woke", "fetch"}

\* A request has its function called once, and once more for every request it
\* overwrote whose wake-up was still under way; nothing else calls a function.
\* m_func is stored before the event is set (luaThread.h:40-41), so that such a
\* wake-up may fetch the new function before the new one does.
FetchedAsAsked == due >= 0

\* Why: every wake-up under way is one of those.
WakeUpsDue == due >= WakeUps + IF call = "exec" THEN 1 ELSE 0

\* An abort request kills at most one function: it is withdrawn when the
\* function it hit has ended, and no later state that happens to be at the
\* same address finds it again (luaThread.cpp:63).
AbortKillsOne == killed <= asked

\* abort names the state whose functions run, and always the new one after a
\* reset.  The one way to lose it is the constructor's m_L(nullptr) when the
\* first thread had stored its state before (luaThread.h:29-31): all aborts
\* until the next reset then name nothing.
AbortNamesState ==
  pc \in Live => m_L = L \/ (m_L = Null /\ gen = 1 /\ wiped)

\* running tells the window whether a function is in a call: it is set during
\* every call and clear outside, also when a reset had to abort one.
RunningTold ==
  /\ pc \in {"run", "clear", "stop"} => running
  /\ pc \in {"new", "load", "wait", "woke", "fetch", "called", "close", "exited"} => ~ running

\* While something is to be aborted more aborts were asked for than done.
AbortsCounted ==
  lua_abort # Null => \/ killed < asked
                      \/ pc \in {"clear", "crashed"} /\ lua_abort = L

\* Nothing was asked for before the constructor returns.
CtorFirst ==
  call = "ctor" => /\ pc \notin {"woke", "fetch", "called", "run", "clear", "stop"}
                   /\ gen = 1 /\ offered = {} /\ ~ running
                   /\ ~ unfetched /\ ~ execEvent /\ due = 0

\* Why the safety properties hold, as one inductive invariant.
LuaInv == /\ TypeOK /\ NoLostRequest /\ FetchedAsAsked /\ WakeUpsDue /\ AbortKillsOne /\ AbortNamesState
          /\ RunningTold /\ AbortsCounted /\ CtorFirst
          /\ pc \in Live => L # Null

\* The last function asked for is called in the end, if functions return.
RequestServed == unfetched ~> (~ unfetched \/ pc = "crashed")

\* reset, on which the window waits, ends if functions return.
ResetEnds == (call = "join") ~> (call = "idle" \/ pc = "crashed")

\* A function that would run forever is ended by an abort that names its state.
AbortEnds == (pc = "run" /\ lua_abort = L /\ func \in 1 .. nreg) ~> (pc # "run")

\* reset, on which the window waits, ends also if functions do not return,
\* unless one was fetched that reset did not see running (luaThread.h:47) or
\* abort does not name.
Unseen == pc \in {"woke", "fetch", "called"} \/ (pc = "run" /\ lua_abort # L)

SeenResetEnds == (call = "join" /\ ~ Unseen) ~> (call = "idle" \/ pc = "crashed")

\* Of the safety behind these four.  The thread that reset joins has its quit
\* event set, or took it, and no other thread ends: reset never waits for a
\* thread that waits, and the window never has one that is gone.
QuitTold ==
  /\ call = "join" => (quitEvent <=> pc \notin {"close", "exited"})
  /\ call # "join" => ~ quitEvent /\ pc \notin {"close", "exited"}

\* An abort of the first thread named its state or, too early, none.
AbortKnown ==
  /\ call = "ctor" => lua_abort = Null
  /\ gen = 1 /\ pc = "new" => m_L = Null
  /\ gen = 1 => lua_abort \in {Null, m_L}

\* Once a function is to be aborted that stands until it ends: no second abort,
\* nor a reset, withdraws or redirects it (luaThread.h:42-49).
AbortStands ==
  [][pc = "run" /\ lua_abort = L /\ pc' = "run" => lua_abort' = L']_vars

\* How many steps the thread is from its exit at most, a quit event being set.
ExitStage == [crashed |-> 0, exited |-> 1, close |-> 2, wait |-> 3, stop |-> 4, clear |-> 5,
              run |-> 6, called |-> 7, fetch |-> 8, woke |-> 9, load |-> 10, new |-> 11]

\* While reset joins, every step but a registration brings the thread closer to
\* its exit (luaThread.h:46-51).
ResetNears ==
  [][call = "join" /\ call' = "join" => Register \/ ExitStage[pc'] < ExitStage[pc]]_vars

\* How many it is from fetching, and the caller from the end of its call.
FetchStage == [crashed |-> 0, fetch |-> 1, woke |-> 2, wait |-> 3, stop |-> 4, clear |-> 5,
               run |-> 6, called |-> 7, load |-> 4, new |-> 5, close |-> 0, exited |-> 0]
CallStage  == [idle |-> 0, ctor |-> 1, exec |-> 1, join |-> 1, quit |-> 2, abort |-> 3]
RequestStage == 12 * CallStage[call] + IF call = "join" THEN ExitStage[pc] ELSE FetchStage[pc]

\* While a function asked for is not fetched, every step that is no new call and
\* no registration brings the thread closer to fetching it, through a reset too:
\* the new thread finds the request of the old one (luaThread.cpp:49-50).
RequestNears ==
  [][unfetched /\ unfetched' => Calls \/ Register \/ RequestStage' < RequestStage]_vars

\* "Run Hook every 100 instructions" (luaThread.cpp:36).
HookByCount == pc = "run" => hook = "count"
=============================================================================
