--------------------------- MODULE TestMenuProofs ---------------------------
(***************************************************************************)
(* For any number of calls, functions and addresses: no request to run a   *)
(* function is lost, an abort kills at most one function, and abort names  *)
(* the state whose functions run; requests and resets get closer to their  *)
(* end with every step.  For any number of menu items, too: the window     *)
(* uses luaThread as LuaThread allows, and a function is called in another *)
(* state than its item's only in the two cases StaleExplained names.       *)
(***************************************************************************)
EXTENDS TestMenu, TLAPS

-----------------------------------------------------------------------------
(* luaThread.                                                              *)

LEMMA Constants ==
  /\ Null \notin Addr /\ MaxRef \in Nat /\ Refs = 1 .. MaxRef
BY LuaAssumption DEF LuaAssumption, Refs

LEMMA InitLua == Init => LuaInv
<1> SUFFICES ASSUME Init PROVE LuaInv
  OBVIOUS
<1> USE Constants DEF Init, Live
<1>1. TypeOK
  <2>1. execEvent \in BOOLEAN /\ quitEvent \in BOOLEAN /\ running \in BOOLEAN
        /\ unfetched \in BOOLEAN /\ wiped \in BOOLEAN
    OBVIOUS
  <2>2. m_func \in AnyRef /\ func \in AnyRef /\ nreg \in 0 .. MaxRef
        /\ gen \in Nat \ {0} /\ calls \in Nat /\ asked \in Nat /\ killed \in Nat /\ due \in Int
    BY DEF AnyRef
  <2> QED
    BY <2>1, <2>2, Zenon DEF TypeOK
<1>2. NoLostRequest /\ FetchedAsAsked /\ WakeUpsDue /\ AbortKillsOne /\ AbortNamesState
  BY DEF NoLostRequest, FetchedAsAsked, WakeUpsDue, WakeUps, AbortKillsOne, AbortNamesState
<1>3. RunningTold /\ AbortsCounted /\ CtorFirst
  BY DEF RunningTold, AbortsCounted, CtorFirst
<1> QED
  BY <1>1, <1>2, <1>3 DEF LuaInv

\* The steps in which the caller finishes what it began.
LEMMA CallerLua == LuaInv /\ Caller => LuaInv'
<1> SUFFICES ASSUME LuaInv, Caller PROVE LuaInv'
  OBVIOUS
<1> USE Constants DEF LuaInv, TypeOK, NoLostRequest, FetchedAsAsked, WakeUpsDue,
       AbortKillsOne, AbortNamesState, RunningTold, AbortsCounted, CtorFirst, Live,
       events, thread, hist, CallerAt, Begin, Reported, WakeUps, AnyRef
<1>1. CASE FinishCtor
  <2>1. TypeOK'
    <3>1. m_func' \in AnyRef
      BY <1>1 DEF FinishCtor
    <3>2. running' \in BOOLEAN /\ m_L' \in Addr \cup {Null}
      BY <1>1, Zenon DEF FinishCtor
    <3>3. call' \in {"ctor", "idle", "exec", "abort", "quit", "join"}
      BY <1>1 DEF FinishCtor
    <3> QED
      BY <1>1, <3>1, <3>2, <3>3, Zenon DEF FinishCtor
  <2>2. NoLostRequest'
    BY <1>1 DEF FinishCtor
  <2>3. AbortKillsOne'
    BY <1>1 DEF FinishCtor
  <2>4. AbortNamesState'
    BY <1>1 DEF FinishCtor
  <2>5. RunningTold'
    BY <1>1 DEF FinishCtor
  <2>6. AbortsCounted'
    BY <1>1 DEF FinishCtor
  <2>7. CtorFirst'
    BY <1>1 DEF FinishCtor
  <2>8. (pc \in Live => L # Null)'
    BY <1>1 DEF FinishCtor
  <2>9. FetchedAsAsked' /\ WakeUpsDue'
    BY <1>1 DEF FinishCtor
  <2> QED
    BY <2>1, <2>2, <2>3, <2>4, <2>5, <2>6, <2>7, <2>8, <2>9
<1>2. CASE SetExec
  BY <1>2 DEF SetExec
<1>3. CASE ResetAbort
  BY <1>3 DEF ResetAbort
<1>4. CASE SetQuit
  BY <1>4 DEF SetQuit
<1>5. CASE Restart
  <2>1. TypeOK'
    <3>1. gen' \in Nat \ {0}
      BY <1>5 DEF Restart
    <3>2. quitEvent' \in BOOLEAN
      BY <1>5, Zenon DEF Restart
    <3>3. /\ call' \in {"ctor", "idle", "exec", "abort", "quit", "join"}
          /\ pc' \in Live \cup {"new", "exited", "crashed"}
      BY <1>5 DEF Restart
    <3> QED
      BY <1>5, <3>1, <3>2, <3>3, Zenon DEF Restart
  <2>2. NoLostRequest'
    BY <1>5 DEF Restart
  <2>3. AbortKillsOne'
    BY <1>5 DEF Restart
  <2>4. AbortNamesState'
    BY <1>5 DEF Restart
  <2>5. RunningTold'
    BY <1>5 DEF Restart
  <2>6. AbortsCounted'
    BY <1>5 DEF Restart
  <2>7. CtorFirst'
    BY <1>5 DEF Restart
  <2>8. (pc \in Live => L # Null)'
    BY <1>5 DEF Restart
  <2>9. FetchedAsAsked' /\ WakeUpsDue'
    BY <1>5 DEF Restart
  <2> QED
    BY <2>1, <2>2, <2>3, <2>4, <2>5, <2>6, <2>7, <2>8, <2>9
<1> QED
  BY <1>1, <1>2, <1>3, <1>4, <1>5 DEF Caller

\* The calls of exec, abort and reset.
LEMMA CallsLua == LuaInv /\ Calls => LuaInv'
<1> SUFFICES ASSUME LuaInv, Calls PROVE LuaInv'
  OBVIOUS
<1> USE Constants DEF LuaInv, TypeOK, NoLostRequest, FetchedAsAsked, WakeUpsDue,
       AbortKillsOne, AbortNamesState, RunningTold, AbortsCounted, CtorFirst, Live,
       events, thread, hist, CallerAt, Begin, Reported, WakeUps, AnyRef
<1>1. CASE \E f \in offered : Exec(f)
  BY <1>1 DEF Exec
<1>2. CASE Abort
  BY <1>2 DEF Abort
<1>3. CASE Reset
  BY <1>3 DEF Reset
<1> QED
  BY <1>1, <1>2, <1>3 DEF Calls

\* The steps of the Lua thread.
LEMMA ProcLua == LuaInv /\ Proc => LuaInv'
<1> SUFFICES ASSUME LuaInv, Proc PROVE LuaInv'
  OBVIOUS
<1> USE Constants DEF LuaInv, TypeOK, NoLostRequest, FetchedAsAsked, WakeUpsDue,
       AbortKillsOne, AbortNamesState, RunningTold, AbortsCounted, CtorFirst, Live,
       events, thread, hist, CallerAt, Begin, Reported, WakeUps, AnyRef
<1>1. CASE NewState
  BY <1>1 DEF NewState
<1>2. CASE Register
  <2>0. PICK r \in NewRefs : RegisterRef(r)
    BY <1>2 DEF Register
  <2>1. TypeOK'
    <3>1. r \in Refs \cup {RefNil} /\ nreg' \in 0 .. MaxRef
      BY <2>0 DEF RegisterRef, NewRefs
    <3>2. offered' \subseteq Refs \cup {RefNil}
      BY <2>0, <3>1, Zenon DEF RegisterRef
    <3>3. pc' \in Live \cup {"new", "exited", "crashed"}
      BY <2>0 DEF RegisterRef
    <3>4. /\ execEvent' = execEvent /\ quitEvent' = quitEvent /\ m_func' = m_func
          /\ m_L' = m_L /\ running' = running /\ lua_abort' = lua_abort
          /\ L' = L /\ hook' = hook /\ func' = func /\ call' = call
          /\ gen' = gen /\ calls' = calls /\ unfetched' = unfetched /\ asked' = asked
          /\ killed' = killed /\ due' = due /\ wiped' = wiped
      BY <2>0 DEF RegisterRef
    <3>5. nreg' \in 0 .. MaxRef
      BY <3>1
    <3>6. /\ execEvent' \in BOOLEAN /\ quitEvent' \in BOOLEAN /\ running' \in BOOLEAN
          /\ unfetched' \in BOOLEAN /\ wiped' \in BOOLEAN
      BY <3>4, Zenon
    <3>7. /\ m_func' \in AnyRef /\ func' \in AnyRef
          /\ m_L' \in Addr \cup {Null} /\ L' \in Addr \cup {Null} /\ lua_abort' \in Addr \cup {Null}
          /\ hook' \in {"count", "line"} /\ call' \in {"ctor", "idle", "exec", "abort", "quit", "join"}
          /\ gen' \in Nat \ {0} /\ calls' \in Nat /\ asked' \in Nat /\ killed' \in Nat /\ due' \in Int
      BY <3>4
    <3> HIDE DEF LuaInv, Live, AnyRef
    <3> QED
      BY <3>2, <3>3, <3>5, <3>6, <3>7, Zenon
  <2>2. NoLostRequest'
    BY <2>0 DEF RegisterRef
  <2>3. AbortKillsOne'
    BY <2>0 DEF RegisterRef
  <2>4. AbortNamesState'
    BY <2>0 DEF RegisterRef
  <2>5. RunningTold'
    BY <2>0 DEF RegisterRef
  <2>6. AbortsCounted'
    BY <2>0 DEF RegisterRef
  <2>7. CtorFirst'
    BY <2>0 DEF RegisterRef
  <2>8. (pc \in Live => L # Null)'
    BY <2>0 DEF RegisterRef
  <2>9. FetchedAsAsked' /\ WakeUpsDue'
    BY <2>0 DEF RegisterRef
  <2> QED
    BY <2>1, <2>2, <2>3, <2>4, <2>5, <2>6, <2>7, <2>8, <2>9
<1>3. CASE LoadDone
  BY <1>3 DEF LoadDone
<1>4. CASE TakeQuit
  <2>1. TypeOK'
    BY <1>4, Zenon DEF TakeQuit
  <2>2. NoLostRequest' /\ AbortKillsOne' /\ AbortNamesState'
    BY <1>4 DEF TakeQuit
  <2>3. RunningTold' /\ AbortsCounted' /\ CtorFirst'
    BY <1>4 DEF TakeQuit
  <2>4. (pc \in Live => L # Null)'
    BY <1>4 DEF TakeQuit
  <2>5. FetchedAsAsked' /\ WakeUpsDue'
    BY <1>4 DEF TakeQuit
  <2> QED
    BY <2>1, <2>2, <2>3, <2>4, <2>5
<1>5. CASE CloseState
  BY <1>5 DEF CloseState
<1>6. CASE TakeExec
  <2>1. TypeOK'
    BY <1>6, Zenon DEF TakeExec
  <2>2. NoLostRequest' /\ AbortKillsOne' /\ AbortNamesState'
    BY <1>6 DEF TakeExec
  <2>3. RunningTold' /\ AbortsCounted' /\ CtorFirst'
    BY <1>6 DEF TakeExec
  <2>4. (pc \in Live => L # Null)'
    BY <1>6 DEF TakeExec
  <2>5. FetchedAsAsked' /\ WakeUpsDue'
    BY <1>6 DEF TakeExec
  <2> QED
    BY <2>1, <2>2, <2>3, <2>4, <2>5
<1>7. CASE ClearExec
  <2>1. TypeOK'
    BY <1>7, Zenon DEF ClearExec
  <2>2. NoLostRequest' /\ AbortKillsOne' /\ AbortNamesState'
    BY <1>7 DEF ClearExec
  <2>3. RunningTold' /\ AbortsCounted' /\ CtorFirst'
    BY <1>7 DEF ClearExec
  <2>4. (pc \in Live => L # Null)'
    BY <1>7 DEF ClearExec
  <2>5. FetchedAsAsked' /\ WakeUpsDue'
    BY <1>7 DEF ClearExec
  <2> QED
    BY <2>1, <2>2, <2>3, <2>4, <2>5
<1>8. CASE Fetch
  <2>1. unfetched' = FALSE /\ unfetched' \in BOOLEAN
    BY <1>8, Zenon DEF Fetch
  <2>2. due >= 1 /\ due' = due - 1
    BY <1>8 DEF Fetch
  <2> QED
    BY <1>8, <2>1, <2>2 DEF Fetch
<1>9. CASE SetRunning
  <2>1. TypeOK'
    BY <1>9 DEF SetRunning
  <2>2. NoLostRequest'
    BY <1>9 DEF SetRunning
  <2>3. AbortKillsOne'
    BY <1>9 DEF SetRunning
  <2>4. AbortNamesState'
    BY <1>9 DEF SetRunning
  <2>5. RunningTold'
    BY <1>9 DEF SetRunning
  <2>6. AbortsCounted'
    BY <1>9 DEF SetRunning
  <2>7. CtorFirst'
    BY <1>9 DEF SetRunning
  <2>8. (pc \in Live => L # Null)'
    BY <1>9 DEF SetRunning
  <2>9. FetchedAsAsked' /\ WakeUpsDue'
    BY <1>9 DEF SetRunning
  <2> QED
    BY <2>1, <2>2, <2>3, <2>4, <2>5, <2>6, <2>7, <2>8, <2>9
<1>10. CASE Finish
  BY <1>10 DEF Finish
<1>11. CASE Killed
  BY <1>11 DEF Killed
<1>12. CASE ClearAbort
  BY <1>12 DEF ClearAbort
<1>13. CASE ClearRunning
  <2>1. TypeOK'
    BY <1>13, Zenon DEF ClearRunning
  <2>2. NoLostRequest' /\ AbortKillsOne' /\ AbortNamesState'
    BY <1>13 DEF ClearRunning
  <2>3. RunningTold' /\ AbortsCounted' /\ CtorFirst'
    BY <1>13 DEF ClearRunning
  <2>4. (pc \in Live => L # Null)'
    BY <1>13 DEF ClearRunning
  <2>5. FetchedAsAsked' /\ WakeUpsDue'
    BY <1>13 DEF ClearRunning
  <2> QED
    BY <2>1, <2>2, <2>3, <2>4, <2>5
<1> QED
  BY <1>1, <1>2, <1>3, <1>4, <1>5, <1>6, <1>7, <1>8, <1>9, <1>10, <1>11, <1>12, <1>13 DEF Proc

-----------------------------------------------------------------------------
LEMMA StepLua == LuaInv /\ [Next]_vars => LuaInv'
<1>1. ASSUME LuaInv, UNCHANGED vars PROVE LuaInv'
  <2> USE <1>1 DEF vars, events, thread, hist, LuaInv
  <2>0. /\ execEvent' = execEvent /\ quitEvent' = quitEvent /\ m_func' = m_func
        /\ m_L' = m_L /\ running' = running /\ lua_abort' = lua_abort /\ pc' = pc
        /\ L' = L /\ hook' = hook /\ nreg' = nreg /\ func' = func /\ call' = call
        /\ offered' = offered /\ gen' = gen /\ calls' = calls /\ unfetched' = unfetched
        /\ asked' = asked /\ killed' = killed /\ due' = due /\ wiped' = wiped
    OBVIOUS
  <2>1. TypeOK'
    BY <2>0, Zenon DEF TypeOK
  <2>2. NoLostRequest' /\ FetchedAsAsked' /\ WakeUpsDue' /\ AbortKillsOne' /\ AbortNamesState'
    BY DEF NoLostRequest, FetchedAsAsked, WakeUpsDue, WakeUps, AbortKillsOne, AbortNamesState
  <2>3. RunningTold' /\ AbortsCounted' /\ CtorFirst' /\ (pc \in Live => L # Null)'
    BY DEF RunningTold, AbortsCounted, CtorFirst, Live
  <2> QED
    BY <2>1, <2>2, <2>3
<1> QED
  BY <1>1, CallerLua, CallsLua, ProcLua DEF Next

\* The invariant of the thread and its caller holds in every run.
THEOREM LuaInvariant == Spec => []LuaInv
BY InitLua, StepLua, PTL DEF Spec

\* A function asked for and not yet fetched has a wake-up under way.
THEOREM NoRequestLost == Spec => []NoLostRequest
BY LuaInvariant, PTL DEF LuaInv

\* A function is called once for its request, and once more for every request
\* it overwrote whose wake-up was under way.
THEOREM FetchesAsked == Spec => []FetchedAsAsked
BY LuaInvariant, PTL DEF LuaInv

\* An abort request kills at most one function.
THEOREM AbortsKillOne == Spec => []AbortKillsOne
BY LuaInvariant, PTL DEF LuaInv

\* abort names the state whose functions run, the first thread's race with the
\* constructor excepted.
THEOREM AbortNames == Spec => []AbortNamesState
BY LuaInvariant, PTL DEF LuaInv

\* running is set during every call of a function and clear outside.
THEOREM RunningIsTold == Spec => []RunningTold
BY LuaInvariant, PTL DEF LuaInv

-----------------------------------------------------------------------------
(* How far luaThread is from the end of what it was asked.                 *)

LEMMA InitEnds == Init => QuitTold /\ AbortKnown
BY Constants DEF Init, QuitTold, AbortKnown

\* Only the thread that is joined is told to end.
LEMMA QuitStep == LuaInv /\ QuitTold /\ [Next]_vars => QuitTold'
<1> SUFFICES ASSUME LuaInv, QuitTold, [Next]_vars PROVE QuitTold'
  OBVIOUS
<1> USE DEF QuitTold, CallerAt, Begin, events, thread, hist
<1>0. CtorFirst /\ quitEvent \in BOOLEAN
  BY DEF LuaInv, TypeOK
<1>1. CASE Caller
  <2>1. CASE FinishCtor
    BY <2>1 DEF FinishCtor
  <2>2. CASE SetExec
    BY <2>2 DEF SetExec
  <2>3. CASE ResetAbort
    BY <2>3 DEF ResetAbort
  <2>4. CASE SetQuit
    BY <2>4 DEF SetQuit
  <2>5. CASE Restart
    BY <2>5 DEF Restart
  <2> QED
    BY <1>1, <2>1, <2>2, <2>3, <2>4, <2>5 DEF Caller
<1>2. CASE Calls
  <2>1. UNCHANGED <<quitEvent, pc>> /\ call = "idle" /\ call' # "join"
    BY <1>2 DEF Calls, Exec, Abort, Reset
  <2> QED
    BY <2>1
<1>3. CASE Proc
  <2>1. CASE TakeQuit
    BY <2>1 DEF TakeQuit
  <2>2. CASE CloseState
    BY <2>2 DEF CloseState
  <2>3. CASE Register
    BY <1>0, <2>3 DEF Register, RegisterRef, CtorFirst
  <2>4. CASE Finish \/ Killed
    BY <2>4 DEF Finish, Killed, Reported
  <2>5. CASE \/ NewState \/ LoadDone \/ TakeExec \/ ClearExec \/ Fetch \/ SetRunning
             \/ ClearAbort \/ ClearRunning
    BY <2>5 DEF NewState, LoadDone, TakeExec, ClearExec, Fetch, SetRunning, ClearAbort,
       ClearRunning
  <2> QED
    BY <1>3, <2>1, <2>2, <2>3, <2>4, <2>5 DEF Proc
<1>4. CASE UNCHANGED vars
  BY <1>4 DEF vars
<1> QED
  BY <1>1, <1>2, <1>3, <1>4 DEF Next

LEMMA AbortStep == LuaInv /\ AbortKnown /\ [Next]_vars => AbortKnown'
<1> SUFFICES ASSUME LuaInv, AbortKnown, [Next]_vars PROVE AbortKnown'
  OBVIOUS
<1> USE DEF AbortKnown, CallerAt, Begin, events, thread, hist
<1>0. CtorFirst /\ gen \in Nat \ {0}
  BY DEF LuaInv, TypeOK
<1>1. CASE Caller
  <2>1. CASE FinishCtor
    BY <2>1 DEF FinishCtor
  <2>2. CASE SetExec
    BY <2>2 DEF SetExec
  <2>3. CASE ResetAbort
    BY <2>3 DEF ResetAbort
  <2>4. CASE SetQuit
    BY <2>4 DEF SetQuit
  <2>5. CASE Restart
    <3>1. gen' # 1 /\ call' = "idle"
      BY <1>0, <2>5 DEF Restart
    <3> QED
      BY <3>1
  <2> QED
    BY <1>1, <2>1, <2>2, <2>3, <2>4, <2>5 DEF Caller
<1>2. CASE Calls
  <2>1. UNCHANGED <<pc, gen, m_L>> /\ call = "idle" /\ call' # "ctor" /\ lua_abort' \in {lua_abort, m_L}
    BY <1>2 DEF Calls, Exec, Abort, Reset
  <2> QED
    BY <2>1
<1>3. CASE Proc
  <2>1. CASE NewState
    BY <2>1 DEF NewState
  <2>2. CASE ClearAbort
    BY <2>2 DEF ClearAbort
  <2>3. CASE \/ Register \/ LoadDone \/ TakeQuit \/ CloseState \/ TakeExec \/ ClearExec \/ Fetch
             \/ SetRunning \/ Finish \/ Killed \/ ClearRunning
    <3>1. UNCHANGED <<gen, m_L, lua_abort, call>> /\ pc' # "new"
      BY <2>3 DEF Register, RegisterRef, LoadDone, TakeQuit, CloseState, TakeExec, ClearExec, Fetch,
         SetRunning, Finish, Killed, ClearRunning, Reported
    <3> QED
      BY <3>1
  <2> QED
    BY <1>3, <2>1, <2>2, <2>3 DEF Proc
<1>4. CASE UNCHANGED vars
  BY <1>4 DEF vars
<1> QED
  BY <1>1, <1>2, <1>3, <1>4 DEF Next

\* The thread that reset joins has been told to end, and no other one is.
THEOREM NeverJoinsDeaf == Spec => []QuitTold
BY InitEnds, QuitStep, LuaInvariant, PTL DEF Spec

\* A pending abort stands until the function it is to end has ended, whatever
\* the caller calls meanwhile.
THEOREM AbortsStand == Spec => AbortStands
<1>1. ASSUME LuaInv, AbortKnown, [Next]_vars, pc = "run", lua_abort = L, pc' = "run"
      PROVE  lua_abort' = L'
  <2>1. m_L = L
    <3>1. m_L = L \/ (m_L = Null /\ gen = 1)
      BY <1>1 DEF LuaInv, AbortNamesState, Live
    <3>2. L # Null
      BY <1>1 DEF LuaInv, Live
    <3> QED
      BY <1>1, <3>1, <3>2 DEF AbortKnown
  <2>2. L' = L
    BY <1>1 DEF Next, Caller, Calls, Proc, vars, thread, FinishCtor, SetExec, ResetAbort, SetQuit,
       Restart, Exec, Abort, Reset, NewState, Register, RegisterRef, LoadDone, TakeQuit, CloseState, TakeExec,
       ClearExec, Fetch, SetRunning, Finish, Killed, ClearAbort, ClearRunning
  <2>3. lua_abort' \in {lua_abort, m_L}
    BY <1>1 DEF Next, Caller, Calls, Proc, vars, FinishCtor, SetExec, ResetAbort, SetQuit,
       Restart, Exec, Abort, Reset, NewState, Register, RegisterRef, LoadDone, TakeQuit, CloseState, TakeExec,
       ClearExec, Fetch, SetRunning, Finish, Killed, ClearAbort, ClearRunning
  <2> QED
    BY <1>1, <2>1, <2>2, <2>3
<1>2. Spec => []AbortKnown
  BY InitEnds, AbortStep, LuaInvariant, PTL DEF Spec
<1>3. LuaInv /\ AbortKnown /\ [Next]_vars => [pc = "run" /\ lua_abort = L /\ pc' = "run" => lua_abort' = L']_vars
  BY <1>1
<1> QED
  BY <1>2, <1>3, LuaInvariant, PTL DEF Spec, AbortStands

LEMMA ResetStep ==
  ASSUME LuaInv, QuitTold, [Next]_vars, ~ UNCHANGED vars, call = "join", call' = "join", ~ Register
  PROVE  ExitStage[pc'] < ExitStage[pc]
<1> USE DEF ExitStage
<1>1. Proc
  <2>1. ~ Caller
    BY DEF Caller, CallerAt, FinishCtor, SetExec, ResetAbort, SetQuit, Restart
  <2>2. ~ Calls
    BY DEF Calls, Begin, CallerAt, Exec, Abort, Reset
  <2> QED
    BY <2>1, <2>2 DEF Next
<1>2. CASE TakeExec
  BY <1>2 DEF TakeExec, QuitTold
<1>3. CASE Finish \/ Killed
  BY <1>3 DEF Finish, Killed, Reported
<1>4. CASE \/ NewState \/ LoadDone \/ TakeQuit \/ CloseState \/ ClearExec \/ Fetch \/ SetRunning
           \/ ClearAbort \/ ClearRunning
  BY <1>4 DEF NewState, LoadDone, TakeQuit, CloseState, ClearExec, Fetch, SetRunning,
     ClearAbort, ClearRunning
<1> QED
  BY <1>1, <1>2, <1>3, <1>4 DEF Proc

\* While reset joins, the thread nears its exit with every step but a
\* registration, and nothing but the thread takes one.
THEOREM ResetsNear == Spec => ResetNears
<1>1. LuaInv /\ QuitTold /\ [Next]_vars =>
        [call = "join" /\ call' = "join" => Register \/ ExitStage[pc'] < ExitStage[pc]]_vars
  BY ResetStep
<1> QED
  BY <1>1, NeverJoinsDeaf, LuaInvariant, PTL DEF Spec, ResetNears

\* While a request is open, caller and thread near its fetching with every step
\* but a new call and a registration.
THEOREM RequestsNear == Spec => RequestNears
<1>1. ASSUME LuaInv, QuitTold, [Next]_vars, ~ UNCHANGED vars, unfetched, unfetched',
             ~ Calls, ~ Register
      PROVE  RequestStage' < RequestStage
  <2> USE DEF ExitStage, FetchStage, CallStage, RequestStage
  <2>1. pc \in Live \cup {"new", "exited", "crashed"}
        /\ call \in {"ctor", "idle", "exec", "abort", "quit", "join"}
    BY <1>1 DEF LuaInv, TypeOK
  <2>2. /\ ExitStage[pc] \in Int /\ ExitStage[pc'] \in Int
         /\ FetchStage[pc] \in Int /\ FetchStage[pc'] \in Int
         /\ CallStage[call] \in Int
    <3>1. pc' \in Live \cup {"new", "exited", "crashed"}
      BY <1>1, StepLua DEF LuaInv, TypeOK
    <3> QED
      BY <2>1, <3>1 DEF Live
  <2>3. CASE Caller
    <3>1. CASE FinishCtor
      BY <2>1, <3>1 DEF FinishCtor, CallerAt, Live
    <3>2. CASE SetExec
      BY <2>1, <3>2 DEF SetExec, CallerAt, Live
    <3>3. CASE ResetAbort
      BY <2>1, <3>3 DEF ResetAbort, CallerAt, Live
    <3>4. CASE SetQuit
      BY <2>1, <3>4 DEF SetQuit, CallerAt, Live
    <3>5. CASE Restart
      BY <2>1, <3>5 DEF Restart, CallerAt
    <3> QED
      BY <2>3, <3>1, <3>2, <3>3, <3>4, <3>5 DEF Caller
  <2>4. CASE Proc
    <3>1. call' = call
      BY <2>4 DEF Proc, NewState, Register, RegisterRef, LoadDone, TakeQuit, CloseState, TakeExec,
         ClearExec, Fetch, SetRunning, Finish, Killed, ClearAbort, ClearRunning
    <3>2. CASE call = "join"
      <4>1. ExitStage[pc'] < ExitStage[pc]
        BY <1>1, <3>1, <3>2, ResetStep
      <4> HIDE DEF ExitStage, FetchStage, CallStage
      <4>2. RequestStage = 12 * CallStage[call] + ExitStage[pc]
            /\ RequestStage' = 12 * CallStage[call] + ExitStage[pc']
        BY <3>1, <3>2
      <4> HIDE DEF RequestStage
      <4> QED
        BY <2>2, <4>1, <4>2
    <3>3. CASE call # "join"
      <4>1. ~ quitEvent /\ pc \notin {"close", "exited"}
        BY <1>1, <3>3 DEF QuitTold
      <4>2. ~ Fetch
        BY <1>1 DEF Fetch
      <4>3. FetchStage[pc'] < FetchStage[pc]
        <5>1. CASE Finish \/ Killed
          BY <5>1 DEF Finish, Killed, Reported
        <5>2. CASE \/ NewState \/ LoadDone \/ TakeExec \/ ClearExec \/ SetRunning
                   \/ ClearAbort \/ ClearRunning
          BY <5>2 DEF NewState, LoadDone, TakeExec, ClearExec, SetRunning, ClearAbort, ClearRunning
        <5> QED
          BY <1>1, <2>4, <4>1, <4>2, <5>1, <5>2 DEF Proc, TakeQuit, CloseState
      <4> HIDE DEF ExitStage, FetchStage, CallStage
      <4>4. RequestStage = 12 * CallStage[call] + FetchStage[pc]
            /\ RequestStage' = 12 * CallStage[call] + FetchStage[pc']
        BY <3>1, <3>3
      <4> HIDE DEF RequestStage
      <4> QED
        BY <2>2, <4>3, <4>4
    <3> QED
      BY <3>2, <3>3
  <2> QED
    BY <1>1, <2>3, <2>4 DEF Next
<1>2. LuaInv /\ QuitTold /\ [Next]_vars =>
        [unfetched /\ unfetched' => Calls \/ Register \/ RequestStage' < RequestStage]_vars
  BY <1>1
<1> QED
  BY <1>2, NeverJoinsDeaf, LuaInvariant, PTL DEF Spec, RequestNears

-----------------------------------------------------------------------------
(* The menu.                                                               *)

\* Every step of the menu is one of luaThread's or leaves luaThread alone.
LEMMA MenuStepIsLua == MenuInv /\ [MenuNext]_menuVars => [Next]_vars
<1> SUFFICES ASSUME MenuInv, [MenuNext]_menuVars PROVE [Next]_vars
  OBVIOUS
<1>1. CASE MenuCaller
  BY <1>1 DEF MenuCaller, MenuResetAbort, Next, Caller
<1>2. CASE MenuCalls
  <2>1. CASE OpenPopup \/ Dismiss
    BY <2>1 DEF OpenPopup, Dismiss
  <2>2. CASE PickAbort \/ LoadScript
    BY <2>2 DEF PickAbort, LoadScript, Next, Calls
  <2>3. ASSUME NEW i \in items, PickTest(i) PROVE Next
    BY <2>3 DEF PickTest, Next, Calls, MenuInv, ItemsKnown
  <2> QED
    BY <1>2, <2>1, <2>2, <2>3 DEF MenuCalls
<1>3. CASE MenuProc
  BY <1>3 DEF MenuProc, MenuRegister, RegisterItem, MenuFetch, MenuRun, Next, Proc, Register
<1>4. CASE UNCHANGED menuVars
  BY <1>4 DEF menuVars
<1> QED
  BY <1>1, <1>2, <1>3, <1>4 DEF MenuNext

\* What MenuInv says beside LuaInv.
MenuPart ==
  /\ MenuTypeOK /\ ItemsFresh /\ StaleExplained /\ MissingRefs /\ AbortAims
  /\ ItemsKnown /\ Requests /\ Aim

LEMMA InitMenu == MenuInit => MenuInv
<1> SUFFICES ASSUME MenuInit PROVE MenuInv
  OBVIOUS
<1>1. LuaInv
  BY InitLua DEF MenuInit
<1>2. MenuTypeOK
  <2>1. NoRequest \in Request /\ [gen |-> 0, started |-> 0] \in [gen : Nat, started : Nat]
    BY Constants DEF NoRequest, Request, AnyRef
  <2> QED
    BY <2>1, Zenon DEF MenuInit, MenuTypeOK
<1>3. ItemsFresh /\ ItemsKnown
  BY DEF MenuInit, ItemsFresh, ItemsKnown
<1>4. StaleExplained /\ MissingRefs /\ AbortAims /\ Aim
  BY DEF MenuInit, Init, StaleExplained, MissingRefs, AbortAims, Aim, Live
<1>5. Requests
  BY DEF MenuInit, Init, Requests, NoRequest
<1> QED
  BY <1>1, <1>2, <1>3, <1>4, <1>5 DEF MenuInv

\* The window's steps.
LEMMA CallerMenu == MenuInv /\ MenuCaller => MenuPart'
<1> SUFFICES ASSUME MenuInv, MenuCaller PROVE MenuPart'
  OBVIOUS
<1> USE Constants DEF MenuInv, MenuPart, LuaInv, TypeOK, CtorFirst, CallerAt, Begin, Live, AbortNow,
        events, thread, hist, menu, menuHist, Request, InReset,
        MenuTypeOK, ItemsFresh, StaleExplained, MissingRefs, AbortAims,
        ItemsKnown, Requests, Aim
<1>1. CASE MenuResetAbort
  BY <1>1 DEF MenuResetAbort, ResetAbort
<1>2. CASE FinishCtor /\ UNCHANGED <<menu, menuHist>>
  BY <1>2 DEF FinishCtor
<1>3. CASE SetExec /\ UNCHANGED <<menu, menuHist>>
  BY <1>3 DEF SetExec
<1>4. CASE SetQuit /\ UNCHANGED <<menu, menuHist>>
  BY <1>4 DEF SetQuit
<1>5. CASE Restart /\ UNCHANGED <<menu, menuHist>>
  <2>1. /\ call = "join" /\ call' = "idle" /\ pc = "exited" /\ pc' = "new" /\ gen' = gen + 1
        /\ gen \in Nat \ {0}
        /\ UNCHANGED <<m_func, func, nreg, L, lua_abort, offered, menu, menuHist>>
    BY <1>5 DEF Restart
  <2>2. MenuTypeOK' /\ StaleExplained' /\ MissingRefs' /\ AbortAims' /\ Aim'
    BY <2>1
  <2>3. \A i \in items : i.late /\ i.gen = gen /\ i.ref \in offered /\ i.gen # gen'
    BY <2>1
  <2>4. ItemsFresh' /\ ItemsKnown'
    BY <2>1, <2>3
  <2>5. \A w \in {wanted, now} : w.in <= gen /\ w.gen <= gen /\ w.in \in Nat /\ w.gen \in Nat
    BY Zenon
  <2>6. Requests'
    BY <2>1, <2>5
  <2> QED
    BY <2>2, <2>4, <2>6
<1> QED
  BY <1>1, <1>2, <1>3, <1>4, <1>5 DEF MenuCaller

LEMMA CallsMenu == MenuInv /\ MenuCalls => MenuPart'
<1> SUFFICES ASSUME MenuInv, MenuCalls PROVE MenuPart'
  OBVIOUS
<1> USE Constants DEF MenuInv, MenuPart, LuaInv, TypeOK, CtorFirst, CallerAt, Begin, Live, AbortNow,
        events, thread, hist, menu, menuHist, Request, InReset,
        MenuTypeOK, ItemsFresh, StaleExplained, MissingRefs, AbortAims,
        ItemsKnown, Requests, Aim
<1>1. CASE OpenPopup
  BY <1>1 DEF OpenPopup, vars
<1>2. CASE Dismiss
  BY <1>2 DEF Dismiss, vars
<1>3. CASE PickAbort
  BY <1>3 DEF PickAbort, Abort
<1>4. CASE LoadScript
  BY <1>4 DEF LoadScript, Reset
<1>5. ASSUME NEW i \in items, PickTest(i) PROVE MenuPart'
  <2>1. /\ call = "idle" /\ call' = "exec" /\ m_func' = i.ref /\ items' = items /\ popup' = "none"
        /\ wanted' = [ref |-> i.ref, gen |-> i.gen, late |-> i.late, in |-> gen]
        /\ UNCHANGED <<gen, pc, func, nreg, L, lua_abort, offered, now, started, abortAt>>
    BY <1>5 DEF PickTest, Exec
  <2>2. i \in [ref : Refs \cup {RefNil}, gen : Nat, late : BOOLEAN] /\ gen \in Nat
    OBVIOUS
  <2>3. wanted' \in Request
    <3>1. i.ref \in AnyRef
      BY <2>2 DEF AnyRef
    <3> QED
      BY <2>1, <2>2, <3>1
  <2>4. MenuTypeOK'
    BY <2>1, <2>3
  <2>5. ItemsFresh' /\ ItemsKnown'
    BY <2>1
  <2>6. StaleExplained' /\ MissingRefs' /\ AbortAims' /\ Aim'
    BY <2>1
  <2>7. Requests'
    BY <2>1, <2>2
  <2> QED
    BY <2>4, <2>5, <2>6, <2>7
<1> QED
  BY <1>1, <1>2, <1>3, <1>4, <1>5 DEF MenuCalls

\* The Lua thread's steps.
LEMMA ProcMenu == MenuInv /\ MenuProc => MenuPart'
<1> SUFFICES ASSUME MenuInv, MenuProc PROVE MenuPart'
  OBVIOUS
<1> USE Constants DEF MenuInv, MenuPart, LuaInv, TypeOK, CtorFirst, CallerAt, Begin, Live, AbortNow,
        events, thread, hist, menu, menuHist, Request, InReset, Reported, AbortNamesState,
        MenuTypeOK, ItemsFresh, StaleExplained, MissingRefs, AbortAims,
        ItemsKnown, Requests, Aim
<1>1. CASE MenuRegister
  <2>0. PICK r \in NewRefs : RegisterItem(r)
    BY <1>1 DEF MenuRegister
  <2>1. /\ r \in Refs \cup {RefNil} /\ pc # "new" /\ pc' \in {pc, "crashed"}
        /\ nreg' \in Nat /\ nreg <= nreg' /\ (r # RefNil => r \in 1 .. nreg')
        /\ UNCHANGED <<gen, call, m_func, func, L, lua_abort, popup, menuHist>>
    BY <2>0 DEF RegisterItem, RegisterRef, NewRefs, RefNil
  <2>2. \A i \in items' : i \in items \/ (i = NewItem(r) /\ NewItem(r).ref \in offered')
    BY <2>0 DEF RegisterItem, NewItem
  <2>3. NewItem(r) \in [ref : Refs \cup {RefNil}, gen : Nat, late : BOOLEAN]
    BY <2>1 DEF NewItem
  <2>4. MenuTypeOK'
    BY <2>1, <2>2, <2>3
  <2>5. ItemsFresh'
    BY <2>1, <2>2 DEF NewItem
  <2>6. offered \subseteq offered'
    BY <2>0 DEF RegisterItem, RegisterRef
  <2>7. ItemsKnown'
    <3>1. ASSUME NEW i \in items
          PROVE  /\ i.ref \in offered' /\ (i.gen = gen => pc # "new" /\ i.ref \in {RefNil} \cup 1 .. nreg')
                 /\ (InReset => i.late /\ i.gen = gen)
      BY <2>1, <2>6
    <3>2. /\ NewItem(r).gen = gen /\ NewItem(r).ref = r /\ (InReset => NewItem(r).late)
      BY DEF NewItem
    <3>3. pc' # "new"
      BY <2>1
    <3> QED
      BY <2>1, <2>2, <3>1, <3>2, <3>3
  <2>8. \A k : k \in 1 .. nreg => k \in 1 .. nreg'
    BY <2>1
  <2>9. StaleExplained' /\ AbortAims' /\ Aim'
    BY <2>1
  <2>10. Requests'
    BY <2>1, <2>8
  <2>11. MissingRefs'
    BY <2>1, <2>8
  <2> QED
    BY <2>4, <2>5, <2>7, <2>9, <2>10, <2>11
<1>2. CASE MenuFetch
  <2>1. /\ now' = wanted /\ func' = m_func /\ pc = "fetch" /\ pc' = "called"
        /\ UNCHANGED <<gen, call, m_func, nreg, L, lua_abort, offered, menu, wanted, started, abortAt>>
    BY <1>2 DEF MenuFetch, Fetch
  <2>2. MenuTypeOK' /\ ItemsFresh' /\ ItemsKnown' /\ AbortAims' /\ Aim'
    BY <2>1
  <2>3. StaleExplained' /\ MissingRefs' /\ Requests'
    BY <2>1
  <2> QED
    BY <2>2, <2>3
<1>3. CASE MenuRun
  BY <1>3 DEF MenuRun, SetRunning
<1>4. CASE NewState /\ UNCHANGED <<menu, menuHist>>
  BY <1>4 DEF NewState
<1>5. CASE LoadDone /\ UNCHANGED <<menu, menuHist>>
  BY <1>5 DEF LoadDone
<1>6. CASE TakeQuit /\ UNCHANGED <<menu, menuHist>>
  BY <1>6 DEF TakeQuit
<1>7. CASE CloseState /\ UNCHANGED <<menu, menuHist>>
  BY <1>7 DEF CloseState
<1>8. CASE TakeExec /\ UNCHANGED <<menu, menuHist>>
  BY <1>8 DEF TakeExec
<1>9. CASE ClearExec /\ UNCHANGED <<menu, menuHist>>
  BY <1>9 DEF ClearExec
<1>10. CASE Finish /\ UNCHANGED <<menu, menuHist>>
  BY <1>10 DEF Finish
<1>11. CASE Killed /\ UNCHANGED <<menu, menuHist>>
  BY <1>11 DEF Killed
<1>12. CASE ClearAbort /\ UNCHANGED <<menu, menuHist>>
  BY <1>12 DEF ClearAbort
<1>13. CASE ClearRunning /\ UNCHANGED <<menu, menuHist>>
  BY <1>13 DEF ClearRunning
<1> QED
  BY <1>1, <1>2, <1>3, <1>4, <1>5, <1>6, <1>7, <1>8, <1>9, <1>10, <1>11, <1>12, <1>13 DEF MenuProc

LEMMA StepMenu == MenuInv /\ [MenuNext]_menuVars => MenuInv'
<1> SUFFICES ASSUME MenuInv, [MenuNext]_menuVars PROVE MenuInv'
  OBVIOUS
<1>1. LuaInv'
  BY MenuStepIsLua, StepLua DEF MenuInv
<1>2. CASE UNCHANGED menuVars
  BY <1>1, <1>2 DEF MenuInv, menuVars, vars, events, thread, hist, menu, menuHist, InReset, Live,
     MenuTypeOK, ItemsFresh, StaleExplained, MissingRefs, AbortAims, ItemsKnown, Requests,
     Aim, Request
<1>3. CASE MenuNext
  <2>1. MenuPart'
    BY <1>3, CallerMenu, CallsMenu, ProcMenu DEF MenuNext
  <2> QED
    BY <1>1, <2>1 DEF MenuPart, MenuInv
<1> QED
  BY <1>2, <1>3

-----------------------------------------------------------------------------
\* The menu's invariant holds in every run.
THEOREM MenuInvariant == MenuSpec => []MenuInv
BY InitMenu, StepMenu, PTL DEF MenuSpec

\* The window under the menu behaves as LuaThread's caller, its fairness aside.
THEOREM MenuIsLuaThread == MenuSpec => Spec
<1>1. MenuInit => Init
  BY DEF MenuInit
<1> QED
  BY <1>1, MenuInvariant, MenuStepIsLua, PTL DEF MenuSpec, Spec

\* An item is of the running thread or was added during Load Script.
THEOREM MenuFresh == MenuSpec => []ItemsFresh
BY MenuInvariant, PTL DEF MenuInv

\* A function of another state than its item's has one of two causes.
THEOREM StaleCallsExplained == MenuSpec => []StaleExplained
BY MenuInvariant, PTL DEF MenuInv

\* Only a stale item, or a nil that the script registered, leads to a ref that
\* the state does not have.
THEOREM RefsMissing == MenuSpec => []MissingRefs
BY MenuInvariant, PTL DEF MenuInv

\* An abort ends the function running or the next one, of the same thread.
THEOREM AbortsAim == MenuSpec => []AbortAims
BY MenuInvariant, PTL DEF MenuInv
=============================================================================
