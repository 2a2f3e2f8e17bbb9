# A TLA+ model of Testware

Testware is a serial console for testing devices: it prints what a serial port
receives, filters binary frames out of the text, sends typed commands, and runs
Lua test functions that talk to the device.  This directory holds TLA+ modules
of its parts, the TLC configurations that check them, and theorems about them
with proofs for TLAPS.  Paths such as `serial.cpp:80` are paths of the
repository (`src/serial.cpp`, line 80).

The program that the project file builds is `main.cpp`, `main_fltk.cpp`,
`luaThread.cpp`, `serial.cpp`, `filter.cpp`, `dlgSerialConfig.cpp` and
`enumser/enumser.cpp`.  `main_iup.cpp`, `main_nana.cpp`, `registers.cpp`,
`serial.config.cpp` and `duktape-1.4.0` are in the repository and not in it.

## 1. Inventory

Three threads and one device act at the same time:

- the **window** (FLTK's loop on the main thread): timer, menus, command line;
- the **serial thread** (`serial_main`): an alertable wait in which the
  completion routines of its overlapped reads run;
- the **Lua thread** (`luaThread::proc`): loads `script.lua`, runs functions;
- the **port**: its driver writes a block of memory while a read is pending.

There is no mutex.  The threads share two atomic indices, two auto-reset events,
and otherwise plain memory.

| Component | State | Operations | Hard behaviour | Correct when |
|---|---|---|---|---|
| Receive ring (`serial.h`, `serial.cpp`) | four blocks, `block_idx`, `print_idx`, the pending read | `start`, `read_done`, `poll` | no back pressure: the driver writes a block the window may be printing; 32-bit indices wrap; the first read is larger than `data` | blocks are printed once, in order, intact while the window keeps up |
| Frame filter (`filter.cpp`) | `msg`, `pos`, `len`, `checksum`, `filtered` | `filter_rx`, `parse_msg` | static state across blocks; no resynchronisation; a frame may be longer than `msg` | the frames are those of the byte stream, whatever the blocks |
| Lua thread (`luaThread.*`) | events, `m_func`, `m_L`, `running`, `lua_abort`, the Lua state | `exec`, `abort`, `reset`, `proc`, hook, `sleep`, `register`, `tx` | wake-ups and requests of two threads; addresses reused; members initialised after the thread was started | no request is lost, an abort hits one function, `reset` returns |
| Test menu (`main_fltk.cpp`) | `tests_menu`, a popup being shown | `menu_add`, `handle`, Load Script | items of an old Lua state; `running` changes while a popup is open; `add` on the Lua thread | an item runs the function it was registered for |
| Serial log (`serial.cpp`) | `fLog`, the toggle of the menu item | `log`, the loop in `read_done` | the window closes the file while the serial thread writes | every byte but CR of a block is logged while the log is open |
| Transmit (`serial.cpp`) | the driver's one-character slot | `transmit`, key presses | three threads transmit; a full slot drops the character | a message is sent whole |
| Console text (`main_fltk.cpp`) | the text buffer | `append`, `scroll_to_end`, Clear | trimming in two places | the buffer is the newest text, at most 10000 bytes |
| Command line (`main_fltk.cpp`) | the input, the history | `do_command`, `do_history`, popup | callbacks inside callbacks | no duplicate, newest command sent once |
| Life cycle (`main_fltk.cpp`) | construction and destruction order, `serial_stop` | constructor, destructor, `serial_main` | the Lua thread exists before and after the serial port | threads end, nobody uses what is gone |
| Port dialog (`dlgSerialConfig.cpp`) | two list selections | the modal loop, opening the port | no port present; window closed; every call of the opening may fail, uncaught | what is opened is a port and a rate of the lists |
| Port enumeration (`enumser/`) | library, GUIDs, device set, key, a value's block | `UsingSetupAPI2` | every Windows call may fail; a registry value is read in two calls | everything is released, whatever fails |
| Command-line options (`serial.config.cpp`, `options.h`) | `comm`, options | `parse` | not built | options do what the table says |

They interact as follows.  `serial_main` calls `start`; the driver completes a
read; `read_done` publishes the block and asks for the next.  Every 33 ms
`poll_callback` calls `serial_t::poll`, whose sink is `ConsoleDisplay::append`,
which calls `filter_rx` and appends its result.  The window's menu calls
`luaThread::exec`, `abort` and `reset`; the Lua thread calls back `menu_add` (on
its own thread) and `serial_t::transmit`.  Commands go to `serial_t::transmit`.

## 2. Plan

Everything of the plan is written except where noted.

1. `SerialRing`, with `BlockChannel` as what it promises and `SerialRingProofs`;
   `PoolIndex` puts beside it the masking of indices that `SerialRing` takes as a
   remainder, and the proofs are about both.
2. `FrameFilter`, `FrameFilterProofs`.
3. `LuaThread`.
4. `TestMenu`: the menu and the popups on top of `LuaThread`, which is the abstract
   specification here; `TestMenuProofs` is about both.
5. `SerialLog`, `SerialLogProofs`: `fLog` between window and serial thread.
6. `Transmit`: three senders, one slot; actions only, without a next-state relation.
7. `Lifecycle`, `LifecycleProofs`: composes the start and end of all threads with
   the actions of `Transmit`; runs and proofs are about both.
8. `ConsoleText`, `ConsoleTextProofs`: the display on top of `FrameFilter`.
9. `CommandHistory`, `CommandHistoryProofs`; `PortEnumeration` and, on top of it,
   `PortDialog`, with `PortDialogProofs` about both; `SerialOptions`.

Not written: one theorem that ring and filter together display what a channel
brings.  The ring abstracts bytes to the number of their read, the filter knows
bytes only; the two meet in the text of a block, which `BlockChannel` calls
intact, so such a theorem would say no more than the two it is made of.

How modules depend on each other:

    BlockChannel <- SerialRing <- PoolIndex <- SerialRingProofs
    FrameFilter <- ConsoleText <- ConsoleTextProofs -> FrameFilterProofs
    LuaThread <- TestMenu <- TestMenuProofs
    Transmit <- Lifecycle <- LifecycleProofs
    SerialLog <- SerialLogProofs
    PortEnumeration <- PortDialog <- PortDialogProofs
    CommandHistory <- CommandHistoryProofs
    SerialOptions

## 3. What is modelled

### `SerialRing.tla` and `BlockChannel.tla`

Variables are the members of `serial_t` and the fields of the blocks; `io` is
the outstanding `ReadFileEx` and how far its completion has come, `gui` what
`poll` took from the block it prints.  A block's bytes are abstracted to the
number of the read that brought them, which is enough to tell old, new and mixed
contents apart.

| Action | Code |
|---|---|
| `Start` | `serial_t::start` |
| `Fill`, `Complete` | the driver: bytes arrive, the read completes; a read may complete with no bytes (total timeout, `serial.cpp:146-148`) |
| `Fail`, `Break` | the read completes with an error; `read_done` meets `DebugBreak`, which ends the program (`serial.cpp:75`) |
| `StoreCount` | `read_done` up to `curr.count = count` |
| `Publish` | `block_idx++` and the next `ReadFileEx` |
| `PollTake`, `PollDone` | one turn of `poll`'s loop, split because the sink copies the block while the driver may write it |

`start` asks for `sizeof(block_t)-1` bytes into `data`, so the first read may
spill into the `count` of the block after it (`SpillCount`): the model has that,
and `Steady` says when such a block's bytes are still there.  `Publish` is one
action because the atomic increment is its only step that the window can see;
the log loop that follows in `read_done` is in `SerialLog`.

`BlockChannel` is the promise: blocks are shown one by one, in order, and a
block that fits is shown intact unless more than `Capacity` blocks waited when
its turn ended; otherwise what is shown is torn or newer, never older.
`SerialRing` implements it with `Capacity = Dim - 1`.

`PoolIndex.tla` has `pool_t::get` and `is_powerOf2` as they are written, with `&`,
and looks at them in the states of the ring: `MaskIsSlot` says that the mask names
the block that the remainder names for every index in use, on both sides of the
wrap.  `&` is a recursive function (`BitAnd`, from the lowest bit up), so that the
prover can take it.  What the `static_assert` demands of the size is the module's
assumption.

### `FrameFilter.tla`

One action per byte (`TextByte`, `FrameByte`, `LastByte`) and `Return` at the
end of a block.  A byte behind `msg` (frames of 257 to 259 bytes) is undefined
behaviour: the model lets it fall on `checksum`, on a byte of `filtered`, or on
nothing of interest.  `pos` is not among the outcomes: it has a non-zero
initialiser, so it is not in the zero-initialised section that holds the other
statics.  When such a frame is printed, what comes after the end of `msg` is what
memory holds by then: `InMsg` gives those places the value `Behind`, which no byte
has, so that nothing can be concluded from them.  Overrunning `filtered` (first block only) has no effect in the model
but is what `OnlyFirstOverflows` is about: that it can happen in that block alone is
proved, what it does to other memory is not modelled.  The form of the printed
frame is left out.

`Batch` defines, for a whole input, its frames, its text and the unfinished
rest; it knows nothing of blocks or of the parser's variables.  It is a recursive
function over the places of the input (`Batches`: what the bytes from the i-th on
are), and `Sums` one over the bytes of a frame.

### `LuaThread.tla`

`pc` is where `proc` is, `call` what the caller is in the middle of.  Every access
to something the other thread also accesses is a step of its own: storing
`m_func` and setting `execEvent`; testing `running`, storing `lua_abort`, setting
`quitEvent`, joining; the wait, `ResetEvent`, the fetch of `m_func`, `running`.
Lua itself is external and modelled by what the code relies on:

- a state is an address; after `lua_close` an address may be used again;
- the hook runs in Lua code, `sleep` tests `lua_abort` itself;
- an error message has a position (`file:line:`) only when the code one level
  below it is Lua code.  `proc` searches the message for two colons without
  testing the result, so that an error without a position ends the program
  (`pc = "crashed"`): an abort that hits the function itself and not something
  it called, a call of a ref the state does not have, an error object.

`register` stores what it was given with `luaL_ref`, which returns `LUA_REFNIL`
(-1) for a nil, such as a misspelled name of a function: `RegisterRef` takes a new
ref or `RefNil`.

`FetchedAsAsked` counts in `due` how often the last function asked for may still be
fetched.  It is not "once per request": between the store of `m_func` and the event
a wake-up of an earlier request may fetch the new function, and the event brings it
again, in place of the one that was overwritten.  So `due` begins with one, and one
more for every wake-up under way (`WakeUps`); the property is that there is no other
way to a second call.

The caller calls `exec`, `abort` and `reset` whenever it likes, and asks only for
functions that were registered since it last cleared its menu.  That the window
does nothing else is `RefinesLuaThread` of `TestMenu`, so what holds here holds
for it.  Coroutines, whose address is not that of the state, are not modelled;
neither is `lua_transmit_bytes` or `lua_timeout`, which are never installed.

### `TestMenu.tla`

| Action | Code |
|---|---|
| `OpenPopup`, `Dismiss` | a right click; which menu is shown depends on `running` (`main_fltk.cpp:337`) |
| `PickTest`, `PickAbort` | the callbacks of the items: `exec` of the item's ref, `abort` |
| `LoadScript` | `tests_menu.clear()`, then `reset` |
| `MenuRegister` | `register` on the Lua thread, with its call of `menu_add`; a nil gets an item too, whose -1 passes the test `w && v` (`main_fltk.cpp:42`) |
| `MenuFetch`, `MenuRun` | `proc` takes `m_func`, and calls |

An item holds a ref and nothing of the state it belongs to.  The model gives it
the number of its thread (`gen`), and whether it was added while the window was
already in `reset` (`late`).  With that `StaleExplained` can say when a function
of another state is called: the item was late, or the request was from before the
last Load Script.  These are the two outcomes of the code's keeping `execEvent`,
`m_func` and late items; the properties say that there is no third.
`MissingRefs` says the same of a call of a ref that holds no function, which ends
the program (`luaThread.cpp:57`): there is one cause more, an item of a nil that
the script registered.

### `SerialLog.tla`

`win` is where the window is in the callback of "Log Serial", in `log`, or in the
destructors; `rd` whether the serial thread is in the loop of `read_done`.  Each
read and write of `fLog` is a step of its own.  `fLog` is a plain member, so that
the loop may use its value or the one it read before (`Pointers`).  A `FILE` used
after `fclose`, or in both at once, is undefined: the model stops there, with the
cause in `damage`, and `DamageExplained` bounds the causes.

| Action | Code |
|---|---|
| `Toggle`, `Choose`, `Cancel` | FLTK changes the mark and calls back; the file chooser |
| `LogTest`, `LogClose`, `LogNull`, `LogOpen`, `LogFails`, `LogOff` | the steps of `serial_t::log` |
| `Quit`, `Destroy` | `~ConsoleWindow` joins the thread; `~serial_t` closes the file and calls `log(NULL)`, which closes it again |
| `Block`, `SkipCR`, `Put`, `Flush` | `read_done` after it has published the block |

### `Transmit.tla`

A character is its sender, message and place.  `TransmitCommChar` takes one step:
it fails while the driver holds a character, and the result is ignored, so that
the character is lost.  `Sent` is the driver.  `WholeMessages` is what a sender
may rely on: a message suffers only from a failed call or from another message
sent at the same time.  Nothing tells a sender of either.

### `Lifecycle.tla`

`main` is the member being constructed or destroyed, in the order of declaration
(`lua` before `serial`).  The Lua thread is reduced to what a start and an end
need: it executes or waits, and `stuck` says that what it executes does not
return.  The serial thread is `serial_main` with the queue of console input, which
comes before the stop event in the array: `_kbhit` finds a key anywhere in the queue
and `_getch` reads up to it; without a key `ReadConsoleInput` takes up to
`MaxRecords` events, a key pressed meanwhile included.  `WaitFails` is the wait that
returns an error, or in which the routine of a failed read runs: `DebugBreak` or
`exit(1)` ends the program.  Errors after which the code waits again are no step.  `Tx` before the constructor of `luaThread`
has stored the delegates ends the program; before the port is open and after it is
closed the call fails.  An exception of `serial_t`'s constructor is not caught.

### `ConsoleText.tla`

`FrameFilter` with the buffer of the display: `Show` is `append`, `Scroll`
is `scroll_to_end` at the end of a poll.  The number of lines that FLTK counts
depends on the width of the window, so that the model lets it be anything from
the number of line breaks to the number of characters (`CountMayPass`,
`KeepAll`).

`ScrollTrimsOnce` states an effect that is easy to overlook in the code: the text
is removed up to the line break and not with it (`main_fltk.cpp:208`), so that the
next call finds the break at position 0 and removes nothing.  After its first time
`scroll_to_end` shortens nothing any more, and only the limit of `append` bounds
the text.

### `CommandHistory.tla`

A command is a word in a spelling, since `stricmp` ignores case.  `Press`, `Leave`
and `DoHistory` all end in `PopupBrowser::hide`, whose bound function releases the
button.  FLTK calls a list back for a click below its lines as well, with the value
0, for which `text` returns a null pointer: `DoNothing` ends in `crashed`.

### `PortEnumeration.tla` and `PortDialog.tla`

`PortEnumeration` is the one method of `enumser` that the program calls, with the
two functions under it; every Windows call may fail.  A second read of a value that
returns no bytes makes the code look at index -1 for a terminator
(`enumser.cpp:359`), of an unsigned type: the 32-bit build looks at the byte before
the block and goes on, the 64-bit build may end there (`Fault`).  A device is the number of its
port, a registry value its size and whether it names a port.  The friendly names
are left out: the dialog receives them and does not use them.

`PortDialog` is the caller: the dialog, and `serial_t`'s constructor as far as it
opens what was selected, while ports are plugged, unplugged, taken and released
(`Outside`) at every moment, inside the enumeration too.  The dialog does not tell
"Select" from closing the window.  Every call of the constructor may fail for a free
port and a rate of the list as well, in the driver (`serial.cpp:124`, `130`,
`136-139`, `155-158`): `OpenThrows` remembers that in `refused`.  `DeathExplained`
therefore speaks of the dialog's part only: it passes on a port of the list and a
rate, unless the user clicked below the lines or there was no port.

### `SerialOptions.tla`

`SerialOptions` is `main_args` with the table of `options.h`.  The file is not
built, and mixes narrow and wide strings; the model takes them as one type.  An
option's text is abstracted to what the option functions tell apart.

## 4. Runs

| Run | Module and configuration | Shows |
|---|---|---|
| `serial_ring` | `PoolIndex`, `SerialRing.cfg` | the ring's properties with masked indices, the refinement of `BlockChannel`, and that every block is printed unless a failed read ends the program |
| `frame_filter` | `FrameFilter`, `FrameFilter.cfg` | streaming equals `Batch` over every split into blocks; bounds |
| `lua_thread` | `LuaThread`, `LuaThread.cfg` | no lost request, a function called again only for a request it overwrote, aborts hit one function each and are not withdrawn, requests served and resets ended |
| `lua_thread_endless` | `LuaThread`, `LuaThreadEndless.cfg` | an abort, or a reset that saw it running, ends a function that never returns |
| `lua_hook_comment` | `LuaThread`, `LuaThreadHook.cfg` | a counterexample: see the findings below |
| `test_menu` | `TestMenu`, `TestMenu.cfg` | late and stale items, and those of a nil; aborts hit what they aim at; the refinement of `LuaThread` with its fairness |
| `serial_log` | `SerialLog`, `SerialLog.cfg` | a log is a gapless part of the stream and on disk after every block; the two causes of undefined behaviour; the mark is right |
| `lifecycle` | `Lifecycle`, `Lifecycle.cfg` | the port outlives its users but one; a message is spoilt by overlap and loss alone; no sender waits; closing the window ends the program |
| `console_text` | `ConsoleText`, `ConsoleText.cfg` | the display is the newest text; what is missing and why; what scrolling removes |
| `command_history` | `CommandHistory`, `CommandHistory.cfg` | the history is the list of first occurrences; button and list agree |
| `ports` | `PortDialog`, `PortDialog.cfg` | resources are released, the one leak; a start fails for causes outside the dialog only |
| `options_stopbits` | `SerialOptions`, `SerialOptions.cfg` | a counterexample: see the findings below |

The type invariants and the inductive invariants are proved and not run; so are
`InOrder`, `AllJoined`, `ItemsFresh`, `UnderLimit` and `OnlyFirstOversized`, which
the invariants contain or imply, and what lies under the liveness properties:
`QuitTold`, `AbortKnown`, `ResetNears` and `RequestNears` of
`LuaThread`, `EndTold` and `EndNears` of `Lifecycle`.

Bounds:

- `SerialRing.cfg`: 4 blocks as in the code; indices modulo 8, so that they wrap
  within 9 reads (`MaxTransfers`); up to 6 blocks wait (`MaxLag`), which
  overruns the pool by two; 2-byte blocks and a 2-byte count give every relation
  of a read's length to the block: empty, short, full, one too many, spilling.
  `MaxLag < IdxMod` is an assumption about the program too: 2^32 blocks do not
  wait.
- `FrameFilter.cfg`: bytes are 0 (NUL, the empty frame's length), 1 (a frame
  that fits `msg` exactly), 2 (one byte too long for `msg`) and the start byte;
  8 bytes hold two frames, or a frame between texts; blocks of at most 3 bytes
  cut frames at every place, a first block of 5 overruns `filtered`.
- `LuaThread.cfg`: two addresses, so that a new state may or may not get an old
  one's; two functions; four calls, enough for a request, an abort, a reset and a
  second of any of them.

- `TestMenu.cfg`: two addresses and four calls (`MaxCalls`), which are a request, an
  abort and two more requests, or a request on either side of two Load Scripts; one
  function beside the nil, since items differ by their thread and by whether their
  ref holds a function.
- `SerialLog.cfg`: two addresses, so that a new file may get the one the loop still
  holds; three files, blocks of two bytes and four bytes in all, so that a log is
  closed and opened again within a block and after one.
- `Lifecycle.cfg`: texts of at most one character, so that a command with its CR has
  two and can be cut by another sender; two messages, which may be of two senders or
  of one; two console events, of which one `ReadConsoleInput` takes one
  (`MaxRecords`), so that a key may be swallowed and may be left behind; functions that
  hang and functions that return.
- `ConsoleText.cfg`: a limit of four bytes and a scroll at two lines, in eight bytes
  of input; the limit is reached and text is removed by both places in turn.  The
  line break is the byte 1, the length of a frame that fits `msg` exactly (five
  bytes), so that both meanings occur.
- `CommandHistory.cfg`: two words in two spellings, four commands: a list of three
  (the empty command counts), a choice, and a repetition in another case.
- `PortDialog.cfg`: three ports and two changes outside, which make a listed port go
  and come back, or go and be replaced, during the walk or after it; sizes up to the
  room of a block and a name of the least size above half of it, so that a leak, a
  failure and a port occur in one walk.
- `SerialOptions.cfg`: three arguments, of which two conflict in either order; the
  counterexample needs one.

Fairness.  `SerialRing`: weak fairness of the serial thread (its wait is
alertable, so queued completion routines run) and of the window (the timer is
re-armed on every turn); none of the device, which may fall silent.
`LuaThread`, `TestMenu`: weak fairness of each thread's own steps, which is
scheduling; no fairness of calls, clicks or popups.  A function in `Endless` has
no step by which it returns; loading a script and all other functions are taken
to end.  `Lifecycle`: weak fairness of the three threads, not of `Tx` (a function
need not transmit), the user or the device, nor of a failing wait; that
`WaitForMultipleObjectsEx` returns when one of its objects is signalled is Windows'
promise.  `SendingEnds` holds with a driver that takes nothing, because a call does
not wait for it.  The other modules have no liveness property.  Deadlock is not
checked where the system may stop: a silent device, an idle thread, the end of the program.

Findings:

- `lua_hook_comment`: `luaThread.cpp:36` says "Run Hook every 100
  instructions".  Once the hook has aborted a function it has replaced itself by a
  hook for every line (`luaThread.cpp:14`), and nothing puts the first one back:
  `HookByCount` is violated by an abort followed by another call in the same state.
- `options_stopbits`: `options.h:8` says that `-s` "sets serial stopbits".
  `options_stopbits` assigns `comm.parity` (`serial.config.cpp:55-57`): one `-s:two`
  violates `StopbitsSet`.

A third disagreement has no run of its own.  The usage text
(`serial.config.cpp:74`) names an argument "com-port filename"; such an argument
reaches an empty branch (`serial.config.cpp:67-68`, `Ignored` of `SerialOptions`), and
the one that takes a port only answers a lone `-`.

## 5. What is proved

`tlapm` checks these for every value of the constants that the modules' named
assumptions allow.

- `SerialRingProofs`, whose first section is the arithmetic of wrapped counters, from
  quotient and remainder: `RingInvariant` (`Spec => []RingInv`), from it `RingTypes`,
  `CountAlwaysRead`, `EmptyTest`, `NoRaceOnBlocks`, and `RingRefinesChannel`.
  None of the safety properties is inductive.  `RingInv` adds that the wrapped
  indices are the lengths of the histories modulo `IdxMod` (`IndicesMatch`),
  that the pending read goes into the block after the published ones
  (`ReadInFront`), that the last `Dim - 1` published blocks still hold what was
  read and no block holds anything older than itself (`BlocksHold`), and what
  that makes of the block being printed (`CopyHolds`).  A block is overwritten
  only by the read of a block `Dim` further on: `SlotsDiffer`.
  The last section is about the masking: `GetIsSlot` for every index, from it
  `MaskAlwaysSlot`.  It is by induction on halving (`HalvingInduction`, from
  `WFMin`): `AndExists` builds the function that `BitAnd` is, `AndRule` unfolds it a
  bit at a time, `PowerHalves` says that a number above 1 that passes
  `is_powerOf2` is even and its half passes too, and `MaskIsMod` that masking by one less than such a
  number is the remainder.
- `FrameFilterProofs`: `FilterInvariant`, from it `FilterTypes`, `MsgInBounds`,
  `FramesHaveTheirLength` and `TextFits`.  The strengthening is `PendingInInput`
  (the bytes of the frame in progress are the last of the input) and `RoomLeft`
  (how much of `filtered` the block at hand can still use).
  `StreamInvariant` is the stronger one, from it `FramesAreThoseSent` and
  `TextIsKept`: streaming equals `Batch`.  Its strengthening is `PendingIsRest`: the
  frame in progress is what `Batch` leaves over, and `checksum` its sum.  The
  argument is `BatchStep`: one byte more adds to frames, text or rest what
  `Extended` says, whatever lies before, and that is what the three actions do.
  The recursive functions are dealt with as follows.  The library's induction
  theorems cannot be used, since they take an operator; `SetInduction` and
  `DownInduction` state induction over sets of indices and follow from `WFMin`.
  `BatchesExist` and `SumsExist` build the function an index at a time, after which
  `BatchesRule` and `SumsRule` may unfold the definition.
- `TestMenuProofs`, first section: `LuaInvariant`, from it `NoRequestLost`,
  `FetchesAsked`, `AbortsKillOne`, `AbortNames` and `RunningIsTold`.  `AbortsCounted`
  is what makes the count of aborts inductive, `WakeUpsDue` that of fetches,
  `CtorFirst` excludes calls before the constructor returned.
  Then what lies under the liveness properties, short of fairness.
  `NeverJoinsDeaf`: the thread that `reset` joins has been told to end.
  `AbortsStand`: nothing withdraws a pending abort, which needs that an abort of the
  first thread named its state or none (`AbortKnown`).  `ResetsNear` and
  `RequestsNear` give the thread's places numbers that every step makes smaller
  while `reset` joins, or while a function asked for is not fetched.  They except a
  registration, of which a script makes finitely many, and a new call.  A function
  that does not return takes no step, which is why `ResetEnds` needs that they do.
- `TestMenuProofs`, second section: `MenuIsLuaThread` (`MenuSpec => Spec`) shows that every step of
  the menu is one of `LuaThread` or a stutter, so that `LuaInv` is there to start
  from.  `MenuInvariant` adds which items there are (`ItemsKnown`), what the two
  requests remembered are (`Requests`) and how far an abort reaches (`Aim`); from it
  `MenuFresh`, `StaleCallsExplained`, `RefsMissing` and `AbortsAim`.
- `SerialLogProofs`: `LogInvariant`, from it `StreamLogged`, `Durable`,
  `OnlyTwoCauses` and `MarkTruth`.  The argument: at most one file is open, the one
  `fLog` names (`OneOpen`); where the window is in its callback tells mark, name and
  pointer (`Stages`); the loop holds the open file unless the window was in `log`
  during the block (`LoopSees`).
- `LifecycleProofs`: `TransmitInvariant` and, from it, `SentInOrder` and
  `MessagesWhole`, for the senders in the whole program, where a port that is
  not open fails every call.  What is out was handed over before (`PastOnly`) makes
  the order inductive.  For whole messages `WireInv` adds that of two senders in the
  middle of a message both messages are marked (`OverlapMarked`), so that a message
  that is still intact and under way is what was put out last (`IntactIsLast`).
  `LifeInvariant`, from it `PortIsThere` and `NothingLeft`.  `NeverJoinsUntold` says
  that whoever is joined has been told to end.  `EndsNear`: once the window is closed
  `ClosingLeft`, which counts what the threads, the console input and the driver
  still have to do, becomes smaller with every step but a key pressed and a message
  that a function begins.  That is `ProgramEnds` short of fairness.
- `ConsoleTextProofs`: `ConsoleIsFilter` (`ConsoleSpec => Spec`) brings the parser's
  invariant along; `ConsoleInvariant`, from it `NewestKept`, `LossExplained`,
  `TrimsOnce` and `BufferBounded`.  `DisplayKeepsStream` takes both invariants
  together: what is displayed is an unbroken part of the text that `Batch` finds in
  the bytes that arrived.
- `CommandHistoryProofs`: `HistoryInvariant`, from it `ListOfFirsts` and `ButtonTruth`.
  The list is described by the increasing function from its lines to the commands
  typed; `AllListed` (a command typed is in the list in some spelling) is what
  `add_unique`'s search needs to tell a first use from a repetition.
- `PortDialogProofs`: `PortInvariant`, from it `EnumerationReleases`, `OnlyGrownLeak`
  and `DeathsHaveCauses`.  `HeldWhere` tells for every place of the enumeration what
  is held there, so that a return from any of them can be seen to give up all;
  `SelectionKept` and `TroubleSeen` carry what the dialog listed to the moment at
  which the port is opened.

Assumptions: `Dim` divides the range of the indices (both are powers of two) and
is at least 2, `MaxLag < IdxMod`; for the masking, `Dim` is an index that passes
`is_powerOf2`; bytes are below `ByteMod`; `Null` is no address;
the limit of the display is not 0 and a line break is not NUL; there are finitely
many ports; bounds are natural numbers.

Only model-checked: the liveness properties (the prover does not handle
fairness), and with them that `TestMenu` refines the fairness of `LuaThread`.  For
`RequestServed`, `ResetEnds` and `ProgramEnds` the safety they rest on is proved;
that a step is taken while one is left, and so that the numbers get to 0, is the
fairness and the absence of waiting that TLC checks.
`SerialOptions` has no theorem: its one property is violated.  Every safety
property of the other runs is proved.

## 6. What is not modelled, and why

- FLTK's memory: `tests_menu.add` runs on the Lua thread without a lock, and FLTK
  passes the menu button, not the `luaThread`, to an item's callback when it
  handles a shortcut or a popup by itself (`main_fltk.cpp:331`, `339`).  What that
  does to memory is not a matter of the repository's code alone.
- Output and layout: the printing of frames, the font sizes, the colours, the
  hidden console window.
- Coroutines of Lua, `transmit_bytes`, and the Lua functions that are never
  installed.
- The methods of `enumser` that the program does not call.
- `main_iup.cpp`, `main_nana.cpp` and `registers.cpp`: not built; the two front ends
  use members that `serial_t` no longer has, the register list is unfinished.
- `main.cpp`, `bob.h`, `stdafx.h`: output helpers and abbreviations.
- `duktape-1.4.0` is a vendored JavaScript engine, in three copies of its source,
  that no file of the program includes.  It is nearly all of the repository's lines
  and none of its program, and the share of the repository that these modules model
  is small for that reason only.
