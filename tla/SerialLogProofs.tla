-------------------------- MODULE SerialLogProofs --------------------------
(***************************************************************************)
(* For files and blocks of any number and size: a log file holds the       *)
(* stream without a gap, what was logged before the block at hand is on    *)
(* disk, and undefined behaviour has the two causes DamageExplained names. *)
(***************************************************************************)
EXTENDS SerialLog, SequenceTheorems, TLAPS

LEMMA Constants ==
  Null \notin Addr /\ MaxBlock \in Nat /\ MaxBytes \in Nat /\ MaxFiles \in Nat
BY LogAssumption DEF LogAssumption

LEMMA InitLog == Init => LogInv
<1> SUFFICES ASSUME Init PROVE LogInv
  OBVIOUS
<1> USE Constants DEF Init
<1>1. TypeOK
  <2>1. /\ checked \in BOOLEAN /\ want \in BOOLEAN /\ overlap \in BOOLEAN
    OBVIOUS
  <2>2. /\ slot \in [Addr -> 0 .. Len(files)]
        /\ files \in Seq(Seq(Nat)) /\ disk \in Seq(Nat) /\ from \in Seq(Nat)
        /\ Len(disk) = Len(files) /\ Len(from) = Len(files)
    OBVIOUS
  <2>3. /\ win \in InLog \cup {"idle", "choose", "dtor", "gone"}
        /\ rd \in {"wait", "log", "ended"}
        /\ left \in Nat /\ seen \in Nat
        /\ damage \in {"none", "race", "twice"}
    OBVIOUS
  <2> QED
    BY <2>1, <2>2, <2>3, Zenon DEF TypeOK
<1>2. LogIsStream /\ OnDisk
  BY DEF LogIsStream, OnDisk
<1>3. DamageExplained /\ OneOpen /\ Stages /\ LoopSees
  BY DEF DamageExplained, OneOpen, Stages, LoopSees, FileClosed
<1> QED
  BY <1>1, <1>2, <1>3 DEF LogInv

LEMMA ToggleKeeps == LogInv /\ Toggle => LogInv'
<1> SUFFICES ASSUME LogInv, Toggle PROVE LogInv'
  OBVIOUS
<1> USE Constants DEF LogInv, file, window, loop, At, Overlap, Toggle, InLoop
<1>1. TypeOK'
  BY DEF TypeOK, InLog
<1>2. LogIsStream'
  BY DEF LogIsStream, Open
<1>3. DamageExplained'
  BY DEF DamageExplained
<1>4. damage' = "none" => OneOpen'
  BY DEF OneOpen, FileClosed, InLog, Stages
<1>5. damage' = "none" => Stages'
  <2>1. rd' # "ended" /\ rd' = rd /\ fLog' = fLog
    BY DEF Stages
  <2>2. CASE checked
    <3>1. ~ checked' /\ ~ want' /\ win' = "test"
      BY <2>2, Zenon
    <3> QED
      BY <2>1, <3>1 DEF Stages
  <2>3. CASE ~ checked
    <3>1. checked' /\ win' = "choose" /\ fLog = Null
      BY <2>3, Zenon DEF Stages
    <3> QED
      BY <2>1, <3>1 DEF Stages
  <2> QED
    BY <2>2, <2>3
<1>6. damage' = "none" => LoopSees'
  BY DEF LoopSees
<1>7. damage' = "none" => OnDisk'
  BY DEF OnDisk, Open
<1> QED
  BY <1>1, <1>2, <1>3, <1>4, <1>5, <1>6, <1>7

LEMMA ChooseKeeps == LogInv /\ Choose => LogInv'
<1> SUFFICES ASSUME LogInv, Choose PROVE LogInv'
  OBVIOUS
<1> USE Constants DEF LogInv, file, window, loop, At, Overlap, Choose, InLoop
<1>1. TypeOK'
  BY DEF TypeOK, InLog
<1>2. LogIsStream'
  BY DEF LogIsStream, Open
<1>3. DamageExplained'
  BY DEF DamageExplained
<1>4. damage' = "none" => OneOpen'
  BY DEF OneOpen, FileClosed, InLog, Stages
<1>5. damage' = "none" => Stages'
  <2>1. rd' # "ended" /\ rd' = rd /\ fLog' = fLog
    BY DEF Stages
  <2>2. checked' /\ want' /\ win' = "test" /\ fLog = Null
    BY Zenon DEF Stages
  <2> QED
    BY <2>1, <2>2 DEF Stages
<1>6. damage' = "none" => LoopSees'
  BY DEF LoopSees
<1>7. damage' = "none" => OnDisk'
  BY DEF OnDisk, Open
<1> QED
  BY <1>1, <1>2, <1>3, <1>4, <1>5, <1>6, <1>7

LEMMA CancelKeeps == LogInv /\ Cancel => LogInv'
<1> SUFFICES ASSUME LogInv, Cancel PROVE LogInv'
  OBVIOUS
<1> USE Constants DEF LogInv, file, window, loop, At, Overlap, Cancel, InLoop
<1>1. TypeOK'
  BY DEF TypeOK, InLog
<1>2. LogIsStream'
  BY DEF LogIsStream, Open
<1>3. DamageExplained'
  BY DEF DamageExplained
<1>4. damage' = "none" => OneOpen'
  BY DEF OneOpen, FileClosed, InLog
<1>5. damage' = "none" => Stages'
  BY DEF Stages, InLog
<1>6. damage' = "none" => LoopSees'
  BY DEF LoopSees
<1>7. damage' = "none" => OnDisk'
  BY DEF OnDisk, Open
<1> QED
  BY <1>1, <1>2, <1>3, <1>4, <1>5, <1>6, <1>7

LEMMA LogTestKeeps == LogInv /\ LogTest => LogInv'
<1> SUFFICES ASSUME LogInv, LogTest PROVE LogInv'
  OBVIOUS
<1> USE Constants DEF LogInv, file, window, loop, At, Overlap, LogTest, InLoop
<1>1. TypeOK'
  BY DEF TypeOK, InLog
<1>2. LogIsStream'
  BY DEF LogIsStream, Open
<1>3. DamageExplained'
  BY DEF DamageExplained
<1>4. damage' = "none" => OneOpen'
  BY DEF OneOpen, FileClosed, InLog
<1>5. damage' = "none" => Stages'
  BY DEF Stages, InLog
<1>6. damage' = "none" => LoopSees'
  BY DEF LoopSees
<1>7. damage' = "none" => OnDisk'
  BY DEF OnDisk, Open
<1> QED
  BY <1>1, <1>2, <1>3, <1>4, <1>5, <1>6, <1>7

LEMMA LogFailsKeeps == LogInv /\ LogFails => LogInv'
<1> SUFFICES ASSUME LogInv, LogFails PROVE LogInv'
  OBVIOUS
<1> USE Constants DEF LogInv, file, window, loop, At, Overlap, LogFails, InLoop
<1>1. TypeOK'
  BY DEF TypeOK, InLog
<1>2. LogIsStream'
  BY DEF LogIsStream, Open
<1>3. DamageExplained'
  BY DEF DamageExplained
<1>4. damage' = "none" => OneOpen'
  BY DEF OneOpen, FileClosed, InLog
<1>5. damage' = "none" => Stages'
  BY DEF Stages, InLog
<1>6. damage' = "none" => LoopSees'
  BY DEF LoopSees
<1>7. damage' = "none" => OnDisk'
  BY DEF OnDisk, Open
<1> QED
  BY <1>1, <1>2, <1>3, <1>4, <1>5, <1>6, <1>7

LEMMA LogOffKeeps == LogInv /\ LogOff => LogInv'
<1> SUFFICES ASSUME LogInv, LogOff PROVE LogInv'
  OBVIOUS
<1> USE Constants DEF LogInv, file, window, loop, At, Overlap, LogOff, InLoop
<1>1. TypeOK'
  BY DEF TypeOK, InLog
<1>2. LogIsStream'
  BY DEF LogIsStream, Open
<1>3. DamageExplained'
  BY DEF DamageExplained
<1>4. damage' = "none" => OneOpen'
  BY DEF OneOpen, FileClosed, InLog
<1>5. damage' = "none" => Stages'
  BY DEF Stages, InLog
<1>6. damage' = "none" => LoopSees'
  BY DEF LoopSees
<1>7. damage' = "none" => OnDisk'
  BY DEF OnDisk, Open
<1> QED
  BY <1>1, <1>2, <1>3, <1>4, <1>5, <1>6, <1>7

LEMMA QuitKeeps == LogInv /\ Quit => LogInv'
<1> SUFFICES ASSUME LogInv, Quit PROVE LogInv'
  OBVIOUS
<1> USE Constants DEF LogInv, file, window, loop, At, Overlap, Quit, InLoop
<1>1. TypeOK'
  BY DEF TypeOK, InLog
<1>2. LogIsStream'
  BY DEF LogIsStream, Open
<1>3. DamageExplained'
  BY DEF DamageExplained
<1>4. damage' = "none" => OneOpen'
  BY DEF OneOpen, FileClosed, InLog
<1>5. damage' = "none" => Stages'
  BY DEF Stages, InLog
<1>6. damage' = "none" => LoopSees'
  BY DEF LoopSees
<1>7. damage' = "none" => OnDisk'
  BY DEF OnDisk, Open
<1> QED
  BY <1>1, <1>2, <1>3, <1>4, <1>5, <1>6, <1>7

LEMMA SkipCRKeeps == LogInv /\ SkipCR => LogInv'
<1> SUFFICES ASSUME LogInv, SkipCR PROVE LogInv'
  OBVIOUS
<1> USE Constants DEF LogInv, file, window, loop, At, Overlap, SkipCR, InLoop
<1>1. TypeOK'
  BY DEF TypeOK, InLog
<1>2. LogIsStream'
  BY DEF LogIsStream, Open
<1>3. DamageExplained'
  BY DEF DamageExplained
<1>4. damage' = "none" => OneOpen'
  BY DEF OneOpen, FileClosed, InLog
<1>5. damage' = "none" => Stages'
  BY DEF Stages, InLog
<1>6. damage' = "none" => LoopSees'
  BY DEF LoopSees
<1>7. damage' = "none" => OnDisk'
  BY DEF OnDisk, Open
<1> QED
  BY <1>1, <1>2, <1>3, <1>4, <1>5, <1>6, <1>7

LEMMA LogNullKeeps == LogInv /\ LogNull => LogInv'
<1> SUFFICES ASSUME LogInv, LogNull PROVE LogInv'
  OBVIOUS
<1> USE Constants DEF LogInv, file, window, loop, At, Overlap, LogNull, InLoop
<1>1. TypeOK'
  BY DEF TypeOK, InLog
<1>2. LogIsStream'
  BY DEF LogIsStream, Open
<1>3. DamageExplained'
  BY DEF DamageExplained
<1>4. damage' = "none" => OneOpen'
  BY DEF OneOpen, FileClosed, TypeOK, Stages
<1>5. damage' = "none" => Stages'
  BY DEF Stages, InLog
<1>6. damage' = "none" => LoopSees'
  BY DEF LoopSees
<1>7. damage' = "none" => OnDisk'
  BY DEF OnDisk, Open
<1> QED
  BY <1>1, <1>2, <1>3, <1>4, <1>5, <1>6, <1>7

\* The three sequences have one entry per file.
LEMMA FileTypes ==
  TypeOK => /\ Len(files) \in Nat /\ DOMAIN files = 1 .. Len(files)
            /\ DOMAIN disk = DOMAIN files /\ DOMAIN from = DOMAIN files
            /\ \A f \in DOMAIN files : /\ files[f] \in Seq(Nat) /\ Len(files[f]) \in Nat
                                      /\ disk[f] \in Nat /\ from[f] \in Nat
<1> SUFFICES ASSUME TypeOK PROVE /\ Len(files) \in Nat /\ DOMAIN files = 1 .. Len(files)
            /\ DOMAIN disk = DOMAIN files /\ DOMAIN from = DOMAIN files
            /\ \A f \in DOMAIN files : /\ files[f] \in Seq(Nat) /\ Len(files[f]) \in Nat
                                      /\ disk[f] \in Nat /\ from[f] \in Nat
  OBVIOUS
<1>1. /\ files \in Seq(Seq(Nat)) /\ disk \in Seq(Nat) /\ from \in Seq(Nat)
      /\ Len(disk) = Len(files) /\ Len(from) = Len(files)
  BY DEF TypeOK
<1> QED
  BY <1>1

\* fclose keeps the types: it changes one entry of disk and frees one address.
LEMMA FcloseTypes ==
  ASSUME LogInv, fLog # Null, Fclose, UNCHANGED files
  PROVE  /\ slot' \in [Addr -> 0 .. Len(files)]
         /\ disk' \in Seq(Nat) /\ Len(disk') = Len(disk)
         /\ damage' \in {damage, "twice"}
<1>1. CASE slot[fLog] = 0
  BY <1>1 DEF Fclose, LogInv, TypeOK
<1>2. CASE slot[fLog] # 0
  <2>1. slot[fLog] \in 1 .. Len(disk) /\ Len(files[slot[fLog]]) \in Nat
    BY <1>2 DEF LogInv, TypeOK
  <2>2. disk' = [disk EXCEPT ![slot[fLog]] = Len(files[slot[fLog]])]
    BY <1>2 DEF Fclose
  <2>3. disk' \in Seq(Nat) /\ Len(disk') = Len(disk)
    BY <2>1, <2>2, ExceptSeq DEF LogInv, TypeOK
  <2> QED
    BY <1>2, <2>3 DEF Fclose, LogInv, TypeOK
<1> QED
  BY <1>1, <1>2

LEMMA LogCloseKeeps == LogInv /\ LogClose => LogInv'
<1> SUFFICES ASSUME LogInv, LogClose PROVE LogInv'
  OBVIOUS
<1> USE Constants DEF LogInv, file, window, loop, At, Overlap, LogClose, InLoop
<1>1. TypeOK'
  <2>1. fLog # Null
    BY DEF Stages
  <2>2. CASE Fclose
    BY <2>1, <2>2, FcloseTypes DEF TypeOK, InLog
  <2>3. CASE ~ Fclose
    BY <2>3 DEF TypeOK, InLog
  <2> QED
    BY <2>2, <2>3
<1>2. LogIsStream'
  BY DEF LogIsStream, Open, Fclose, OneOpen, TypeOK, Stages
<1>3. DamageExplained'
  BY DEF DamageExplained, Fclose, OneOpen, FileClosed, Stages, TypeOK
<1>4. damage' = "none" => OneOpen'
  BY DEF OneOpen, FileClosed, TypeOK, Fclose, Stages
<1>5. damage' = "none" => Stages'
  BY DEF Stages, InLog, Fclose, OneOpen, FileClosed, TypeOK
<1>6. damage' = "none" => LoopSees'
  BY DEF LoopSees
<1>7. damage' = "none" => OnDisk'
  BY DEF OnDisk, Open, Fclose, TypeOK, OneOpen
<1> QED
  BY <1>1, <1>2, <1>3, <1>4, <1>5, <1>6, <1>7

\* A file opened now is empty, and its stream begins here.
LEMMA OpenedStream ==
  ASSUME TypeOK, LogIsStream,
         files' = Append(files, << >>), from' = Append(from, seen),
         UNCHANGED <<seen, damage>>,
         \A f \in DOMAIN files : Open(f)' => Open(f)
  PROVE  LogIsStream'
<1> DEFINE n == Len(files)
<1>1. /\ DOMAIN files = 1 .. n /\ n \in Nat /\ DOMAIN files' = 1 .. n + 1
      /\ Len(files'[n + 1]) = 0 /\ from'[n + 1] = seen
      /\ \A f \in 1 .. n : files'[f] = files[f] /\ from'[f] = from[f]
      /\ seen' = seen /\ damage' = damage /\ seen \in Nat
  BY DEF TypeOK
<1> HIDE DEF n
<1>2. ASSUME NEW f \in 1 .. n + 1
      PROVE  /\ \A i \in 1 .. Len(files'[f]) : files'[f][i] = from'[f] + i
             /\ Open(f)' /\ damage' = "none" => from'[f] + Len(files'[f]) = seen'
  <2>1. CASE f \in 1 .. n
    BY <1>1, <2>1 DEF LogIsStream
  <2>2. CASE f = n + 1
    <3> DEFINE x == files'[f]
               y == from'[f]
    <3>1. Len(x) = 0 /\ y = seen /\ seen' = seen /\ seen \in Nat
      BY <1>1, <2>2
    <3> HIDE DEF x, y
    <3>2. (\A i \in 1 .. Len(x) : x[i] = y + i) /\ y + Len(x) = seen'
      BY <3>1
    <3> QED
      BY <3>2, Zenon DEF x, y
  <2>3. f \in 1 .. n \/ f = n + 1
    BY <1>1
  <2> QED
    BY <2>1, <2>2, <2>3, Zenon
<1> QED
  BY <1>1, <1>2 DEF LogIsStream

LEMMA LogOpenKeeps == LogInv /\ LogOpen => LogInv'
<1> SUFFICES ASSUME LogInv, LogOpen PROVE LogInv'
  OBVIOUS
<1> USE Constants DEF LogInv, file, window, loop, At, Overlap, LogOpen, InLoop
<1>1. TypeOK'
  BY DEF TypeOK, InLog, Stages
<1>2. LogIsStream'
  <2>1. \A f \in DOMAIN files : Open(f)' => Open(f)
    BY DEF Open, TypeOK
  <2> QED
    BY <2>1, OpenedStream
<1>3. DamageExplained'
  BY DEF DamageExplained, Stages
<1>4. damage' = "none" => OneOpen'
  BY DEF OneOpen, FileClosed, TypeOK, Stages
<1>5. damage' = "none" => Stages'
  BY DEF Stages, TypeOK, InLog
<1>6. damage' = "none" => LoopSees'
  BY DEF LoopSees
<1>7. damage' = "none" => OnDisk'
  BY DEF OnDisk, Open, TypeOK
<1> QED
  BY <1>1, <1>2, <1>3, <1>4, <1>5, <1>6, <1>7

LEMMA DestroyKeeps == LogInv /\ Destroy => LogInv'
<1> SUFFICES ASSUME LogInv, Destroy PROVE LogInv'
  OBVIOUS
<1> USE Constants DEF LogInv, file, window, loop, At, Overlap, Destroy, InLoop
<1>1. TypeOK'
  <2>1. CASE fLog = Null
    BY <2>1 DEF TypeOK, InLog
  <2>2. CASE fLog # Null
    BY <2>2, FcloseTypes DEF TypeOK, InLog
  <2> QED
    BY <2>1, <2>2
<1>2. LogIsStream'
  BY DEF LogIsStream, Open, Fclose, OneOpen, TypeOK, Stages
<1>3. DamageExplained'
  BY DEF DamageExplained, Fclose, OneOpen, FileClosed, Stages, TypeOK
<1>4. damage' = "none" => OneOpen'
  BY DEF OneOpen, FileClosed, TypeOK, Fclose, Stages
<1>5. damage' = "none" => Stages'
  BY DEF Stages, InLog, Fclose, OneOpen, FileClosed, TypeOK
<1>6. damage' = "none" => LoopSees'
  BY DEF LoopSees, Stages
<1>7. damage' = "none" => OnDisk'
  <2>1. \A f \in DOMAIN files : disk[f] = Len(files[f])
    BY DEF OnDisk, Stages
  <2>2. disk' = disk \/ disk' = [disk EXCEPT ![slot[fLog]] = Len(files[slot[fLog]])]
    BY DEF Fclose
  <2>3. \A f \in DOMAIN files : disk'[f] = Len(files[f])
    BY <2>1, <2>2, FileTypes
  <2> QED
    BY <2>3 DEF OnDisk
<1> QED
  BY <1>1, <1>2, <1>3, <1>4, <1>5, <1>6, <1>7

LEMMA BlockKeeps == LogInv /\ Block => LogInv'
<1> SUFFICES ASSUME LogInv, Block PROVE LogInv'
  OBVIOUS
<1> USE Constants DEF LogInv, file, window, loop, At, Overlap, Block, InLoop
<1>1. TypeOK'
  BY DEF TypeOK, InLog
<1>2. LogIsStream'
  <2>1. ASSUME NEW f \in DOMAIN files, Open(f) PROVE fLog # Null
    BY <2>1 DEF Open, OneOpen, TypeOK
  <2>2. ASSUME NEW f \in DOMAIN files, Open(f) PROVE seen' = seen
    <3>1. PICK n \in 0 .. MaxBlock :
            IF fLog # Null /\ n > 0 THEN UNCHANGED seen ELSE \E k \in 0 .. n : seen' = seen + k
      OBVIOUS
    <3>2. CASE n > 0
      BY <2>1, <2>2, <3>1, <3>2
    <3>3. CASE n = 0
      BY <3>1, <3>3 DEF TypeOK
    <3> QED
      BY <3>2, <3>3
  <2> QED
    BY <2>2 DEF LogIsStream, Open
<1>3. DamageExplained'
  BY DEF DamageExplained
<1>4. damage' = "none" => OneOpen'
  BY DEF OneOpen, FileClosed, InLog, TypeOK
<1>5. damage' = "none" => Stages'
  BY DEF Stages, InLog
<1>6. damage' = "none" => LoopSees'
  BY DEF LoopSees, OneOpen, FileClosed, Stages, TypeOK, InLog
<1>7. damage' = "none" => OnDisk'
  BY DEF OnDisk, Open
<1> QED
  BY <1>1, <1>2, <1>3, <1>4, <1>5, <1>6, <1>7

\* Only the open file grows, and it stays a part of the stream.
LEMMA WrittenStream ==
  ASSUME LogIsStream, NEW k \in DOMAIN files, DOMAIN files' = DOMAIN files,
         UNCHANGED <<slot, from>>,
         \A f \in DOMAIN files : f # k => files'[f] = files[f] /\ ~ Open(f),
         \A i \in 1 .. Len(files'[k]) : files'[k][i] = from[k] + i,
         from[k] + Len(files'[k]) = seen'
  PROVE  LogIsStream'
<1>1. ASSUME NEW f \in DOMAIN files
      PROVE  /\ \A i \in 1 .. Len(files'[f]) : files'[f][i] = from'[f] + i
             /\ Open(f)' /\ damage' = "none" => from'[f] + Len(files'[f]) = seen'
  <2>1. CASE f = k
    BY <2>1
  <2>2. CASE f # k
    <3>1. ~ Open(f)' /\ files'[f] = files[f]
      BY <2>2 DEF Open
    <3>2. \A i \in 1 .. Len(files[f]) : files[f][i] = from[f] + i
      BY DEF LogIsStream
    <3> QED
      BY <3>1, <3>2
  <2> QED
    BY <2>1, <2>2
<1> QED
  BY <1>1 DEF LogIsStream

LEMMA PutKeeps == LogInv /\ Put => LogInv'
<1> SUFFICES ASSUME LogInv, Put PROVE LogInv'
  OBVIOUS
<1> USE Constants DEF LogInv, file, window, loop, At, Overlap, Put, InLoop
<1>1. TypeOK'
  <2>1. PICK p \in Pointers : /\ held' = p
                           /\ IF IsOpen(p)
                              THEN /\ files' = [files EXCEPT ![slot[p]] = Append(@, seen + 1)]
                                   /\ UNCHANGED damage
                              ELSE damage' = "race" /\ UNCHANGED files
    OBVIOUS
  <2>2. p \in Addr \cup {Null}
    BY DEF Pointers, TypeOK
  <2>3. CASE IsOpen(p)
    <3>1. slot[p] \in 1 .. Len(files) /\ files[slot[p]] \in Seq(Nat) /\ seen + 1 \in Nat
      <4>1. slot[p] \in 1 .. Len(files) /\ seen + 1 \in Nat
        BY <2>2, <2>3 DEF IsOpen, TypeOK
      <4> QED
        BY <4>1, FileTypes
    <3>2. Append(files[slot[p]], seen + 1) \in Seq(Nat)
      BY <3>1
    <3>3. files' = [files EXCEPT ![slot[p]] = Append(files[slot[p]], seen + 1)] /\ UNCHANGED damage
      BY <2>1, <2>3
    <3>4. files' \in Seq(Seq(Nat)) /\ Len(files') = Len(files)
      BY <3>1, <3>2, <3>3, ExceptSeq DEF TypeOK
    <3> QED
      BY <2>1, <2>2, <3>3, <3>4 DEF TypeOK
  <2>4. CASE ~ IsOpen(p)
    BY <2>1, <2>2, <2>4 DEF TypeOK
  <2> QED
    BY <2>3, <2>4
<1>2. LogIsStream'
  <2>1. PICK p \in Pointers : /\ held' = p
                           /\ IF IsOpen(p)
                              THEN /\ files' = [files EXCEPT ![slot[p]] = Append(@, seen + 1)]
                                   /\ UNCHANGED damage
                              ELSE damage' = "race" /\ UNCHANGED files
    OBVIOUS
  <2>2. p \in Addr \cup {Null}
    BY DEF Pointers, TypeOK
  <2>3. CASE IsOpen(p)
    <3>1. p \in Addr /\ slot[p] \in 1 .. Len(files) /\ p = fLog
      BY <2>2, <2>3 DEF IsOpen, TypeOK, OneOpen
    <3>2. files[slot[p]] \in Seq(Nat) /\ seen + 1 \in Nat /\ from[slot[p]] \in Nat
      <4>1. seen + 1 \in Nat
        BY DEF TypeOK
      <4> QED
        BY <3>1, <4>1, FileTypes
    <3>3. \A f \in DOMAIN files : Open(f) => f = slot[p]
      BY <3>1 DEF Open, OneOpen
    <3>4. from[slot[p]] + Len(files[slot[p]]) = seen
      BY <3>1 DEF LogIsStream, Open
    <3>5. files' = [files EXCEPT ![slot[p]] = Append(files[slot[p]], seen + 1)]
      BY <2>1, <2>3
    <3>6. ASSUME NEW f \in DOMAIN files, f # slot[p] PROVE files'[f] = files[f] /\ ~ Open(f)
      BY <3>3, <3>5, <3>6
    <3>7. files'[slot[p]] = Append(files[slot[p]], seen + 1) /\ DOMAIN files' = DOMAIN files
      BY <3>1, <3>5 DEF TypeOK
    <3>8. \A i \in 1 .. Len(files'[slot[p]]) : files'[slot[p]][i] = from[slot[p]] + i
      BY <3>1, <3>2, <3>4, <3>7 DEF LogIsStream
    <3>9. from[slot[p]] + Len(files'[slot[p]]) = seen'
      <4>1. Len(Append(files[slot[p]], seen + 1)) = Len(files[slot[p]]) + 1
        BY <3>2
      <4>2. Len(files[slot[p]]) \in Nat /\ seen' = seen + 1
        BY <3>2
      <4>3. Len(files'[slot[p]]) = Len(files[slot[p]]) + 1
        BY <3>7, <4>1
      <4>4. \A x, y, z \in Nat : x + y = z => x + (y + 1) = z + 1
        OBVIOUS
      <4>5. seen \in Nat
        BY DEF TypeOK
      <4> QED
        BY <3>2, <3>4, <4>2, <4>3, <4>4, <4>5
    <3>10. slot[p] \in DOMAIN files /\ UNCHANGED <<slot, from>>
      BY <3>1 DEF TypeOK
    <3> DEFINE k == slot[p]
    <3>11. /\ k \in DOMAIN files /\ DOMAIN files' = DOMAIN files
           /\ \A f \in DOMAIN files : f # k => files'[f] = files[f] /\ ~ Open(f)
           /\ \A i \in 1 .. Len(files'[k]) : files'[k][i] = from[k] + i
           /\ from[k] + Len(files'[k]) = seen'
      BY <3>6, <3>7, <3>8, <3>9, <3>10
    <3> HIDE DEF k
    <3> QED
      BY <3>10, <3>11, WrittenStream
  <2>4. CASE ~ IsOpen(p)
    BY <2>1, <2>4 DEF LogIsStream, Open
  <2> QED
    BY <2>3, <2>4
<1>3. DamageExplained'
  BY DEF DamageExplained, Pointers, IsOpen, LoopSees
<1>4. damage' = "none" => OneOpen'
  BY DEF OneOpen, FileClosed, InLog, TypeOK
<1>5. damage' = "none" => Stages'
  BY DEF Stages, InLog
<1>6. damage' = "none" => LoopSees'
  BY DEF LoopSees, Pointers, IsOpen
<1>7. damage' = "none" => OnDisk'
  BY DEF OnDisk, Open, TypeOK, Pointers, IsOpen
<1> QED
  BY <1>1, <1>2, <1>3, <1>4, <1>5, <1>6, <1>7

LEMMA FlushKeeps == LogInv /\ Flush => LogInv'
<1> SUFFICES ASSUME LogInv, Flush PROVE LogInv'
  OBVIOUS
<1> USE Constants DEF LogInv, file, window, loop, At, Overlap, Flush, InLoop
<1>1. TypeOK'
  <2>1. PICK p \in Pointers :
           /\ held' = p
           /\ \/ /\ p = Null
                 /\ disk' = [f \in DOMAIN disk |-> Len(files[f])] /\ UNCHANGED damage
              \/ /\ IsOpen(p)
                 /\ disk' = [disk EXCEPT ![slot[p]] = Len(files[slot[p]])] /\ UNCHANGED damage
              \/ /\ p # Null /\ ~ IsOpen(p)
                 /\ damage' = "race" /\ UNCHANGED disk
    OBVIOUS
  <2>2. p \in Addr \cup {Null}
    BY DEF Pointers, TypeOK
  <2>3. disk' \in Seq(Nat) /\ Len(disk') = Len(disk)
    <3>1. CASE p = Null
      <4>1. disk' = [f \in 1 .. Len(disk) |-> Len(files[f])]
        BY <2>1, <3>1, FileTypes DEF IsOpen
      <4>2. \A f \in 1 .. Len(disk) : Len(files[f]) \in Nat
        BY FileTypes DEF TypeOK
      <4> QED
        BY <4>1, <4>2 DEF TypeOK
    <3>2. CASE IsOpen(p)
      <4>1. slot[p] \in 1 .. Len(disk) /\ Len(files[slot[p]]) \in Nat
        BY <2>2, <3>2, FileTypes DEF IsOpen, TypeOK
      <4>2. disk' = [disk EXCEPT ![slot[p]] = Len(files[slot[p]])]
        BY <2>1, <3>2 DEF IsOpen
      <4>3. disk \in Seq(Nat)
        BY DEF TypeOK
      <4> QED
        BY <4>1, <4>2, <4>3, ExceptSeq
    <3>3. CASE p # Null /\ ~ IsOpen(p)
      BY <2>1, <3>3 DEF TypeOK
    <3> QED
      BY <3>1, <3>2, <3>3
  <2> QED
    BY <2>1, <2>2, <2>3 DEF TypeOK
<1>2. LogIsStream'
  BY DEF LogIsStream, Open
<1>3. DamageExplained'
  BY DEF DamageExplained, Pointers, IsOpen, LoopSees
<1>4. damage' = "none" => OneOpen'
  BY DEF OneOpen, FileClosed, InLog, TypeOK
<1>5. damage' = "none" => Stages'
  BY DEF Stages, InLog
<1>6. damage' = "none" => LoopSees'
  BY DEF LoopSees
<1>7. damage' = "none" => OnDisk'
  <2> SUFFICES ASSUME damage' = "none" PROVE OnDisk'
    OBVIOUS
  <2>1. PICK p \in Pointers :
           /\ held' = p
           /\ \/ /\ p = Null
                 /\ disk' = [f \in DOMAIN disk |-> Len(files[f])] /\ UNCHANGED damage
              \/ /\ IsOpen(p)
                 /\ disk' = [disk EXCEPT ![slot[p]] = Len(files[slot[p]])] /\ UNCHANGED damage
              \/ /\ p # Null /\ ~ IsOpen(p)
                 /\ damage' = "race" /\ UNCHANGED disk
    OBVIOUS
  <2>2. CASE p = Null
    BY <2>1, <2>2 DEF OnDisk, IsOpen, TypeOK
  <2>3. CASE IsOpen(p)
    <3>1. p \in Addr /\ p = fLog /\ slot[p] \in 1 .. Len(disk)
      BY <2>3, FileTypes DEF IsOpen, Pointers, TypeOK, OneOpen
    <3>2. disk' = [disk EXCEPT ![slot[p]] = Len(files[slot[p]])]
      BY <2>1, <2>3 DEF IsOpen
    <3>3. \A f \in DOMAIN files : Open(f) => f = slot[p]
      BY <3>1, FileTypes DEF Open, OneOpen
    <3>4. \A f \in DOMAIN files : disk'[f] = Len(files[f])
      BY <3>1, <3>2, <3>3, FileTypes DEF OnDisk
    <3> QED
      BY <3>4 DEF OnDisk
  <2> QED
    BY <2>1, <2>2, <2>3
<1> QED
  BY <1>1, <1>2, <1>3, <1>4, <1>5, <1>6, <1>7

LEMMA StutterKeeps == LogInv /\ UNCHANGED vars => LogInv'
BY DEF LogInv, vars, file, window, loop, TypeOK, LogIsStream, DamageExplained, OneOpen,
       FileClosed, Stages, LoopSees, OnDisk, Open, InLog

LEMMA StepKeeps == LogInv /\ [Next]_vars => LogInv'
<1> SUFFICES ASSUME LogInv, Next PROVE LogInv'
  BY StutterKeeps
<1>1. CASE Window
  BY <1>1, ToggleKeeps, ChooseKeeps, CancelKeeps, LogTestKeeps, LogCloseKeeps, LogNullKeeps,
     LogOpenKeeps, LogFailsKeeps, LogOffKeeps, QuitKeeps, DestroyKeeps DEF Window
<1>2. CASE Thread
  BY <1>2, BlockKeeps, SkipCRKeeps, PutKeeps, FlushKeeps DEF Thread
<1> QED
  BY <1>1, <1>2 DEF Next

\* The parts of the invariant, in every reachable state.
THEOREM LogInvariant == Spec => []LogInv
BY InitLog, StepKeeps, PTL DEF Spec

\* A log file has no gap, whenever the menu item is used (serial.cpp:9-20, 87-97).
THEOREM StreamLogged == Spec => []LogIsStream
<1>1. LogInv => LogIsStream
  BY DEF LogInv
<1> QED
  BY <1>1, LogInvariant, PTL

\* Between two blocks everything logged is on disk (serial.cpp:97).
THEOREM Durable == Spec => []BlocksOnDisk
<1>1. LogInv => BlocksOnDisk
  BY DEF LogInv, OnDisk, BlocksOnDisk
<1> QED
  BY <1>1, LogInvariant, PTL

\* A closed FILE is used only when the item was used during a block, and closed
\* twice only when the program ends with the log open.
THEOREM OnlyTwoCauses == Spec => []DamageExplained
<1>1. LogInv => DamageExplained
  BY DEF LogInv
<1> QED
  BY <1>1, LogInvariant, PTL

\* The menu item's mark tells the truth (main_fltk.cpp:273-290).
THEOREM MarkTruth == Spec => []MarkTold
<1>1. LogInv => MarkTold
  BY DEF LogInv, Stages, OneOpen, FileClosed, MarkTold
<1> QED
  BY <1>1, LogInvariant, PTL
=============================================================================
