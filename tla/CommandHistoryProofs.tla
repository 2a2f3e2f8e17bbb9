------------------------ MODULE CommandHistoryProofs ------------------------
(***************************************************************************)
(* For any commands and any number of them: the list holds each command    *)
(* entered once, as and when it was first entered, and the button is down  *)
(* exactly while the list is shown.                                        *)
(***************************************************************************)
EXTENDS CommandHistory, SequenceTheorems, TLAPS

\* What HistoryIsFirsts asks of the positions of the lines.
Places(at) ==
  /\ at \in [DOMAIN history -> DOMAIN typed]
  /\ \A k, m \in DOMAIN history : k < m => at[k] < at[m]
  /\ Range(at) = {i \in DOMAIN typed : IsFirst(i)}
  /\ \A k \in DOMAIN history : history[k] = typed[at[k]]

LEMMA FirstsPlaced == HistoryIsFirsts <=> \E at : Places(at)
BY DEF HistoryIsFirsts, Places

LEMMA InitHistory == HistoryInit => HistoryInv
<1> SUFFICES ASSUME HistoryInit PROVE HistoryInv
  OBVIOUS
<1>1. history = << >> /\ typed = << >> /\ dropdown = FALSE /\ visible = FALSE /\ command = Blank
  BY DEF HistoryInit
<1>2. HistoryTypes
  <2>1. command \in Commands
    BY <1>1 DEF Commands
  <2>2. history \in Seq(Commands) /\ typed \in Seq(Commands)
    BY <1>1
  <2> QED
    BY <1>1, <2>1, <2>2 DEF HistoryTypes
<1>3. DOMAIN history = {} /\ DOMAIN typed = {}
  BY <1>1
<1>4. Places([k \in {} |-> 0])
  BY <1>3 DEF Places, Range
<1>5. HistoryIsFirsts
  BY <1>4, FirstsPlaced
<1>6. AllListed /\ ButtonTellsList
  BY <1>1, <1>3 DEF AllListed, ButtonTellsList
<1> QED
  BY <1>2, <1>5, <1>6 DEF HistoryInv

-----------------------------------------------------------------------------
(* Entering a command.                                                     *)

\* Whether a command entered is the first of its text depends on those before.
LEMMA FirstsStay ==
  ASSUME typed \in Seq(Commands), typed' = Append(typed, command)
  PROVE  \A i \in DOMAIN typed : IsFirst(i)' <=> IsFirst(i)
<1>1. \A i \in DOMAIN typed : typed'[i] = typed[i]
  OBVIOUS
<1>2. \A i \in DOMAIN typed : \A j \in 1 .. i - 1 : j \in DOMAIN typed
  OBVIOUS
<1> QED
  BY <1>1, <1>2 DEF IsFirst

\* A command whose text is in the list leaves the list as it is.
LEMMA KnownCommand ==
  ASSUME HistoryTypes, AllListed, HistoryIsFirsts,
         typed' = Append(typed, command), history' = history,
         NEW line \in DOMAIN history, SameText(history[line], command)
  PROVE  AllListed' /\ HistoryIsFirsts'
<1>0. PICK n : n = Len(typed) + 1
  OBVIOUS
<1>1. n \in Nat /\ DOMAIN typed = 1 .. n - 1 /\ DOMAIN typed' = 1 .. n
  BY <1>0 DEF HistoryTypes
<1>2. typed'[n] = command /\ \A i \in DOMAIN typed : typed'[i] = typed[i]
  BY <1>0 DEF HistoryTypes
<1>3. PICK at : Places(at)
  BY FirstsPlaced
<1>4. at[line] \in DOMAIN typed /\ typed[at[line]] = history[line]
  BY <1>3 DEF Places
<1>5. ~ IsFirst(n)'
  <2>1. at[line] \in 1 .. n - 1 /\ typed'[at[line]] = history[line]
    BY <1>1, <1>2, <1>4
  <2>2. SameText(typed'[at[line]], typed'[n])
    BY <1>2, <2>1
  <2> QED
    BY <2>1, <2>2 DEF IsFirst, SameText
<1>6. {i \in DOMAIN typed' : IsFirst(i)'} = {i \in DOMAIN typed : IsFirst(i)}
  BY <1>1, <1>5, FirstsStay DEF HistoryTypes
<1>7. Places(at)'
  <2>1. at \in [DOMAIN history' -> DOMAIN typed']
    BY <1>1, <1>3 DEF Places
  <2>2. \A k \in DOMAIN history' : history'[k] = typed'[at[k]]
    BY <1>2, <1>3 DEF Places
  <2> QED
    BY <1>3, <1>6, <2>1, <2>2 DEF Places
<1>8. AllListed'
  BY <1>1, <1>2 DEF AllListed
<1> QED
  BY <1>7, <1>8 DEF Places, HistoryIsFirsts

\* A command whose text is not in the list is the first of its text, and is
\* appended.
LEMMA NewCommand ==
  ASSUME HistoryTypes, AllListed, HistoryIsFirsts,
         typed' = Append(typed, command), history' = Append(history, command),
         \A i \in DOMAIN history : ~ SameText(history[i], command)
  PROVE  AllListed' /\ HistoryIsFirsts'
<1>0. PICK n, h : n = Len(typed) + 1 /\ h = Len(history) + 1
  OBVIOUS
<1>1. /\ n \in Nat \ {0} /\ DOMAIN typed = 1 .. n - 1 /\ DOMAIN typed' = 1 .. n
      /\ h \in Nat \ {0} /\ DOMAIN history = 1 .. h - 1 /\ DOMAIN history' = 1 .. h
  BY <1>0 DEF HistoryTypes
<1>2. /\ typed'[n] = command /\ \A i \in DOMAIN typed : typed'[i] = typed[i]
      /\ history'[h] = command /\ \A k \in DOMAIN history : history'[k] = history[k]
  BY <1>0 DEF HistoryTypes
<1>3. PICK at : Places(at)
  BY FirstsPlaced
<1>4. IsFirst(n)'
  <2> SUFFICES ASSUME NEW j \in 1 .. n - 1 PROVE ~ SameText(typed'[j], typed'[n])
    BY <1>1 DEF IsFirst, SameText
  <2>1. PICK k \in DOMAIN history : SameText(history[k], typed[j])
    BY <1>1 DEF AllListed
  <2>2. ~ SameText(history[k], command)
    OBVIOUS
  <2> QED
    BY <1>1, <1>2, <2>1, <2>2 DEF SameText
<1>5. {i \in DOMAIN typed' : IsFirst(i)'} = {i \in DOMAIN typed : IsFirst(i)} \cup {n}
  BY <1>1, <1>4, FirstsStay DEF HistoryTypes
<1> DEFINE later == [k \in 1 .. h |-> IF k = h THEN n ELSE at[k]]
<1>6. /\ later[h] = n /\ DOMAIN later = 1 .. h
      /\ \A k \in DOMAIN history : later[k] = at[k] /\ later[k] \in 1 .. n - 1
  BY <1>1, <1>3 DEF Places
<1>7. later \in [DOMAIN history' -> DOMAIN typed']
  <2>1. \A k \in 1 .. h : k # h => at[k] \in 1 .. n - 1
    BY <1>1, <1>3 DEF Places
  <2>2. \A k \in 1 .. h : (IF k = h THEN n ELSE at[k]) \in 1 .. n
    BY <1>1, <2>1
  <2> QED
    BY <1>1, <2>2
<1> HIDE DEF later
<1>8. \A k, m \in DOMAIN history' : k < m => later[k] < later[m]
  <2> SUFFICES ASSUME NEW k \in 1 .. h, NEW m \in 1 .. h, k < m
               PROVE  later[k] < later[m]
    BY <1>1
  <2>1. k \in DOMAIN history
    BY <1>1
  <2>2. CASE m = h
    BY <1>1, <1>6, <2>1, <2>2
  <2>3. CASE m # h
    <3>1. m \in DOMAIN history
      BY <1>1, <2>3
    <3> QED
      BY <1>3, <1>6, <2>1, <3>1 DEF Places
  <2> QED
    BY <2>2, <2>3
<1>9. Range(later) = Range(at) \cup {n}
  <2>1. DOMAIN later = DOMAIN history \cup {h} /\ DOMAIN at = DOMAIN history
    BY <1>1, <1>3, <1>7 DEF Places
  <2>2. later[h] = n /\ \A k \in DOMAIN at : later[k] = at[k]
    BY <1>6, <2>1
  <2>3. \A x \in Range(later) : x \in Range(at) \cup {n}
    BY <2>1, <2>2, Zenon DEF Range
  <2>4. \A x \in Range(at) \cup {n} : x \in Range(later)
    BY <2>1, <2>2, Zenon DEF Range
  <2> QED
    BY <2>3, <2>4, Zenon
<1>10. \A k \in DOMAIN history' : history'[k] = typed'[later[k]]
  <2> SUFFICES ASSUME NEW k \in 1 .. h PROVE history'[k] = typed'[later[k]]
    BY <1>1
  <2>1. CASE k = h
    BY <1>2, <1>6, <2>1
  <2>2. CASE k # h
    <3>1. k \in DOMAIN history
      BY <1>1, <2>2
    <3>2. later[k] = at[k] /\ at[k] \in DOMAIN typed /\ history[k] = typed[at[k]]
      BY <1>3, <1>6, <3>1 DEF Places
    <3>3. history'[k] = history[k] /\ typed'[at[k]] = typed[at[k]]
      BY <1>2, <3>1, <3>2
    <3> QED
      BY <3>2, <3>3
  <2> QED
    BY <2>1, <2>2
<1>11. Places(later)'
  <2>1. Range(at) = {i \in DOMAIN typed : IsFirst(i)}
    BY <1>3 DEF Places
  <2>2. Range(later) = {i \in DOMAIN typed' : IsFirst(i)'}
    BY <1>5, <1>9, <2>1
  <2> QED
    BY <1>7, <1>8, <1>10, <2>2 DEF Places
<1>12. AllListed'
  <2> SUFFICES ASSUME NEW i \in 1 .. n
               PROVE  \E k \in DOMAIN history' : SameText(history'[k], typed'[i])
    BY <1>1 DEF AllListed, SameText
  <2>1. CASE i = n
    BY <1>1, <1>2, <2>1 DEF SameText
  <2>2. CASE i # n
    <3>1. i \in DOMAIN typed
      BY <1>1, <2>2
    <3>2. PICK k \in DOMAIN history : SameText(history[k], typed[i])
      BY <3>1 DEF AllListed
    <3>3. k \in DOMAIN history' /\ history'[k] = history[k] /\ typed'[i] = typed[i]
      BY <1>1, <1>2, <3>1
    <3> QED
      BY <3>2, <3>3
  <2> QED
    BY <2>1, <2>2
<1> QED
  BY <1>11, <1>12 DEF Places, HistoryIsFirsts

\* Return in the input.
LEMMA DoCommandKeeps ==
  ASSUME HistoryTypes, AllListed, HistoryIsFirsts, DoCommand
  PROVE  AllListed' /\ HistoryIsFirsts'
<1>1. typed' = Append(typed, command)
  BY DEF DoCommand
<1>2. CASE \E i \in DOMAIN history : SameText(history[i], command)
  <2>1. history' = history
    BY <1>2 DEF DoCommand, AddUnique
  <2> QED
    BY <1>1, <1>2, <2>1, KnownCommand
<1>3. CASE ~ \E i \in DOMAIN history : SameText(history[i], command)
  <2>1. history' = Append(history, command)
    BY <1>3 DEF DoCommand, AddUnique
  <2> QED
    BY <1>1, <1>3, <2>1, NewCommand
<1> QED
  BY <1>2, <1>3

-----------------------------------------------------------------------------
\* A step that enters nothing leaves the list alone.
LEMMA ListStays ==
  ASSUME AllListed, HistoryIsFirsts, UNCHANGED <<history, typed>>
  PROVE  AllListed' /\ HistoryIsFirsts'
BY DEF AllListed, HistoryIsFirsts, IsFirst

LEMMA TypesKept ==
  ASSUME HistoryTypes, [HistoryNext]_historyVars
  PROVE  HistoryTypes'
<1> USE DEF HistoryTypes
<1>1. Blank \in Commands
  BY DEF Commands
<1>2. CASE Edit
  BY <1>2 DEF Edit
<1>3. CASE DoCommand
  <2>1. history' \in Seq(Commands) /\ typed' \in Seq(Commands)
    BY <1>3 DEF DoCommand, AddUnique
  <2> QED
    BY <1>3, <2>1 DEF DoCommand
<1>4. CASE Press
  BY <1>4 DEF Press, Hide
<1>5. CASE Leave
  BY <1>5 DEF Leave, Hide
<1>6. CASE DoHistory
  <2>1. PICK line \in DOMAIN history : command' = history[line]
    BY <1>6 DEF DoHistory
  <2>2. command' \in Commands
    BY <2>1
  <2> QED
    BY <1>6, <2>2 DEF DoHistory, Hide
<1>7. CASE DoNothing
  BY <1>1, <1>7 DEF DoNothing, Hide
<1>8. CASE UNCHANGED historyVars
  BY <1>8 DEF historyVars
<1> QED
  BY <1>2, <1>3, <1>4, <1>5, <1>6, <1>7, <1>8 DEF HistoryNext

LEMMA HistoryKeeps == HistoryInv /\ [HistoryNext]_historyVars => HistoryInv'
<1> SUFFICES ASSUME HistoryInv, [HistoryNext]_historyVars PROVE HistoryInv'
  OBVIOUS
<1>1. HistoryTypes'
  BY TypesKept DEF HistoryInv
<1>2. AllListed' /\ HistoryIsFirsts'
  <2>1. CASE DoCommand
    BY <2>1, DoCommandKeeps DEF HistoryInv
  <2>2. CASE ~ DoCommand
    <3>1. UNCHANGED <<history, typed>>
      BY <2>2 DEF HistoryNext, Edit, Press, Leave, DoHistory, DoNothing, historyVars
    <3> QED
      BY <3>1, ListStays DEF HistoryInv
  <2> QED
    BY <2>1, <2>2
<1>3. ButtonTellsList'
  BY DEF HistoryInv, ButtonTellsList, HistoryNext, Edit, DoCommand, Press, Leave,
         DoHistory, DoNothing, Hide, historyVars
<1> QED
  BY <1>1, <1>2, <1>3 DEF HistoryInv

\* The inductive invariant: HistoryIsFirsts, and that no command entered is
\* missing, without which a new line might not be a first.
THEOREM HistoryInvariant == HistorySpec => []HistoryInv
BY InitHistory, HistoryKeeps, PTL DEF HistorySpec

\* The list is what a reader of all commands entered would write down.
THEOREM ListOfFirsts == HistorySpec => []HistoryIsFirsts
BY HistoryInvariant, PTL DEF HistoryInv

\* The button is down exactly while the list is shown.
THEOREM ButtonTruth == HistorySpec => []ButtonTellsList
BY HistoryInvariant, PTL DEF HistoryInv
=============================================================================
