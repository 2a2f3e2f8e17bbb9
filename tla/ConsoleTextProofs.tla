-------------------------- MODULE ConsoleTextProofs --------------------------
(***************************************************************************)
(* For every limit and alphabet: the display holds the newest text since   *)
(* Clear, never more than the limit, and lacks text only for the reasons   *)
(* MissingExplained tells.  With the parser's invariant: what it holds is  *)
(* an unbroken part of the text in the bytes that arrived.                 *)
(***************************************************************************)
EXTENDS ConsoleText, FrameFilterProofs

\* The display changes nothing of the parser.
LEMMA ConsoleStep == [ConsoleNext]_consoleVars => [Next]_vars
BY DEF ConsoleNext, consoleVars, TakeBlock, Byte, Show, Scroll, Clear, Next

\* The console's steps are filter_rx's, or leave it alone.
THEOREM ConsoleIsFilter == ConsoleSpec => Spec
<1>1. ConsoleInit => Init
  BY DEF ConsoleInit
<1> QED
  BY <1>1, ConsoleStep, PTL DEF ConsoleSpec, Spec

LEMMA LimitFacts == Limit \in Nat \ {0} /\ NL \in Bytes
BY ConsoleAssumption DEF ConsoleAssumption

LEMMA InitConsole == ConsoleInit => ConsoleInv
<1> SUFFICES ASSUME ConsoleInit PROVE ConsoleInv
  OBVIOUS
<1>1. lines = << >> /\ shown = << >> /\ cleared = 0 /\ trims = 0 /\ poll = "idle"
  BY DEF ConsoleInit, Init
<1> QED
  BY <1>1, LimitFacts DEF ConsoleInv, ConsoleTypeOK, TailKept, MissingExplained,
                          ScrollTrimsOnce, UnderLimit

\* The newest text of s.
LEMMA NewestFacts ==
  ASSUME NEW s \in Seq(Bytes)
  PROVE  /\ Newest(s) \in Seq(Bytes)
         /\ Len(Newest(s)) = IF Len(s) > Limit THEN Limit ELSE Len(s)
         /\ \A i \in 1 .. Len(Newest(s)) : Newest(s)[i] = s[Len(s) - Len(Newest(s)) + i]
<1>1. CASE Len(s) > Limit
  <2> DEFINE t == SubSeq(s, Len(s) - Limit + 1, Len(s))
  <2>1. t \in Seq(Bytes) /\ Len(t) = Limit /\ \A i \in 1 .. Limit : t[i] = s[Len(s) - Limit + i]
    BY <1>1, LimitFacts
  <2>2. Newest(s) = t
    BY <1>1 DEF Newest
  <2> QED
    BY <1>1, <2>1, <2>2
<1>2. CASE ~ (Len(s) > Limit)
  BY <1>2, LimitFacts DEF Newest
<1> QED
  BY <1>1, <1>2

\* What Return shows is appended to what was shown.
LEMMA ReturnShows ==
  ASSUME FilterInv, Return
  PROVE  \E added \in Seq(Bytes) :
           /\ shown' = shown \o added
           /\ SubSeq(shown', Len(shown) + 1, Len(shown')) = added
<1>1. filtered \in Seq(Bytes) /\ shown \in Seq(Bytes)
  BY DEF FilterInv, TypeOK
<1>2. PICK n \in 0 .. Len(filtered) : shown' = shown \o SubSeq(filtered, 1, n)
  BY DEF Return
<1> DEFINE added == SubSeq(filtered, 1, n)
<1>3. added \in Seq(Bytes)
  BY <1>1
<1> HIDE DEF added
<1>4. shown' = shown \o added
  BY <1>2 DEF added
<1>5. SubSeq(shown', Len(shown) + 1, Len(shown')) = added
  BY <1>1, <1>3, <1>4
<1> QED
  BY <1>3, <1>4, <1>5

LEMMA ShowKeeps == ConsoleInv /\ FilterInv /\ Show => ConsoleInv'
<1> SUFFICES ASSUME ConsoleInv, FilterInv, Show PROVE ConsoleInv'
  OBVIOUS
<1> USE LimitFacts
<1>1. PICK added \in Seq(Bytes) :
        /\ shown' = shown \o added
        /\ SubSeq(shown', Len(shown) + 1, Len(shown')) = added
  BY ReturnShows DEF Show
<1> DEFINE all == lines \o added
<1>2. /\ lines \in Seq(Bytes) /\ shown \in Seq(Bytes) /\ cleared \in Nat /\ trims \in Nat
      /\ cleared + Len(lines) <= Len(shown)
      /\ \A i \in 1 .. Len(lines) : lines[i] = shown[Len(shown) - Len(lines) + i]
  BY DEF ConsoleInv, ConsoleTypeOK, TailKept, FilterInv, TypeOK
<1>3. /\ all \in Seq(Bytes) /\ Len(all) = Len(lines) + Len(added)
      /\ Len(shown') = Len(shown) + Len(added)
      /\ \A i \in 1 .. Len(all) : all[i] = shown'[Len(shown') - Len(all) + i]
      /\ Len(lines) > 0 => Len(all) > 0 /\ all[1] = lines[1]
  <2>1. /\ all \in Seq(Bytes) /\ Len(all) = Len(lines) + Len(added)
        /\ \A i \in 1 .. Len(lines) : all[i] = lines[i]
        /\ \A i \in 1 .. Len(added) : all[Len(lines) + i] = added[i]
    BY <1>2
  <2>2. /\ Len(shown') = Len(shown) + Len(added)
        /\ \A i \in 1 .. Len(shown) : shown'[i] = shown[i]
        /\ \A i \in 1 .. Len(added) : shown'[Len(shown) + i] = added[i]
    BY <1>1, <1>2
  <2>3. Len(lines) \in Nat /\ Len(added) \in Nat /\ Len(shown) \in Nat
    BY <1>2
  <2> HIDE DEF all
  <2>4. ASSUME NEW i \in 1 .. Len(all)
        PROVE  all[i] = shown'[Len(shown') - Len(all) + i]
    <3> DEFINE before == Len(shown) - Len(lines)
    <3>1. Len(shown') - Len(all) + i = before + i /\ before \in Nat
      BY <1>2, <2>1, <2>2, <2>3
    <3>2. CASE i <= Len(lines)
      <4>1. i \in 1 .. Len(lines) /\ before + i \in 1 .. Len(shown)
        BY <2>1, <2>3, <3>1, <3>2
      <4> QED
        BY <1>2, <2>1, <2>2, <3>1, <4>1
    <3>3. CASE ~ (i <= Len(lines))
      <4> DEFINE k == i - Len(lines)
      <4>1. k \in 1 .. Len(added) /\ i = Len(lines) + k /\ before + i = Len(shown) + k
        BY <2>1, <2>3, <3>3
      <4> HIDE DEF k
      <4> QED
        BY <2>1, <2>2, <3>1, <4>1
    <3> QED
      BY <3>2, <3>3
  <2>5. Len(lines) > 0 => Len(all) > 0 /\ all[1] = lines[1]
    BY <2>1, <2>3
  <2> QED
    BY <2>1, <2>2, <2>4, <2>5
<1>4. /\ lines' = Newest(all) /\ poll' = "between" /\ cleared' = cleared
      /\ trims' = IF Len(all) > Limit THEN 0 ELSE trims
  BY <1>1 DEF Show
<1> HIDE DEF all
<1>5. /\ lines' \in Seq(Bytes)
      /\ Len(lines') = IF Len(all) > Limit THEN Limit ELSE Len(all)
      /\ \A i \in 1 .. Len(lines') : lines'[i] = all[Len(all) - Len(lines') + i]
  BY <1>3, <1>4, NewestFacts
<1>6. ConsoleTypeOK' /\ UnderLimit'
  BY <1>2, <1>4, <1>5 DEF ConsoleTypeOK, UnderLimit
<1>7. TailKept'
  <2>1. Len(lines') <= Len(all) /\ Len(lines') \in Nat /\ Len(all) \in Nat /\ Len(shown') \in Nat
    BY <1>1, <1>2, <1>3, <1>5
  <2>2. cleared' + Len(lines') <= Len(shown')
    BY <1>2, <1>3, <1>4, <2>1
  <2>3. ASSUME NEW i \in 1 .. Len(lines')
        PROVE  lines'[i] = shown'[Len(shown') - Len(lines') + i]
    <3> DEFINE k == Len(all) - Len(lines') + i
    <3>1. k \in 1 .. Len(all) /\ Len(shown') - Len(all) + k = Len(shown') - Len(lines') + i
      BY <2>1
    <3> HIDE DEF k
    <3>2. all[k] = shown'[Len(shown') - Len(all) + k]
      BY <1>3, <3>1
    <3>3. lines'[i] = all[k]
      BY <1>5 DEF k
    <3> QED
      BY <3>1, <3>2, <3>3
  <2> QED
    BY <2>2, <2>3 DEF TailKept
<1>8. Len(lines') = Limit \/ (~ (Len(all) > Limit) /\ Len(lines') = Len(all))
  BY <1>3, <1>5
<1>9. ~ (Len(all) > Limit) /\ Len(lines) > 0 /\ lines[1] = NL => Len(lines') > 0 /\ lines'[1] = NL
  BY <1>2, <1>3, <1>5
<1>10. Len(added) \in Nat /\ Len(lines) \in Nat
  BY <1>2
<1>11. MissingExplained'
  <2>1. CASE Len(all) > Limit
    BY <2>1, <1>5 DEF MissingExplained
  <2>2. CASE ~ (Len(all) > Limit) /\ Len(lines) = Limit
    BY <2>2, <1>3, <1>5, <1>10 DEF MissingExplained
  <2>3. CASE ~ (Len(all) > Limit) /\ Len(lines) > 0 /\ lines[1] = NL
    BY <2>3, <1>9 DEF MissingExplained
  <2>4. CASE ~ (Len(all) > Limit) /\ cleared + Len(lines) = Len(shown)
    <3>1. Len(lines') = Len(all)
      BY <2>4, <1>5
    <3>2. /\ cleared \in Nat /\ Len(shown) \in Nat /\ cleared' = cleared
          /\ cleared + Len(lines) = Len(shown)
          /\ Len(all) = Len(lines) + Len(added) /\ Len(shown') = Len(shown) + Len(added)
      BY <2>4, <1>2, <1>3, <1>4
    <3>3. cleared' + Len(lines') = Len(shown')
      BY <3>1, <3>2, <1>10
    <3> QED
      BY <3>3 DEF MissingExplained
  <2> QED
    BY <2>1, <2>2, <2>3, <2>4 DEF ConsoleInv, MissingExplained
<1>12. ScrollTrimsOnce'
  BY <1>4, <1>9 DEF ConsoleInv, ScrollTrimsOnce
<1> QED
  BY <1>6, <1>7, <1>11, <1>12 DEF ConsoleInv

\* From the first line break on.
LEMMA ShortenKeeps == ConsoleInv /\ FilterInv /\ Scroll /\ Shorten => ConsoleInv'
<1> SUFFICES ASSUME ConsoleInv, FilterInv, Scroll, Shorten PROVE ConsoleInv'
  OBVIOUS
<1> USE LimitFacts
<1>1. PICK i \in DOMAIN lines : /\ IsFirst(i) /\ lines' = From(i)
                                /\ trims' = IF i > 1 THEN trims + 1 ELSE trims
  BY DEF Shorten
<1>2. /\ lines \in Seq(Bytes) /\ shown \in Seq(Bytes) /\ cleared \in Nat /\ trims \in Nat
      /\ cleared + Len(lines) <= Len(shown) /\ Len(lines) <= Limit
      /\ \A j \in 1 .. Len(lines) : lines[j] = shown[Len(shown) - Len(lines) + j]
  BY DEF ConsoleInv, ConsoleTypeOK, TailKept, UnderLimit, FilterInv, TypeOK
<1>3. i \in 1 .. Len(lines) /\ lines[i] = NL /\ \A j \in 1 .. i - 1 : lines[j] # NL
  BY <1>1, <1>2 DEF IsFirst, Breaks
<1>4. /\ lines' \in Seq(Bytes) /\ Len(lines') = Len(lines) - i + 1
      /\ \A j \in 1 .. Len(lines') : lines'[j] = lines[i - 1 + j]
  <2>1. lines' = SubSeq(lines, i, Len(lines)) /\ i \in Nat /\ i >= 1 /\ i <= Len(lines)
    BY <1>1, <1>2, <1>3 DEF From
  <2>2. lines' \in Seq(Bytes) /\ Len(lines') = Len(lines) - i + 1
    BY <1>2, <2>1
  <2>3. ASSUME NEW j \in 1 .. Len(lines') PROVE lines'[j] = lines[i - 1 + j]
    <3>1. lines \in Seq(Bytes) /\ j \in 1 .. Len(lines) - i + 1
      BY <1>2, <2>2
    <3>2. SubSeq(lines, i, Len(lines))[j] = lines[i + j - 1]
      BY <2>1, <3>1
    <3>3. i + j - 1 = i - 1 + j
      BY <2>1
    <3> QED
      BY <2>1, <3>2, <3>3
  <2> QED
    BY <2>2, <2>3
<1>5. poll' = "idle" /\ cleared' = cleared /\ shown' = shown
  BY DEF Scroll, vars
<1>6. ConsoleTypeOK' /\ UnderLimit' /\ TailKept'
  <2>1. trims' \in Nat
    BY <1>1, <1>2
  <2>2. Len(lines') \in Nat /\ Len(lines') <= Len(lines) /\ Len(shown) \in Nat
    BY <1>2, <1>3, <1>4
  <2>0. i \in Nat /\ i >= 1 /\ Len(lines) \in Nat /\ Len(lines') = Len(lines) - i + 1
    BY <1>2, <1>3, <1>4
  <2>3. ASSUME NEW j \in 1 .. Len(lines')
        PROVE  lines'[j] = shown[Len(shown) - Len(lines') + j]
    <3>0. j \in Nat /\ j >= 1 /\ j <= Len(lines')
      BY <2>2
    <3> DEFINE k == i - 1 + j
    <3>1. k \in 1 .. Len(lines)
          /\ Len(shown) - Len(lines) + k = Len(shown) - Len(lines') + j
      BY <2>0, <3>0, <2>2
    <3> HIDE DEF k
    <3>2. lines[k] = shown[Len(shown) - Len(lines) + k]
      BY <1>2, <3>1
    <3>3. lines'[j] = lines[k]
      BY <1>4 DEF k
    <3> QED
      BY <3>1, <3>2, <3>3
  <2>4. cleared + Len(lines') <= Len(shown) /\ Len(lines') <= Limit
    BY <1>2, <2>2
  <2> QED
    BY <1>2, <1>4, <1>5, <2>1, <2>2, <2>3, <2>4 DEF ConsoleTypeOK, UnderLimit, TailKept
<1>7. Len(lines') > 0 /\ lines'[1] = NL
  BY <1>2, <1>3, <1>4
<1>8. trims' <= 1
  <2>1. CASE i > 1
    <3>1. 1 \in 1 .. i - 1 /\ lines[1] # NL
      BY <1>2, <1>3, <2>1
    <3>2. trims = 0
      <4>1. trims <= 1 /\ trims # 1
        BY <3>1 DEF ConsoleInv, ScrollTrimsOnce
      <4> QED
        BY <1>2, <4>1
    <3> QED
      BY <1>1, <2>1, <3>2
  <2>2. CASE ~ (i > 1)
    BY <1>1, <2>2 DEF ConsoleInv, ScrollTrimsOnce
  <2> QED
    BY <2>1, <2>2
<1> QED
  BY <1>6, <1>7, <1>8 DEF ConsoleInv, MissingExplained, ScrollTrimsOnce

\* Steps that leave the buffer as it is.
LEMMA SameText ==
  ASSUME ConsoleInv, UNCHANGED <<lines, shown, cleared, trims>>,
         poll' \in {"idle", "block", "between"}
  PROVE  ConsoleInv'
BY DEF ConsoleInv, ConsoleTypeOK, TailKept, MissingExplained, ScrollTrimsOnce, UnderLimit

LEMMA ClearKeeps == ConsoleInv /\ FilterInv /\ Clear => ConsoleInv'
<1> SUFFICES ASSUME ConsoleInv, FilterInv, Clear PROVE ConsoleInv'
  OBVIOUS
<1>1. /\ lines' = << >> /\ cleared' = Len(shown) /\ trims' = 0
      /\ poll' = poll /\ shown' = shown
  BY DEF Clear, vars
<1>2. shown \in Seq(Bytes) /\ poll \in {"idle", "block", "between"}
  BY DEF FilterInv, TypeOK, ConsoleInv, ConsoleTypeOK
<1> QED
  BY <1>1, <1>2, LimitFacts DEF ConsoleInv, ConsoleTypeOK, TailKept, MissingExplained,
                                ScrollTrimsOnce, UnderLimit

LEMMA StepConsole == ConsoleInv /\ FilterInv /\ [ConsoleNext]_consoleVars => ConsoleInv'
<1> SUFFICES ASSUME ConsoleInv, FilterInv, [ConsoleNext]_consoleVars PROVE ConsoleInv'
  OBVIOUS
<1>0. poll \in {"idle", "block", "between"}
  BY DEF ConsoleInv, ConsoleTypeOK
<1>1. CASE TakeBlock
  BY <1>1, SameText DEF TakeBlock, vars
<1>2. CASE Byte
  <2>1. UNCHANGED shown
    BY <1>2 DEF Byte, TextByte, FrameByte, LastByte
  <2> QED
    BY <1>0, <1>2, <2>1, SameText DEF Byte
<1>3. CASE Show
  BY <1>3, ShowKeeps
<1>4. CASE Scroll
  <2>1. CASE Shorten
    BY <1>4, <2>1, ShortenKeeps
  <2>2. CASE KeepAll
    BY <1>4, <2>2, SameText DEF Scroll, KeepAll, vars
  <2> QED
    BY <1>4, <2>1, <2>2 DEF Scroll
<1>5. CASE Clear
  BY <1>5, ClearKeeps
<1>6. CASE UNCHANGED consoleVars
  BY <1>0, <1>6, SameText DEF consoleVars, vars
<1> QED
  BY <1>1, <1>2, <1>3, <1>4, <1>5, <1>6 DEF ConsoleNext

-----------------------------------------------------------------------------
\* The invariant of the display.
THEOREM ConsoleInvariant == ConsoleSpec => []ConsoleInv
<1>1. ConsoleSpec => []FilterInv
  BY ConsoleIsFilter, FilterInvariant, PTL
<1> QED
  BY <1>1, InitConsole, StepConsole, PTL DEF ConsoleSpec

\* The display holds the newest text since Clear, unbroken.
THEOREM NewestKept == ConsoleSpec => []TailKept
BY ConsoleInvariant, PTL DEF ConsoleInv

\* Text is missing for the limit or at a line break only.
THEOREM LossExplained == ConsoleSpec => []MissingExplained
BY ConsoleInvariant, PTL DEF ConsoleInv

\* scroll_to_end shortens the text once until the limit or Clear.
THEOREM TrimsOnce == ConsoleSpec => []ScrollTrimsOnce
BY ConsoleInvariant, PTL DEF ConsoleInv

\* The buffer is never larger than its limit.
THEOREM BufferBounded == ConsoleSpec => []UnderLimit
BY ConsoleInvariant, PTL DEF ConsoleInv

-----------------------------------------------------------------------------
(* From the port to the display.                                           *)

\* The lines are consecutive bytes of the text that Batch finds in the whole
\* input, up to those of the block at hand, while no NUL is among them and
\* every frame has fitted msg.
DisplayIsStream ==
  LET text  == Batch(input).text
      ahead == Len(text) - Len(filtered) - Len(lines)
  IN  /\ \A i \in DOMAIN text : text[i] # NUL
      /\ pos <= MsgSize /\ \A i \in DOMAIN frames : Len(frames[i].bytes) <= MsgSize
      => /\ ahead >= 0
         /\ \A i \in 1 .. Len(lines) : lines[i] = text[ahead + i]

\* Neither frames nor blocks nor the limit leave a gap in what is displayed, or
\* a byte of a frame in it: parse_msg, filter_rx, append and scroll_to_end
\* taken together.
THEOREM DisplayKeepsStream == ConsoleSpec => []DisplayIsStream
<1>1. StreamInv /\ ConsoleInv => DisplayIsStream
  <2> DEFINE text  == Batch(input).text
             ahead == Len(text) - Len(filtered) - Len(lines)
  <2> SUFFICES ASSUME StreamInv, ConsoleInv,
                      \A i \in DOMAIN text : text[i] # NUL, pos <= MsgSize,
                      \A i \in DOMAIN frames : Len(frames[i].bytes) <= MsgSize
               PROVE  ahead >= 0 /\ \A i \in 1 .. Len(lines) : lines[i] = text[ahead + i]
    BY DEF DisplayIsStream
  <2>1. shown \o filtered = text
    BY DEF StreamInv, TextKept
  <2>2. shown \in Seq(Bytes) /\ filtered \in Seq(Bytes) /\ lines \in Seq(Bytes)
        /\ cleared \in Nat
    BY DEF StreamInv, FilterInv, TypeOK, ConsoleInv, ConsoleTypeOK
  <2> HIDE DEF text
  <2>3. Len(text) = Len(shown) + Len(filtered) /\ Len(shown) \in Nat
        /\ Len(filtered) \in Nat /\ Len(lines) \in Nat
    BY <2>1, <2>2
  <2>4. ahead = Len(shown) - Len(lines)
    BY <2>3
  <2>5. cleared + Len(lines) <= Len(shown)
        /\ \A i \in 1 .. Len(lines) : lines[i] = shown[Len(shown) - Len(lines) + i]
    BY DEF ConsoleInv, TailKept
  <2> HIDE DEF ahead
  <2>6. ahead \in Nat
    BY <2>2, <2>3, <2>4, <2>5
  <2>7. \A k \in 1 .. Len(shown) : text[k] = shown[k]
    BY <2>1, <2>2
  <2>8. \A i \in 1 .. Len(lines) : ahead + i \in 1 .. Len(shown)
    BY <2>3, <2>4, <2>6
  <2>9. ASSUME NEW i \in 1 .. Len(lines) PROVE lines[i] = text[ahead + i]
    <3>1. lines[i] = shown[Len(shown) - Len(lines) + i]
      BY <2>5
    <3>2. text[ahead + i] = shown[ahead + i]
      BY <2>7, <2>8
    <3> QED
      BY <2>4, <3>1, <3>2
  <2>10. ahead >= 0
    BY <2>6
  <2> QED
    BY <2>9, <2>10
<1>2. ConsoleSpec => []StreamInv
  BY ConsoleIsFilter, StreamInvariant, PTL
<1> QED
  BY <1>1, <1>2, ConsoleInvariant, PTL
=============================================================================
