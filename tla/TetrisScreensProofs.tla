------------------------ MODULE TetrisScreensProofs ------------------------
(***************************************************************************)
(* Proofs about the screens for any title, pictures, scores and number of  *)
(* violent deaths: the alarm and main's drawings, the keys, and what the   *)
(* controller and the display hold whenever the program waits.             *)
(***************************************************************************)
EXTENDS TetrisScreens, ListLemmas

-----------------------------------------------------------------------------
(* The alarm                                                               *)

\* The alarm is armed, and its handler at work, only while main waits at the
\* title with nothing left to draw.
AlarmOnlyAtTitle == alarm \/ handler # <<>> => pc = "title" /\ todo = <<>>

\* Every step keeps it so.
LEMMA AlarmStep ==
  ASSUME AlarmOnlyAtTitle, [Next]_vars
  PROVE  AlarmOnlyAtTitle'
<1> USE DEF AlarmOnlyAtTitle
<1>1. CASE UNCHANGED vars
  BY <1>1 DEF vars, mvars
<1>2. CASE main \/ initialize_title_animation \/ title_screen \/ ualarm \/ TitleKey \/ TopScoreKey
  BY <1>2 DEF main, initialize_title_animation, title_screen, ualarm, TitleKey,
     TopScoreKey, Ready
<1>3. CASE ShowDigit \/ DigitsShown \/ show_top_score
  BY <1>3 DEF ShowDigit, DigitsShown, show_top_score, Ready
<1>4. CASE start \/ DrainKeys \/ GameKey \/ GameClock \/ GameOver
  BY <1>4 DEF start, DrainKeys, GameKey, GameClock, GameOver, show_game, Ready
<1>5. CASE DrawLine \/ GameOverKey \/ exit \/ return
  BY <1>5 DEF DrawLine, GameOverKey, exit, return, Ready
<1>6. CASE MainWrites \/ title_handler \/ HandlerWrites
  BY <1>6 DEF MainWrites, title_handler, HandlerWrites
<1>7. CASE Press \/ \E at \in coming : StoreKey(at)
  BY <1>7 DEF Press, StoreKey
<1>8. CASE Restart \/ Kill
  BY <1>8 DEF Restart, Kill, NewProcess
<1> QED
  BY <1>1, <1>2, <1>3, <1>4, <1>5, <1>6, <1>7, <1>8 DEF Next, Main

(***************************************************************************)
(* title_handler never runs in the middle of a drawing of main, so their   *)
(* commands are never mixed on the bus: ualarm arms the alarm after the    *)
(* title is drawn, and the key that leaves the title disarms it.           *)
(***************************************************************************)
THEOREM NeverInterrupted == Spec => []DrawingsNotInterrupted
<1>1. Init => AlarmOnlyAtTitle
  BY DEF Init, AlarmOnlyAtTitle
<1>2. AlarmOnlyAtTitle /\ [Next]_vars => AlarmOnlyAtTitle'
  BY AlarmStep
<1>3. AlarmOnlyAtTitle => DrawingsNotInterrupted
  BY DEF AlarmOnlyAtTitle, DrawingsNotInterrupted
<1> QED
  BY <1>1, <1>2, <1>3, PTL DEF Spec

-----------------------------------------------------------------------------
(* The keys                                                                *)

\* A key comes from a screen, or is late.
KeysTyped == coming \cup {key} \subseteq {"title", "game", "other", "late", NoKey}

\* The title and the game have no older keys, held or on their way, that are not late.
KeysOf(screen) == coming \cup {key} \subseteq {screen, "late", NoKey}
KeyIsFresh ==
  /\ "then" \in DOMAIN digits
  /\ pc = "digits" => digits.then \in {"top", "drain", "game"}
  /\ pc \in {"ualarm", "title"} => KeysOf("title")
  /\ pc = "game" \/ (pc = "digits" /\ digits.then = "game") => KeysOf("game")

\* What the steps do with the keys.
LEMMA KeySteps ==
  ASSUME [Next]_vars
  PROVE  UNCHANGED keys \/ Press \/ ReadKey \/ ReadAway \/ \E at \in coming : StoreKey(at)
<1>1. CASE UNCHANGED vars
  BY <1>1 DEF vars, mvars
<1>2. CASE main \/ initialize_title_animation \/ title_screen \/ ualarm \/ TitleKey \/ TopScoreKey
  BY <1>2 DEF main, initialize_title_animation, title_screen, ualarm, TitleKey, TopScoreKey
<1>3. CASE ShowDigit \/ DigitsShown \/ show_top_score
  BY <1>3 DEF ShowDigit, DigitsShown, show_top_score
<1>4. CASE start \/ DrainKeys \/ GameKey \/ GameClock \/ GameOver
  BY <1>4 DEF start, DrainKeys, GameKey, GameClock, GameOver
<1>5. CASE DrawLine \/ GameOverKey \/ exit \/ return
  BY <1>5 DEF DrawLine, GameOverKey, exit, return
<1>6. CASE MainWrites \/ title_handler \/ HandlerWrites
  BY <1>6 DEF MainWrites, title_handler, HandlerWrites
<1>7. CASE Restart \/ Kill
  BY <1>7 DEF Restart, Kill, NewProcess
<1> QED
  BY <1>1, <1>2, <1>3, <1>4, <1>5, <1>6, <1>7 DEF Next, Main

\* The set of keys only gets the screen's, and reading them away leaves late ones.
LEMMA KeysAfter ==
  ASSUME [Next]_vars
  PROVE  \/ coming' \cup {key'} \subseteq coming \cup {key, NoKey}
         \/ Press /\ coming' \cup {key'} \subseteq coming \cup {key, Screen}
         \/ ReadAway /\ coming' \cup {key'} \subseteq {"late", NoKey}
<1>1. CASE UNCHANGED keys \/ ReadKey
  BY <1>1 DEF keys, ReadKey
<1>2. CASE Press
  BY <1>2 DEF Press
<1>3. CASE ReadAway
  BY <1>3 DEF ReadAway
<1>4. ASSUME NEW at \in coming, StoreKey(at)
      PROVE  coming' \cup {key'} \subseteq coming \cup {key, NoKey}
  BY <1>4 DEF StoreKey
<1> QED
  BY <1>1, <1>2, <1>3, <1>4, KeySteps

\* They stay of their kinds.
LEMMA KeysTypedStep ==
  ASSUME KeysTyped, [Next]_vars
  PROVE  KeysTyped'
<1>1. Screen \in {"title", "game", "other"}
  BY DEF Screen
<1> QED
  BY <1>1, KeysAfter DEF KeysTyped

(***************************************************************************)
(* However many keys are pressed, whenever their callbacks store them: the *)
(* title and the game act only on a key that was pressed since they were   *)
(* entered, or that was still on its way when older keys were read away.   *)
(* No key that the driver had stored at another screen, or for an earlier  *)
(* process, is acted on.                                                   *)
(***************************************************************************)
THEOREM KeysAreFresh == Spec => NoStaleKey
<1>1. Init => KeyIsFresh
  BY DEF Init, KeyIsFresh, NoDigits
<1>2. KeyIsFresh /\ [Next]_vars => KeyIsFresh'
  <2> SUFFICES ASSUME KeyIsFresh, [Next]_vars PROVE KeyIsFresh'
    OBVIOUS
  <2> USE DEF KeyIsFresh
  <2>10. ASSUME NEW s, KeysOf(s), ~Press \/ Screen = s PROVE KeysOf(s)'
    BY <2>10, KeysAfter DEF KeysOf
  <2>11. Press => UNCHANGED <<pc, digits>>
    BY DEF Press
  <2>12. ReadAway => KeysOf("title")' /\ KeysOf("game")'
    BY DEF ReadAway, KeysOf
  <2>1. CASE UNCHANGED <<pc, digits>>
    <3>1. pc \in {"ualarm", "title"} => Screen = "title"
      BY DEF Screen
    <3>2. pc = "game" \/ (pc = "digits" /\ digits.then = "game") => Screen = "game"
      BY DEF Screen
    <3> QED
      BY <2>1, <2>10, <3>1, <3>2
  <2>2. CASE main \/ initialize_title_animation \/ TopScoreKey
    BY <2>2 DEF main, initialize_title_animation, TopScoreKey, Ready
  <2>3. CASE title_screen
    BY <2>3, <2>12 DEF title_screen, Ready
  <2>4. CASE ualarm
    BY <2>4, <2>10, <2>11 DEF ualarm, Ready
  <2>5. CASE TitleKey
    BY <2>5 DEF TitleKey, Ready
  <2>6. CASE ShowDigit
    <3>1. DOMAIN digits' = DOMAIN digits /\ digits'.then = digits.then /\ UNCHANGED <<pc, keys>>
      BY <2>6 DEF ShowDigit
    <3> QED
      BY <3>1 DEF KeysOf, keys
  <2>7. CASE DigitsShown
    <3>1. UNCHANGED keys /\ pc = "digits" /\ pc' = digits.then /\ digits' = NoDigits
      BY <2>7 DEF DigitsShown, Ready
    <3> QED
      BY <3>1 DEF KeysOf, keys, NoDigits
  <2>8. CASE show_top_score \/ start
    BY <2>8 DEF show_top_score, start, show_game, DigitsOf, Ready
  <2>9. CASE DrainKeys
    BY <2>9, <2>12 DEF DrainKeys, Ready
  <2>13. CASE GameKey \/ GameClock
    <3>1. pc = "game" /\ pc' = "digits" /\ digits'.then = "game" /\ "then" \in DOMAIN digits'
      BY <2>13 DEF GameKey, GameClock, show_game, DigitsOf, Ready
    <3> QED
      BY <2>10, <2>11, <3>1
  <2>14. CASE GameOver \/ DrawLine \/ GameOverKey \/ exit \/ return
    BY <2>14 DEF GameOver, DrawLine, GameOverKey, exit, return, Ready
  <2>15. CASE MainWrites \/ title_handler \/ HandlerWrites
    BY <2>1, <2>15 DEF MainWrites, title_handler, HandlerWrites
  <2>16. CASE Restart \/ Kill
    BY <2>16 DEF Restart, Kill, NewProcess, NoDigits
  <2>17. CASE UNCHANGED vars \/ Press \/ \E at \in coming : StoreKey(at)
    BY <2>1, <2>17 DEF vars, mvars, Press, StoreKey
  <2> QED
    BY <2>2, <2>3, <2>4, <2>5, <2>6, <2>7, <2>8, <2>9, <2>13, <2>14, <2>15, <2>16, <2>17
       DEF Next, Main
<1>3. KeyIsFresh => (ReadKey /\ pc \in {"title", "game"} => key \in {pc, "late"})
  BY DEF KeyIsFresh, KeysOf, ReadKey
<1> QED
  BY <1>1, <1>2, <1>3, PTL DEF Spec, NoStaleKey

-----------------------------------------------------------------------------
(* The display                                                             *)

\* What ssd1306_init has to set: all rows, the charge pump, the display on.
SetUp == setup[\hA8] = \h3F /\ setup[\h8D] = \h14 /\ setup[\hAF] = 0
SetupCommands == (OneArgument \cup NoArgument) \ {\h20}

\* The controller has received n bytes of a command: first, then second.
Holds(n, first, second) ==
  Len(pending) = n /\ (n >= 1 => pending[1] = first) /\ (n >= 2 => pending[2] = second)

Column(n) == n \in Nat /\ n < 128
Page(n) == n \in Nat /\ n < 8
ControllerTyped ==
  /\ DOMAIN ram = Dots /\ mode \in 0..3
  /\ pending \in Seq(Nat) /\ Len(pending) <= 2
  /\ window = <<window[1], window[2], window[3], window[4]>> /\ cursor = <<cursor[1], cursor[2]>>
  /\ Column(window[1]) /\ Column(window[2]) /\ Column(cursor[1])
  /\ Page(window[3]) /\ Page(window[4]) /\ Page(cursor[2])
  /\ setup \in [SetupCommands -> Int]

\* The controller waits for a command; it is also at the start of its window.
Prepared == SetUp /\ Len(pending) = 0
Settled == Prepared /\ mode = Horizontal /\ cursor = <<window[1], window[3]>>

\* What a program killed in the middle of a drawing leaves behind, or the start.
Leftover ==
  \/ Len(pending) = 0
  \/ setup[\hA8] = \h3F /\ \E op \in {\h20, \h21, \h22} : Holds(1, op, 0)
  \/ setup[\hA8] = \h3F /\ \E op \in {\h21, \h22}, arg \in Nat : Holds(2, op, arg)

\* The controller after k writes of ssd1306_init: the first two may go to a
\* command that was left unfinished.
InitStage(k) ==
  /\ k = 0 => Leftover
  /\ k = 1 => \/ Holds(1, \hA8, 0)
              \/ setup[\hA8] = \h3F /\ Len(pending) = 0
              \/ setup[\hA8] = \h3F /\ \E op \in {\h21, \h22} : Holds(2, op, \hA8)
  /\ k >= 2 => setup[\hA8] = \h3F
  /\ k \in {2, 4, 5, 6, 7, 9, 11, 12, 13, 15, 17} => Len(pending) = 0
  /\ k = 3 => Holds(1, \hD3, 0)
  /\ k = 8 => Holds(1, \hDA, 0)
  /\ k = 10 => Holds(1, \h81, 0)
  /\ k = 14 => Holds(1, \hD5, 0)
  /\ k = 16 => Holds(1, \h8D, 0)
  /\ k >= 17 => setup[\h8D] = \h14

\* A picture and the area of the display it fills.
Area(pic, x, y, w, h) == [data |-> pic, x |-> x, y |-> y, w |-> w, h |-> h]
Everything == Area(clear, 0, 0, 16, 8)
WritesOf(a) == update_area(a.data, a.x, a.y, a.w, a.h)

\* The areas that main.c draws, by their size.
Drawable(a) ==
  /\ <<a.w, a.h>> \in {<<1, 1>>, <<1, 8>>, <<8, 8>>, <<15, 8>>, <<16, 8>>}
  /\ a.x \in 0..15 /\ a.x + a.w <= 16
  /\ a.y \in 0..7 /\ a.y + a.h <= 8

\* The controller after k writes of the drawing of area a.
Stage(k, a) ==
  /\ SetUp
  /\ k \in {0, 2, 5, 8, 9} => Len(pending) = 0
  /\ k = 1 => Holds(1, \h20, 0)
  /\ k = 3 => Holds(1, \h21, 0)
  /\ k = 4 => Holds(2, \h21, a.x)
  /\ k = 6 => Holds(1, \h22, 0)
  /\ k = 7 => Holds(2, \h22, a.y)
  /\ k >= 2 => mode = Horizontal
  /\ k >= 5 => window[1] = a.x /\ window[2] = a.x + a.w - 1 /\ cursor[1] = a.x
  /\ k >= 8 => window[3] = a.y /\ window[4] = a.y + a.h - 1 /\ cursor[2] = a.y

\* What the display shows when the picture of a is drawn over shown.
InArea(d, a) == d[1] \in a.x..(a.x + a.w - 1) /\ d[2] \in a.y..(a.y + a.h - 1)
Overlay(shown, a) ==
  [d \in Dots |-> IF InArea(d, a) THEN Byte(a.data, (d[2] - a.y) * a.w + d[1] - a.x) ELSE shown[d]]
Dark == [d \in Dots |-> Blank]

\* The writes of u that are left after the first k.
Left(u, k) == SubSeq(u, k + 1, Len(u))

\* The writes t are the rest of a drawing, after which the display will show
\* what final says.
Drawing(t, final) ==
  \/ t = << >> /\ Settled /\ final = ram
  \/ \E a, k : /\ Drawable(a) /\ k \in 0..8 /\ t = Left(WritesOf(a), k) /\ Stage(k, a)
               /\ final = Overlay(ram, a)

\* The same, for a drawing that the clearing of the display may come before.
Underway(t, final) ==
  \/ Drawing(t, final)
  \/ \E a, k : /\ Drawable(a) /\ k \in 0..8
               /\ t = Left(WritesOf(Everything) \o WritesOf(a), k) /\ Stage(k, Everything)
               /\ final = Overlay(Dark, a)

\* The best score, and the numbers that the display has room for.
Best == Max(score_file \cup {0})
Showable(n) == n \in Nat /\ n < 1000000
ScoresFit == Showable(MaxScore) /\ \A f \in Saved : \A n \in f : Showable(n)

\* The digits of n that are still to be drawn are those from the p-th on.
Remain(n, p) == /\ digits.q \in Nat /\ digits.r \in 0..9
                /\ digits.q * 10 + digits.r = n \div (10^p)

\* The locals of main.
ProgramInv ==
  /\ pc \in {"main", "init", "title_screen", "ualarm", "title", "top_score", "top", "digits", "start",
             "drain", "game", "lines", "over", "exit", "return", "done"}
  /\ alarm \in BOOLEAN /\ animated \in BOOLEAN /\ kills \in 0..MaxKills
  /\ i \in 0..TITLE_NUM_FRAME-1 /\ row \in 0..15
  /\ score \in 0..MaxScore /\ \A n \in score_file : Showable(n)

DigitsInv ==
  /\ pc # "digits" => digits = NoDigits
  /\ digits = [q |-> digits.q, r |-> digits.r, y |-> digits.y, x |-> digits.x,
                last |-> digits.last, then |-> digits.then]
  /\ pc = "digits" /\ digits.then = "top" =>
       digits.x = 9 /\ digits.last = 6 /\ digits.y \in 1..7 /\ Remain(Best, digits.y - 1)
  /\ pc = "digits" /\ digits.then # "top" =>
       /\ digits.x = 0 /\ digits.last = 7 /\ digits.y \in 2..8 /\ Remain(score, digits.y - 2)
       /\ digits.then \in {"drain", "game"}

\* What is on the display while the digits up to page y are drawn.
TopPart(d, y) == IF d[1] = 9 /\ d[2] >= y THEN Blank ELSE TopScreen(d)

\* What the display will show, at each point of main, when the drawing is done.
Shows(final) ==
  /\ pc \in {"ualarm", "title"} =>
       \A d \in Dots : d[1] >= 8 => final[d] = At(press_start, d, 8, 0, 8)
  /\ pc = "title" /\ (animated \/ handler # << >>) =>
       \A d \in Dots : d[1] < 8 => final[d] = At(title((i - 1) % TITLE_NUM_FRAME), d, 0, 0, 8)
  /\ pc = "digits" /\ digits.then = "top" => \A d \in Dots : final[d] = TopPart(d, digits.y)
  /\ pc = "top" => \A d \in Dots : final[d] = TopScreen(d)
  /\ pc = "digits" /\ digits.then # "top" =>
       \A d \in Dots : d[1] # 0 \/ d[2] < digits.y => final[d] = GameScreen(d)
  /\ pc \in {"drain", "game"} => \A d \in Dots : final[d] = GameScreen(d)
  /\ pc = "lines" =>
       \A d \in Dots : /\ d[1] = 0 => final[d] = ScoreAt(d)
                       /\ d[1] > row => final[d] = At(line, d, d[1], 0, 1)
  /\ pc = "over" => \A d \in Dots : final[d] = OverScreen(d)
  /\ pc \in {"return", "done"} => \A d \in Dots : final[d] = Blank

ScreenInv ==
  /\ AlarmOnlyAtTitle
  /\ pc = "main" => todo = << >> /\ Leftover
  /\ pc = "init" =>
       \/ \E k \in 0..17 : todo = Left(ssd1306_init, k) /\ InitStage(k)
       \/ todo = << >> /\ Prepared
  /\ pc = "title_screen" => (todo = << >> /\ Prepared) \/ \E final : Underway(todo, final)
  /\ pc = "title" => todo = << >> /\ \E final : Shows(final) /\ Drawing(handler, final)
  /\ pc \notin {"main", "init", "title_screen", "title"} => \E final : Shows(final) /\ Underway(todo, final)
  /\ pc = "done" => todo = << >>

-----------------------------------------------------------------------------
(* What the controller makes of a command                                  *)

\* A byte joins the command that is pending; the command is executed once its
\* arguments are complete.
LEMMA CommandReceived ==
  ASSUME ControllerTyped, NEW b \in Nat, b < 256, Receive(ssd1306_command(b))
  PROVE  \E c : /\ c \in Seq(Nat) /\ Len(c) = Len(pending) + 1
                /\ \A k \in 1..Len(pending) : c[k] = pending[k]
                /\ c[Len(pending) + 1] = b
                /\ Len(pending) = Arguments(c[1]) => pending' = << >> /\ Execute(c)
                /\ Len(pending) # Arguments(c[1]) => pending' = c /\ UNCHANGED <<mode, window, cursor, setup>>
                /\ UNCHANGED ram
<1>1. b % 256 = b
  OBVIOUS
<1>2. ReceiveCommand(b)
  BY <1>1 DEF Receive, ssd1306_command
<1>3. pending \in Seq(Nat) /\ <<b>> \in Seq(Nat) /\ Len(<<b>>) = 1 /\ <<b>>[1] = b /\ Len(pending) \in Nat
  BY DEF ControllerTyped
<1> DEFINE c == pending \o <<b>>
<1>4. /\ c \in Seq(Nat) /\ Len(c) = Len(pending) + Len(<<b>>)
      /\ \A k \in 1..Len(pending) + Len(<<b>>) :
           c[k] = IF k <= Len(pending) THEN pending[k] ELSE <<b>>[k - Len(pending)]
  BY <1>3, ConcatProperties, Zenon
<1>5. /\ IF Len(c) = 1 + Arguments(c[1])
         THEN pending' = << >> /\ Execute(c)
         ELSE pending' = c /\ UNCHANGED <<mode, window, cursor, setup>>
      /\ UNCHANGED ram
  BY <1>2, Zenon DEF ReceiveCommand
<1> HIDE DEF c
<1>6. Len(c) = Len(pending) + 1
  BY <1>3, <1>4
<1>7. \A k \in 1..Len(pending) : c[k] = pending[k]
  BY <1>3, <1>4
<1>8. c[Len(pending) + 1] = b
  <2>1. Len(pending) + 1 \in 1..Len(pending) + Len(<<b>>) /\ ~(Len(pending) + 1 <= Len(pending))
        /\ (Len(pending) + 1) - Len(pending) = 1
    BY <1>3
  <2> QED
    BY <1>3, <1>4, <2>1
<1>9. Arguments(c[1]) \in Nat
  BY DEF Arguments
<1>10. Len(pending) = Arguments(c[1]) => pending' = << >> /\ Execute(c)
  <2>1. Len(pending) = Arguments(c[1]) => Len(c) = 1 + Arguments(c[1])
    BY <1>3, <1>6, <1>9
  <2> QED
    BY <1>5, <2>1, Zenon
<1>11. Len(pending) # Arguments(c[1]) => pending' = c /\ UNCHANGED <<mode, window, cursor, setup>>
  <2>1. Len(pending) # Arguments(c[1]) => Len(c) # 1 + Arguments(c[1])
    BY <1>3, <1>6, <1>9
  <2> QED
    BY <1>5, <2>1, Zenon
<1> QED
  BY <1>4, <1>5, <1>6, <1>7, <1>8, <1>10, <1>11

\* The empty command.
LEMMA EmptyCommand == << >> \in Seq(Nat) /\ Len(<< >>) = 0
  OBVIOUS

\* A command has at most two arguments.
LEMMA AtMostTwo == 0 <= 2 /\ 1 <= 2 /\ 2 <= 2
  OBVIOUS

\* The commands of a drawing are none of the setup.
LEMMA NotSetup ==
  ASSUME ControllerTyped
  PROVE  \h20 \notin DOMAIN setup /\ \h21 \notin DOMAIN setup /\ \h22 \notin DOMAIN setup
<1>1. DOMAIN setup = SetupCommands
  BY DEF ControllerTyped
<1> QED
  BY <1>1 DEF SetupCommands, OneArgument, NoArgument

\* The first byte of a command that takes arguments waits for them.
LEMMA CommandBegins ==
  ASSUME ControllerTyped, NEW op \in OneArgument \cup TwoArguments, Len(pending) = 0,
         Receive(ssd1306_command(op))
  PROVE  /\ ControllerTyped' /\ Holds(1, op, 0)' /\ UNCHANGED <<ram, mode, window, cursor, setup>>
<1>1. op \in Nat /\ op < 256 /\ Arguments(op) >= 1
  BY DEF OneArgument, TwoArguments, Arguments
<1>2. PICK c : /\ c \in Seq(Nat) /\ Len(c) = Len(pending) + 1
               /\ \A k \in 1..Len(pending) : c[k] = pending[k]
               /\ c[Len(pending) + 1] = op
               /\ Len(pending) = Arguments(c[1]) => pending' = << >> /\ Execute(c)
               /\ Len(pending) # Arguments(c[1]) => pending' = c /\ UNCHANGED <<mode, window, cursor, setup>>
               /\ UNCHANGED ram
  BY <1>1, CommandReceived
<1>3. Len(c) = 1 /\ c[1] = op
  BY <1>2
<1>4. pending' = c /\ UNCHANGED <<ram, mode, window, cursor, setup>>
  <2>1. Len(pending) # Arguments(c[1])
    BY <1>1, <1>3
  <2> QED
    BY <1>2, <2>1, Zenon
<1>5. Holds(1, op, 0)'
  BY <1>3, <1>4 DEF Holds
<1>6. pending' \in Seq(Nat) /\ Len(pending') <= 2
  <2>1. c \in Seq(Nat) /\ Len(c) <= 2
    BY <1>2, <1>3, AtMostTwo, Zenon
  <2> QED
    BY <1>4, <2>1, Zenon
<1> QED
  BY <1>4, <1>5, <1>6 DEF ControllerTyped

\* A command without arguments is executed at once.
LEMMA CommandAlone ==
  ASSUME ControllerTyped, NEW op \in NoArgument, Len(pending) = 0, Receive(ssd1306_command(op))
  PROVE  /\ ControllerTyped' /\ Len(pending') = 0 /\ setup' = [setup EXCEPT ![op] = 0]
         /\ UNCHANGED <<ram, mode, window, cursor>>
<1>1. op \in Nat /\ op < 256 /\ Arguments(op) = 0 /\ op \in SetupCommands /\ op \notin {\h20, \h21, \h22}
  BY DEF OneArgument, TwoArguments, NoArgument, Arguments, SetupCommands
<1>2. PICK c : /\ c \in Seq(Nat) /\ Len(c) = Len(pending) + 1
               /\ \A k \in 1..Len(pending) : c[k] = pending[k]
               /\ c[Len(pending) + 1] = op
               /\ Len(pending) = Arguments(c[1]) => pending' = << >> /\ Execute(c)
               /\ Len(pending) # Arguments(c[1]) => pending' = c /\ UNCHANGED <<mode, window, cursor, setup>>
               /\ UNCHANGED ram
  BY <1>1, CommandReceived
<1>3. Len(c) = 1 /\ c[1] = op
  BY <1>2
<1>4. pending' = << >> /\ Execute(c) /\ UNCHANGED ram
  <2>1. Len(pending) = Arguments(c[1])
    BY <1>1, <1>3 DEF Holds
  <2> QED
    BY <1>2, <2>1, Zenon
<1>5. DOMAIN setup = SetupCommands
  BY DEF ControllerTyped
<1>6. setup' = [setup EXCEPT ![op] = 0] /\ UNCHANGED <<mode, window, cursor>>
  BY <1>1, <1>3, <1>4, <1>5 DEF Execute
<1>7. Len(pending') = 0 /\ pending' \in Seq(Nat)
  BY <1>4, EmptyCommand, Zenon
<1>8. setup' \in [SetupCommands -> Int]
  BY <1>1, <1>5, <1>6 DEF ControllerTyped
<1> QED
  BY <1>4, <1>6, <1>7, <1>8 DEF ControllerTyped

\* The argument of a command that takes one.
LEMMA ArgumentReceived ==
  ASSUME ControllerTyped, NEW op \in OneArgument, Holds(1, op, 0), NEW b \in Nat, b < 256,
         Receive(ssd1306_command(b))
  PROVE  /\ ControllerTyped' /\ Len(pending') = 0 /\ UNCHANGED <<ram, window, cursor>>
         /\ op = \h20 => mode' = b % 4 /\ UNCHANGED setup
         /\ op # \h20 => setup' = [setup EXCEPT ![op] = b] /\ UNCHANGED mode
<1>1. Arguments(op) = 1 /\ op \notin {\h21, \h22} /\ (op # \h20 => op \in SetupCommands)
  BY DEF OneArgument, TwoArguments, NoArgument, Arguments, SetupCommands
<1>2. PICK c : /\ c \in Seq(Nat) /\ Len(c) = Len(pending) + 1
               /\ \A k \in 1..Len(pending) : c[k] = pending[k]
               /\ c[Len(pending) + 1] = b
               /\ Len(pending) = Arguments(c[1]) => pending' = << >> /\ Execute(c)
               /\ Len(pending) # Arguments(c[1]) => pending' = c /\ UNCHANGED <<mode, window, cursor, setup>>
               /\ UNCHANGED ram
  BY CommandReceived
<1>3. Len(c) = 2 /\ c[1] = op /\ c[2] = b
  BY <1>2 DEF Holds
<1>4. pending' = << >> /\ Execute(c) /\ UNCHANGED ram
  <2>1. Len(pending) = Arguments(c[1])
    BY <1>1, <1>3 DEF Holds
  <2> QED
    BY <1>2, <2>1, Zenon
<1>5. DOMAIN setup = SetupCommands /\ b % 4 \in 0..3
  BY DEF ControllerTyped
<1>6. op = \h20 => mode' = b % 4 /\ UNCHANGED <<window, cursor, setup>>
  BY <1>3, <1>4, NotSetup DEF Execute
<1>7. op # \h20 => setup' = [setup EXCEPT ![op] = b] /\ UNCHANGED <<mode, window, cursor>>
  BY <1>1, <1>3, <1>4, <1>5 DEF Execute
<1>8. Len(pending') = 0 /\ pending' \in Seq(Nat)
  BY <1>4, EmptyCommand, Zenon
<1>9. setup' \in [SetupCommands -> Int] /\ mode' \in 0..3 /\ UNCHANGED <<window, cursor>>
  BY <1>5, <1>6, <1>7 DEF ControllerTyped
<1> QED
  BY <1>4, <1>6, <1>7, <1>8, <1>9 DEF ControllerTyped

\* The first of two arguments waits for the second.
LEMMA FirstReceived ==
  ASSUME ControllerTyped, NEW op \in TwoArguments, Holds(1, op, 0), NEW b \in Nat, b < 256,
         Receive(ssd1306_command(b))
  PROVE  ControllerTyped' /\ Holds(2, op, b)' /\ UNCHANGED <<ram, mode, window, cursor, setup>>
<1>1. Arguments(op) = 2
  BY DEF Arguments
<1>2. PICK c : /\ c \in Seq(Nat) /\ Len(c) = Len(pending) + 1
               /\ \A k \in 1..Len(pending) : c[k] = pending[k]
               /\ c[Len(pending) + 1] = b
               /\ Len(pending) = Arguments(c[1]) => pending' = << >> /\ Execute(c)
               /\ Len(pending) # Arguments(c[1]) => pending' = c /\ UNCHANGED <<mode, window, cursor, setup>>
               /\ UNCHANGED ram
  BY CommandReceived
<1>3. Len(c) = 2 /\ c[1] = op /\ c[2] = b
  BY <1>2 DEF Holds
<1>4. pending' = c /\ UNCHANGED <<ram, mode, window, cursor, setup>>
  <2>1. Len(pending) # Arguments(c[1])
    BY <1>1, <1>3 DEF Holds
  <2> QED
    BY <1>2, <2>1, Zenon
<1>5. Holds(2, op, b)'
  BY <1>3, <1>4 DEF Holds
<1>6. pending' \in Seq(Nat) /\ Len(pending') <= 2
  <2>1. c \in Seq(Nat) /\ Len(c) <= 2
    BY <1>2, <1>3, AtMostTwo, Zenon
  <2> QED
    BY <1>4, <2>1, Zenon
<1> QED
  BY <1>4, <1>5, <1>6 DEF ControllerTyped

\* The second of two arguments sets the columns or the pages of the window.
LEMMA SecondReceived ==
  ASSUME ControllerTyped, NEW op \in TwoArguments, NEW a \in Nat, Holds(2, op, a), NEW b \in Nat, b < 256,
         Receive(ssd1306_command(b))
  PROVE  /\ ControllerTyped' /\ Len(pending') = 0 /\ UNCHANGED <<ram, mode, setup>>
         /\ op = \h21 => /\ window' = <<a % 128, b % 128, window[3], window[4]>>
                         /\ cursor' = <<a % 128, cursor[2]>>
         /\ op = \h22 => /\ window' = <<window[1], window[2], a % 8, b % 8>>
                         /\ cursor' = <<cursor[1], a % 8>>
<1>1. Arguments(op) = 2
  BY DEF Arguments
<1>2. PICK c : /\ c \in Seq(Nat) /\ Len(c) = Len(pending) + 1
               /\ \A k \in 1..Len(pending) : c[k] = pending[k]
               /\ c[Len(pending) + 1] = b
               /\ Len(pending) = Arguments(c[1]) => pending' = << >> /\ Execute(c)
               /\ Len(pending) # Arguments(c[1]) => pending' = c /\ UNCHANGED <<mode, window, cursor, setup>>
               /\ UNCHANGED ram
  BY CommandReceived
<1>3. Len(c) = 3 /\ c[1] = op /\ c[2] = a /\ c[3] = b
  BY <1>2 DEF Holds
<1>4. pending' = << >> /\ Execute(c) /\ UNCHANGED ram
  <2>1. Len(pending) = Arguments(c[1])
    BY <1>1, <1>3 DEF Holds
  <2> QED
    BY <1>2, <2>1, Zenon
<1>5. op = \h21 => /\ window' = <<a % 128, b % 128, window[3], window[4]>>
                   /\ cursor' = <<a % 128, cursor[2]>> /\ UNCHANGED <<mode, setup>>
  BY <1>3, <1>4, NotSetup DEF Execute
<1>6. op = \h22 => /\ window' = <<window[1], window[2], a % 8, b % 8>>
                   /\ cursor' = <<cursor[1], a % 8>> /\ UNCHANGED <<mode, setup>>
  BY <1>3, <1>4, NotSetup DEF Execute
<1>7. Column(a % 128) /\ Column(b % 128) /\ Page(a % 8) /\ Page(b % 8) /\ (op = \h21 \/ op = \h22)
  BY DEF TwoArguments, Column, Page
<1>8. /\ window' = <<window'[1], window'[2], window'[3], window'[4]>> /\ cursor' = <<cursor'[1], cursor'[2]>>
      /\ Column(window'[1]) /\ Column(window'[2]) /\ Column(cursor'[1])
      /\ Page(window'[3]) /\ Page(window'[4]) /\ Page(cursor'[2])
  BY <1>5, <1>6, <1>7 DEF ControllerTyped
<1>9. Len(pending') = 0 /\ pending' \in Seq(Nat)
  BY <1>4, EmptyCommand, Zenon
<1>10. UNCHANGED <<mode, setup>>
  BY <1>5, <1>6, <1>7
<1> QED
  BY <1>4, <1>5, <1>6, <1>8, <1>9, <1>10 DEF ControllerTyped

-----------------------------------------------------------------------------
(* The writes of a drawing                                                 *)

\* What goes over the bus when the pictures of D are drawn.
Bus(D) == {ssd1306_command(b) : b \in Nat} \cup {ssd1306_data(p, n) : p \in D, n \in Nat}

\* The writes of update_area, one after the other.
AreaIs(u, p, x, y, w, h) ==
  /\ u \in Seq(Bus({p})) /\ Len(u) = 9
  /\ u[1] = ssd1306_command(\h20) /\ u[2] = ssd1306_command(0) /\ u[3] = ssd1306_command(\h21)
  /\ u[4] = ssd1306_command(x) /\ u[5] = ssd1306_command(x + w - 1) /\ u[6] = ssd1306_command(\h22)
  /\ u[7] = ssd1306_command(y) /\ u[8] = ssd1306_command(y + h - 1)
  /\ u[9] = ssd1306_data(p, w * h)

\* update_area makes the nine writes of AreaIs.
LEMMA AreaWrites ==
  ASSUME NEW p, NEW x \in Nat, NEW y \in Nat, NEW w \in Nat \ {0}, NEW h \in Nat \ {0}
  PROVE  AreaIs(update_area(p, x, y, w, h), p, x, y, w, h)
<1> DEFINE c == <<\h20, \h00, \h21, x, x + w - 1, \h22, y, y + h - 1>>
           d == ssd1306_data(p, w * h)
           s == Commands(c)
           e == <<d>>
           u == Cat(s, e)
           T == Bus({p})
<1>1. c \in Seq(Nat) /\ Len(c) = 8 /\ DOMAIN c = 1..8
  OBVIOUS
<1>2. /\ c[1] = \h20 /\ c[2] = 0 /\ c[3] = \h21 /\ c[4] = x /\ c[5] = x + w - 1
      /\ c[6] = \h22 /\ c[7] = y /\ c[8] = y + h - 1
  OBVIOUS
<1>3. w * h \in Nat /\ d \in T
  BY DEF Bus
<1> HIDE DEF c, d
<1>4. s = [k \in 1..8 |-> ssd1306_command(c[k])]
  BY <1>1 DEF Commands
<1>5. \A k \in 1..8 : ssd1306_command(c[k]) \in T
  <2>1. \A k \in 1..8 : c[k] \in Nat
    BY <1>2
  <2>2. \A b \in Nat : ssd1306_command(b) \in T
    BY DEF Bus
  <2> QED
    BY <2>1, <2>2, Zenon
<1> HIDE DEF s, T
<1>6. Len(s) = 8 /\ Len(e) = 1 /\ e[1] = d
  BY <1>4
<1>13. s \in Seq(T) /\ e \in Seq(T)
  BY <1>3, <1>4, <1>5
<1> HIDE DEF e
<1>7. /\ u \in Seq(T) /\ Len(u) = Len(s) + Len(e)
      /\ Len(s) \in Nat /\ Len(e) \in Nat
      /\ \A k \in 1..Len(s) : u[k] = s[k]
      /\ \A k \in 1..Len(e) : u[Len(s) + k] = e[k]
  <2>1. u \in Seq(T)
    BY <1>13, CatIs
  <2>2. Len(u) = Len(s) + Len(e) /\ Len(s) \in Nat /\ Len(e) \in Nat
    BY <1>13, CatIs
  <2>3. \A k \in 1..Len(s) : u[k] = s[k]
    BY <1>13, CatIs
  <2>4. \A k \in 1..Len(e) : u[Len(s) + k] = e[k]
    BY <1>13, CatIs
  <2> QED
    BY <2>1, <2>2, <2>3, <2>4
<1>8. u = update_area(p, x, y, w, h)
  BY Zenon DEF update_area, Cat, c, d, s, e
<1> HIDE DEF u
<1>9. /\ u \in Seq(T) /\ Len(u) = 8 + 1
      /\ \A k \in 1..8 : u[k] = s[k]
      /\ \A k \in 1..1 : u[8 + k] = e[k]
  BY <1>6, <1>7, Zenon
<1>10. Len(u) = 9
  BY <1>9
<1>11. (\A k \in 1..8 : u[k] = ssd1306_command(c[k])) /\ u[9] = d
  <2>1. \A k \in 1..8 : u[k] = ssd1306_command(c[k])
    BY <1>4, <1>9
  <2>2. 1 \in 1..1 /\ 8 + 1 = 9
    OBVIOUS
  <2> QED
    BY <1>6, <1>9, <2>1, <2>2, Zenon
<1>12. /\ u[1] = ssd1306_command(\h20) /\ u[2] = ssd1306_command(0) /\ u[3] = ssd1306_command(\h21)
       /\ u[4] = ssd1306_command(x) /\ u[5] = ssd1306_command(x + w - 1) /\ u[6] = ssd1306_command(\h22)
       /\ u[7] = ssd1306_command(y) /\ u[8] = ssd1306_command(y + h - 1) /\ u[9] = d
  BY <1>2, <1>11
<1> QED
  BY <1>8, <1>9, <1>10, <1>12, Zenon DEF d, T, AreaIs

\* clear_display draws the empty picture over the whole display.
LEMMA ClearIs == clear_display = WritesOf(Everything)
<1>1. 0 + 16 - 1 = 15 /\ 0 + 8 - 1 = 7 /\ 16 - 1 = 15 /\ 8 - 1 = 7
  OBVIOUS
<1>2. FIELD_WIDTH = 16 /\ FIELD_HEIGHT = 8
  BY ScreenAssumption
<1>3. WritesOf(Everything) = update_area(clear, 0, 0, 16, 8)
  BY DEF WritesOf, Everything, Area
<1>4. update_full(clear) = update_area(clear, 0, 0, 16, 8)
  BY <1>1, <1>2, Zenon DEF update_full, update_area
<1> QED
  BY <1>3, <1>4, Zenon DEF clear_display

\* Taking the next of the writes that are left.
LEMMA LeftStep ==
  ASSUME NEW T, NEW u \in Seq(T), NEW k \in Nat, k < Len(u)
  PROVE  /\ Left(u, k) # << >> /\ Head(Left(u, k)) = u[k + 1] /\ Tail(Left(u, k)) = Left(u, k + 1)
         /\ Len(Left(u, k)) = Len(u) - k
<1>1. Len(u) \in Nat /\ k + 1 \in 1..Len(u)
  OBVIOUS
<1> DEFINE s == Left(u, k)
<1>2. /\ s \in Seq(T) /\ Len(s) = Len(u) - k
      /\ \A j \in 1..Len(s) : s[j] = u[k + j]
  BY <1>1 DEF Left
<1> HIDE DEF s
<1>3. s # << >> /\ Head(s) = u[k + 1]
  BY <1>1, <1>2
<1>4. Tail(SubSeq(u, k + 1, Len(u))) = SubSeq(u, (k + 1) + 1, Len(u))
  BY <1>1, HeadTailOfSubSeq
<1> QED
  BY <1>2, <1>3, <1>4 DEF s, Left

\* Nothing is taken, and everything.
LEMMA LeftEnds ==
  ASSUME NEW T, NEW u \in Seq(T)
  PROVE  Left(u, 0) = u /\ Left(u, Len(u)) = << >>
  BY DEF Left

-----------------------------------------------------------------------------
(* The controller during a drawing                                         *)

\* The position and the size of an area that is drawn are within the display.
LEMMA AreaFits ==
  ASSUME NEW a, Drawable(a)
  PROVE  /\ a.x \in Nat /\ a.y \in Nat /\ a.w \in Nat \ {0} /\ a.h \in Nat \ {0}
         /\ a.x + a.w <= 16 /\ a.y + a.h <= 8
         /\ \/ a.w = 1 /\ a.h = 1
            \/ a.w = 1 /\ a.h = 8
            \/ a.w = 8 /\ a.h = 8
            \/ a.w = 15 /\ a.h = 8
            \/ a.w = 16 /\ a.h = 8
  BY DEF Drawable

\* Every command of a drawing takes the controller one stage further and leaves
\* the picture as it is.
LEMMA StageCommand ==
  ASSUME ControllerTyped, NEW a, Drawable(a), NEW k \in 0..7, Stage(k, a), Receive(WritesOf(a)[k + 1])
  PROVE  ControllerTyped' /\ Stage(k + 1, a)' /\ UNCHANGED ram
<1> DEFINE x == a.x
           y == a.y
           x2 == a.x + a.w - 1
           y2 == a.y + a.h - 1
<1>1. /\ a.x \in Nat /\ a.y \in Nat /\ a.w \in Nat \ {0} /\ a.h \in Nat \ {0}
      /\ a.x + a.w <= 16 /\ a.y + a.h <= 8
  BY AreaFits
<1>2. /\ x \in Nat /\ x < 16 /\ y \in Nat /\ y < 8 /\ x2 \in Nat /\ x2 < 16 /\ y2 \in Nat /\ y2 < 8
      /\ x % 128 = x /\ x2 % 128 = x2 /\ y % 8 = y /\ y2 % 8 = y2
  BY <1>1
<1>3. /\ WritesOf(a)[1] = ssd1306_command(\h20) /\ WritesOf(a)[2] = ssd1306_command(0)
      /\ WritesOf(a)[3] = ssd1306_command(\h21) /\ WritesOf(a)[4] = ssd1306_command(x)
      /\ WritesOf(a)[5] = ssd1306_command(x2) /\ WritesOf(a)[6] = ssd1306_command(\h22)
      /\ WritesOf(a)[7] = ssd1306_command(y) /\ WritesOf(a)[8] = ssd1306_command(y2)
  <2> DEFINE p == a.data
             w == a.w
             h == a.h
             u == update_area(p, x, y, w, h)
  <2>1. x \in Nat /\ y \in Nat /\ w \in Nat \ {0} /\ h \in Nat \ {0}
    BY <1>1
  <2>2. WritesOf(a) = u /\ x2 = x + w - 1 /\ y2 = y + h - 1
    BY DEF WritesOf
  <2> HIDE DEF x, y, x2, y2, p, w, h
  <2>3. AreaIs(u, p, x, y, w, h)
    BY <2>1, AreaWrites
  <2> QED
    BY <2>2, <2>3, Zenon DEF AreaIs
<1>4. \h20 \in OneArgument \cup TwoArguments /\ \h20 \in OneArgument /\ {\h21, \h22} \subseteq TwoArguments
  BY DEF OneArgument, TwoArguments
<1>5. SetUp /\ (UNCHANGED setup => SetUp')
  BY DEF Stage, SetUp
<1> HIDE DEF x, y, x2, y2
<1>6. CASE k = 0
  <2>1. Receive(ssd1306_command(\h20)) /\ Len(pending) = 0
    BY <1>3, <1>6 DEF Stage
  <2>2. ControllerTyped' /\ Holds(1, \h20, 0)' /\ UNCHANGED <<ram, mode, window, cursor, setup>>
    BY <1>4, <2>1, CommandBegins
  <2> QED
    BY <1>5, <1>6, <2>2 DEF Stage
<1>7. CASE k = 1
  <2>1. Receive(ssd1306_command(0)) /\ Holds(1, \h20, 0) /\ 0 \in Nat /\ 0 < 256
    BY <1>3, <1>7 DEF Stage
  <2>2. ControllerTyped' /\ Len(pending') = 0 /\ UNCHANGED <<ram, window, cursor, setup>> /\ mode' = 0 % 4
    BY <1>4, <2>1, ArgumentReceived
  <2>3. mode' = Horizontal
    BY <2>2 DEF Horizontal
  <2> QED
    BY <1>5, <1>7, <2>2, <2>3 DEF Stage
<1>8. CASE k = 2
  <2>1. Receive(ssd1306_command(\h21)) /\ Len(pending) = 0 /\ mode = Horizontal
    BY <1>3, <1>8 DEF Stage
  <2>2. ControllerTyped' /\ Holds(1, \h21, 0)' /\ UNCHANGED <<ram, mode, window, cursor, setup>>
    BY <1>4, <2>1, CommandBegins
  <2> QED
    BY <1>5, <1>8, <2>1, <2>2 DEF Stage
<1>9. CASE k = 3
  <2>1. Receive(ssd1306_command(x)) /\ Holds(1, \h21, 0) /\ mode = Horizontal /\ x < 256
    BY <1>2, <1>3, <1>9 DEF Stage
  <2>2. ControllerTyped' /\ Holds(2, \h21, x)' /\ UNCHANGED <<ram, mode, window, cursor, setup>>
    BY <1>2, <1>4, <2>1, FirstReceived
  <2> QED
    BY <1>5, <1>9, <2>1, <2>2 DEF Stage, x
<1>10. CASE k = 4
  <2>1. Receive(ssd1306_command(x2)) /\ Holds(2, \h21, x) /\ mode = Horizontal /\ x2 < 256
    BY <1>2, <1>3, <1>10 DEF Stage, x
  <2>2. /\ ControllerTyped' /\ Len(pending') = 0 /\ UNCHANGED <<ram, mode, setup>>
        /\ window' = <<x % 128, x2 % 128, window[3], window[4]>> /\ cursor' = <<x % 128, cursor[2]>>
    BY <1>2, <1>4, <2>1, SecondReceived
  <2>3. window'[1] = x /\ window'[2] = x2 /\ cursor'[1] = x
    BY <1>2, <2>2
  <2> QED
    BY <1>5, <1>10, <2>1, <2>2, <2>3 DEF Stage, x, x2
<1>11. CASE k = 5
  <2>1. /\ Receive(ssd1306_command(\h22)) /\ Len(pending) = 0 /\ mode = Horizontal
        /\ window[1] = x /\ window[2] = x2 /\ cursor[1] = x
    BY <1>3, <1>11 DEF Stage, x, x2
  <2>2. ControllerTyped' /\ Holds(1, \h22, 0)' /\ UNCHANGED <<ram, mode, window, cursor, setup>>
    BY <1>4, <2>1, CommandBegins
  <2> QED
    BY <1>5, <1>11, <2>1, <2>2 DEF Stage, x, x2
<1>12. CASE k = 6
  <2>1. /\ Receive(ssd1306_command(y)) /\ Holds(1, \h22, 0) /\ mode = Horizontal /\ y < 256
        /\ window[1] = x /\ window[2] = x2 /\ cursor[1] = x
    BY <1>2, <1>3, <1>12 DEF Stage, x, x2
  <2>2. ControllerTyped' /\ Holds(2, \h22, y)' /\ UNCHANGED <<ram, mode, window, cursor, setup>>
    BY <1>2, <1>4, <2>1, FirstReceived
  <2> QED
    BY <1>5, <1>12, <2>1, <2>2 DEF Stage, x, x2, y
<1>13. CASE k = 7
  <2>1. /\ Receive(ssd1306_command(y2)) /\ Holds(2, \h22, y) /\ mode = Horizontal /\ y2 < 256
        /\ window[1] = x /\ window[2] = x2 /\ cursor[1] = x
    BY <1>2, <1>3, <1>13 DEF Stage, x, x2, y
  <2>2. /\ ControllerTyped' /\ Len(pending') = 0 /\ UNCHANGED <<ram, mode, setup>>
        /\ window' = <<window[1], window[2], y % 8, y2 % 8>> /\ cursor' = <<cursor[1], y % 8>>
    BY <1>2, <1>4, <2>1, SecondReceived, SMTT(60)
  <2>3. /\ window'[1] = x /\ window'[2] = x2 /\ window'[3] = y /\ window'[4] = y2
        /\ cursor'[1] = x /\ cursor'[2] = y
    BY <1>2, <2>1, <2>2
  <2> QED
    BY <1>5, <1>13, <2>1, <2>2, <2>3 DEF Stage, x, x2, y, y2
<1> QED
  BY <1>6, <1>7, <1>8, <1>9, <1>10, <1>11, <1>12, <1>13

\* The bytes of a picture that fills its window exactly, one after the other.
LEMMA FillArithmetic ==
  ASSUME NEW w \in Nat, NEW h \in Nat,
         \/ w = 1 /\ h = 1
         \/ w = 1 /\ h = 8
         \/ w = 8 /\ h = 8
         \/ w = 15 /\ h = 8
         \/ w = 16 /\ h = 8,
         NEW p \in Nat, p < h, NEW q \in Nat, q < w
  PROVE  /\ (p * w + q) % (w * h) = p * w + q
         /\ p * w + q < w * h
         /\ (p * w + q) + (w * h) * (((w * h - 1) - (p * w + q)) \div (w * h)) = p * w + q
<1>1. CASE w = 1 /\ h = 1
  BY <1>1
<1>2. CASE w = 1 /\ h = 8
  BY <1>2
<1>3. CASE w = 8 /\ h = 8
  BY <1>3
<1>4. CASE w = 15 /\ h = 8
  BY <1>4
<1>5. CASE w = 16 /\ h = 8
  BY <1>5
<1> QED
  BY <1>1, <1>2, <1>3, <1>4, <1>5

\* The cursor is back at the start of the window.
LEMMA EndArithmetic ==
  ASSUME NEW w \in Nat, NEW h \in Nat,
         \/ w = 1 /\ h = 1
         \/ w = 1 /\ h = 8
         \/ w = 8 /\ h = 8
         \/ w = 15 /\ h = 8
         \/ w = 16 /\ h = 8
  PROVE  ((0 + w * h) % (w * h)) % w = 0 /\ ((0 + w * h) % (w * h)) \div w = 0
<1>1. CASE w = 1 /\ h = 1
  BY <1>1
<1>2. CASE w = 1 /\ h = 8
  BY <1>2
<1>3. CASE w = 8 /\ h = 8
  BY <1>3
<1>4. CASE w = 15 /\ h = 8
  BY <1>4
<1>5. CASE w = 16 /\ h = 8
  BY <1>5
<1> QED
  BY <1>1, <1>2, <1>3, <1>4, <1>5

\* A byte of the display is a column and a page.
LEMMA DotIs ==
  ASSUME NEW d \in Dots
  PROVE  d[1] \in Nat /\ d[1] < 16 /\ d[2] \in Nat /\ d[2] < 8 /\ d = <<d[1], d[2]>>
  BY ScreenAssumption DEF Dots

\* The last write of a drawing puts its picture over what was shown.
LEMMA StageData ==
  ASSUME ControllerTyped, NEW a, Drawable(a), Stage(8, a), Receive(WritesOf(a)[9])
  PROVE  ControllerTyped' /\ Stage(9, a)' /\ ram' = Overlay(ram, a)
<1> DEFINE x == a.x
           y == a.y
           w == a.w
           h == a.h
           p == a.data
<1>1. /\ x \in Nat /\ y \in Nat /\ w \in Nat \ {0} /\ h \in Nat \ {0} /\ x + w <= 16 /\ y + h <= 8
      /\ \/ w = 1 /\ h = 1
         \/ w = 1 /\ h = 8
         \/ w = 8 /\ h = 8
         \/ w = 15 /\ h = 8
         \/ w = 16 /\ h = 8
  BY AreaFits
<1>2. WritesOf(a) = update_area(p, x, y, w, h)
  BY DEF WritesOf
<1>3. /\ SetUp /\ Len(pending) = 0 /\ mode = Horizontal
      /\ window[1] = x /\ window[2] = x + w - 1 /\ cursor[1] = x
      /\ window[3] = y /\ window[4] = y + h - 1 /\ cursor[2] = y
  BY DEF Stage
<1>4. Overlay(ram, a) =
        [d \in Dots |-> IF d[1] \in x..(x + w - 1) /\ d[2] \in y..(y + h - 1)
                        THEN Byte(p, (d[2] - y) * w + d[1] - x) ELSE ram[d]]
  BY DEF Overlay, InArea
<1>5. SUFFICES /\ pending' = pending /\ mode' = mode /\ window' = window /\ setup' = setup
               /\ cursor' = <<x, y>> /\ ram' = Overlay(ram, a)
  <2>1. ASSUME /\ pending' = pending /\ mode' = mode /\ window' = window /\ setup' = setup
               /\ cursor' = <<x, y>> /\ ram' = Overlay(ram, a)
        PROVE  ControllerTyped' /\ Stage(9, a)'
    <3>1. cursor'[1] = x /\ cursor'[2] = y /\ cursor' = <<cursor'[1], cursor'[2]>>
      BY <2>1
    <3>2. SetUp'
      BY <1>3, <2>1 DEF SetUp
    <3>3. Stage(9, a)'
      BY <1>3, <2>1, <3>1, <3>2 DEF Stage
    <3>4. Column(x) /\ Page(y)
      BY <1>1 DEF Column, Page
    <3>5. DOMAIN Overlay(ram, a) = Dots
      BY <1>4
    <3>6. ControllerTyped'
      BY <2>1, <3>1, <3>4, <3>5 DEF ControllerTyped
    <3> QED
      BY <3>3, <3>6
  <2> QED
    BY <2>1
<1> HIDE DEF x, y, w, h, p
<1>6. AreaIs(WritesOf(a), p, x, y, w, h)
  BY <1>1, <1>2, AreaWrites
<1>7. Receive(ssd1306_data(p, w * h))
  BY <1>6, Zenon DEF AreaIs
<1>8. ReceiveData(p, w * h)
  BY <1>7 DEF Receive, ssd1306_data
<1> DEFINE W == window[2] - window[1] + 1
           A == W * (window[4] - window[3] + 1)
           O == (cursor[2] - window[3]) * W + cursor[1] - window[1]
           E == (O + w * h) % A
<1>9. W = w /\ A = w * h /\ O = 0 /\ window[1] <= window[2] /\ window[3] <= window[4]
  <2>1. W = w /\ window[4] - window[3] + 1 = h /\ window[1] <= window[2] /\ window[3] <= window[4]
    BY <1>1, <1>3
  <2>2. cursor[2] - window[3] = 0 /\ cursor[1] - window[1] = 0
    BY <1>1, <1>3
  <2> HIDE DEF W
  <2>3. O = 0
    BY <1>1, <2>1, <2>2
  <2> QED
    BY <2>1, <2>3
<1>10. /\ ram' = [d \in Dots |->
             IF \/ d[1] \notin window[1]..window[2] \/ d[2] \notin window[3]..window[4]
                \/ (((d[2] - window[3]) * W + d[1] - window[1] - O) % A) >= w * h
             THEN ram[d]
             ELSE Byte(p, (((d[2] - window[3]) * W + d[1] - window[1] - O) % A)
                         + A * ((w * h - 1 - (((d[2] - window[3]) * W + d[1] - window[1] - O) % A)) \div A))]
       /\ cursor' = <<window[1] + (E % W), window[3] + (E \div W)>>
       /\ UNCHANGED <<pending, mode, window, setup>>
  BY <1>3, <1>8, <1>9, Zenon DEF ReceiveData
<1> HIDE DEF W, A, O
<1>11. cursor' = <<x, y>>
  <2>1. E % W = 0 /\ E \div W = 0
    BY <1>1, <1>9, EndArithmetic, Zenon
  <2> HIDE DEF E
  <2> QED
    BY <1>1, <1>3, <1>10, <2>1
<1>12. ram' = Overlay(ram, a)
  <2>1. ASSUME NEW d \in Dots
        PROVE  ram'[d] = IF d[1] \in x..(x + w - 1) /\ d[2] \in y..(y + h - 1)
                         THEN Byte(p, (d[2] - y) * w + d[1] - x) ELSE ram[d]
    <3> DEFINE o == ((d[2] - window[3]) * W + d[1] - window[1] - O) % A
    <3>1. ram'[d] = IF \/ d[1] \notin window[1]..window[2] \/ d[2] \notin window[3]..window[4]
                       \/ o >= w * h
                    THEN ram[d]
                    ELSE Byte(p, o + A * ((w * h - 1 - o) \div A))
      BY <1>10
    <3>2. d[1] \in Nat /\ d[2] \in Nat
      BY DotIs
    <3>3. CASE ~(d[1] \in x..(x + w - 1) /\ d[2] \in y..(y + h - 1))
      BY <1>3, <3>1, <3>3, Zenon
    <3>4. CASE d[1] \in x..(x + w - 1) /\ d[2] \in y..(y + h - 1)
      <4> DEFINE q == d[2] - y
                 r == d[1] - x
      <4>1. q \in Nat /\ q < h /\ r \in Nat /\ r < w
        BY <1>1, <3>2, <3>4
      <4>2. r - 0 = r
        BY <4>1
      <4>3. o = (q * w + r) % (w * h)
        BY <1>3, <1>9, <4>2, Zenon
      <4> HIDE DEF q, r
      <4>4. /\ (q * w + r) % (w * h) = q * w + r
            /\ q * w + r < w * h
            /\ (q * w + r) + (w * h) * (((w * h - 1) - (q * w + r)) \div (w * h)) = q * w + r
        BY <1>1, <4>1, FillArithmetic
      <4>5. q * w + r \in Nat /\ w * h \in Nat
        BY <1>1, <4>1
      <4>6. o = q * w + r /\ ~(o >= w * h)
        BY <4>3, <4>4, <4>5
      <4> HIDE DEF o
      <4>7. o + A * ((w * h - 1 - o) \div A) = q * w + r
        BY <1>9, <4>4, <4>6, Zenon
      <4>8. ram'[d] = Byte(p, q * w + r)
        BY <1>3, <3>1, <3>4, <4>6, <4>7, Zenon
      <4> QED
        BY <3>4, <4>8 DEF q, r
    <3> QED
      BY <3>3, <3>4
  <2>2. ram' = [d \in Dots |-> ram'[d]]
    BY <1>10
  <2> QED
    BY <1>4, <2>1, <2>2
<1> QED
  BY <1>10, <1>11, <1>12

-----------------------------------------------------------------------------
(* A drawing from its first write to its last                              *)

\* The writes of an area that is drawn.
LEMMA DrawableWrites ==
  ASSUME NEW a, Drawable(a)
  PROVE  WritesOf(a) \in Seq(Bus({a.data})) /\ Len(WritesOf(a)) = 9
<1> DEFINE x == a.x
           y == a.y
           w == a.w
           h == a.h
           p == a.data
<1>1. x \in Nat /\ y \in Nat /\ w \in Nat \ {0} /\ h \in Nat \ {0}
  BY AreaFits
<1>2. WritesOf(a) = update_area(p, x, y, w, h)
  BY DEF WritesOf
<1> HIDE DEF x, y, w, h, p
<1>3. AreaIs(WritesOf(a), p, x, y, w, h)
  BY <1>1, <1>2, AreaWrites
<1> QED
  BY <1>3, Zenon DEF AreaIs, p

\* The whole display, cleared, is dark.
LEMMA ClearsAll == Drawable(Everything) /\ (ControllerTyped => Overlay(ram, Everything) = Dark)
<1>1. /\ Everything.data = clear /\ Everything.x = 0 /\ Everything.y = 0 /\ Everything.w = 16
      /\ Everything.h = 8
  BY DEF Everything, Area
<1>2. Drawable(Everything)
  BY <1>1 DEF Drawable
<1>3. ASSUME NEW d \in Dots PROVE InArea(d, Everything)
  <2>1. d[1] \in Nat /\ d[1] < 16 /\ d[2] \in Nat /\ d[2] < 8
    BY DotIs
  <2> QED
    BY <1>1, <2>1 DEF InArea
<1>4. Overlay(ram, Everything) = [d \in Dots |-> Blank]
  BY <1>1, <1>3 DEF Overlay, Byte
<1> QED
  BY <1>2, <1>4 DEF Dark

\* A controller that waits for a command is ready for a drawing.
LEMMA StageStarts ==
  ASSUME NEW a, Prepared PROVE Stage(0, a)
  BY DEF Prepared, Stage

\* A sequence of writes of some is a sequence of writes of more.
LEMMA SeqOfMore ==
  ASSUME NEW S, NEW T, S \subseteq T, NEW u \in Seq(S)
  PROVE  u \in Seq(T)
  OBVIOUS

\* The writes c are u and then v.
OneAfterOther(T, c, u, v) ==
  /\ c \in Seq(T) /\ Len(c) = Len(u) + Len(v)
  /\ \A k \in 1..Len(u) : c[k] = u[k]
  /\ Left(c, Len(u)) = v

\* Two drawings one after the other.
LEMMA TwoDrawings ==
  ASSUME NEW T, NEW u \in Seq(T), NEW v \in Seq(T)
  PROVE  OneAfterOther(T, u \o v, u, v)
<1> DEFINE c == Cat(u, v)
           m == Len(u)
           n == Len(v)
<1>1. c = u \o v
  BY DEF Cat
<1>2. c \in Seq(T)
  BY CatIs
<1>3. Len(c) = m + n /\ m \in Nat /\ n \in Nat
  BY CatIs
<1>4. \A k \in 1..m : c[k] = u[k]
  BY CatIs
<1>5. \A k \in 1..n : c[m + k] = v[k]
  BY CatIs
<1>7. v \in Seq(T) /\ n = Len(v)
  OBVIOUS
<1> HIDE DEF c, m, n
<1>6. Left(c, m) = v
  <2> DEFINE s == SubSeq(c, m + 1, m + n)
  <2>1. \A k \in (m + 1)..(m + n) : c[k] \in T
    BY <1>2, <1>3
  <2>2. s \in Seq(T) /\ Len(s) = (IF m + 1 <= m + n THEN ((m + n) - (m + 1)) + 1 ELSE 0)
    BY <1>3, <2>1, SubSeqProperties
  <2>3. \A k \in 1..((m + n) - (m + 1)) + 1 : s[k] = c[(m + 1) + (k - 1)]
    BY <1>3, <2>1, SubSeqProperties
  <2> HIDE DEF s
  <2>4. Len(s) = n
    BY <1>3, <2>2
  <2>5. \A k \in 1..n : s[k] = v[k]
    <3> SUFFICES ASSUME NEW k \in 1..n PROVE s[k] = v[k]
      OBVIOUS
    <3>1. (m + 1) + (k - 1) = m + k /\ k \in 1..((m + n) - (m + 1)) + 1
      BY <1>3
    <3>2. s[k] = c[m + k]
      BY <2>3, <3>1
    <3> QED
      BY <1>5, <3>2
  <2>6. s = v
    BY <1>7, <2>2, <2>4, <2>5
  <2> QED
    BY <1>3, <2>6 DEF Left, s
<1> QED
  BY <1>1, <1>2, <1>3, <1>4, <1>6, Zenon DEF m, n, OneAfterOther

\* One write of area a.
LEMMA StageStep ==
  ASSUME ControllerTyped, NEW a, Drawable(a), NEW k \in 0..8, Stage(k, a), Receive(WritesOf(a)[k + 1])
  PROVE  /\ ControllerTyped' /\ Stage(k + 1, a)'
         /\ k < 8 => ram' = ram
         /\ k = 8 => ram' = Overlay(ram, a) /\ Settled'
<1>1. CASE k < 8
  <2>1. k \in 0..7
    BY <1>1
  <2>2. ControllerTyped' /\ Stage(k + 1, a)' /\ UNCHANGED ram
    BY <2>1, StageCommand
  <2> QED
    BY <1>1, <2>2
<1>2. CASE k = 8
  <2>1. 8 + 1 = 9
    OBVIOUS
  <2>2. Stage(8, a) /\ Receive(WritesOf(a)[9])
    BY <1>2, <2>1, Zenon
  <2>3. ControllerTyped' /\ Stage(9, a)' /\ ram' = Overlay(ram, a)
    BY <2>2, StageData
  <2>4. Settled'
    <3>1. /\ SetUp' /\ Len(pending') = 0 /\ mode' = Horizontal
          /\ cursor'[1] = window'[1] /\ cursor'[2] = window'[3]
      BY <2>3 DEF Stage
    <3>2. cursor' = <<cursor'[1], cursor'[2]>>
      BY <2>3 DEF ControllerTyped
    <3> QED
      BY <3>1, <3>2, Zenon DEF Settled, Prepared
  <2>5. Stage(k + 1, a)'
    BY <1>2, <2>1, <2>3, Zenon
  <2> QED
    BY <1>2, <2>3, <2>4, <2>5
<1> QED
  BY <1>1, <1>2

\* A write takes a drawing one step further to what it will show.
LEMMA DrawingStep ==
  ASSUME ControllerTyped, NEW t, NEW final, Drawing(t, final), t # << >>, Receive(Head(t))
  PROVE  ControllerTyped' /\ Drawing(Tail(t), final)'
<1>1. ASSUME NEW a, NEW k \in 0..8, Drawable(a), t = Left(WritesOf(a), k), Stage(k, a), final = Overlay(ram, a)
      PROVE  ControllerTyped' /\ Drawing(Tail(t), final)'
  <2> DEFINE u == WritesOf(a)
  <2>1. u \in Seq(Bus({a.data})) /\ Len(u) = 9
    BY <1>1, DrawableWrites
  <2>2. k \in Nat /\ k < Len(u)
    <3>1. k \in Nat /\ k < 9
      OBVIOUS
    <3> QED
      BY <2>1, <3>1, Zenon
  <2>3. Head(t) = u[k + 1] /\ Tail(t) = Left(u, k + 1)
    BY <1>1, <2>1, <2>2, LeftStep
  <2>4. Receive(WritesOf(a)[k + 1])
    BY <2>3
  <2>5. /\ ControllerTyped' /\ Stage(k + 1, a)'
        /\ k < 8 => ram' = ram
        /\ k = 8 => ram' = Overlay(ram, a) /\ Settled'
    BY <1>1, <2>4, StageStep
  <2>6. CASE k < 8
    <3>1. k + 1 \in 0..8
      BY <2>6
    <3>2. final = Overlay(ram', a)
      BY <1>1, <2>5, <2>6
    <3> HIDE DEF u
    <3> QED
      BY <1>1, <2>3, <2>5, <3>1, <3>2 DEF Drawing, u
  <2>7. CASE k = 8
    <3>1. Tail(t) = << >>
      <4>1. 8 + 1 = 9
        OBVIOUS
      <4>2. Left(u, Len(u)) = << >>
        BY <2>1, LeftEnds
      <4> QED
        BY <2>1, <2>3, <2>7, <4>1, <4>2, Zenon
    <3>2. Settled' /\ final = ram'
      BY <1>1, <2>5, <2>7
    <3> QED
      BY <2>5, <3>1, <3>2 DEF Drawing
  <2> QED
    BY <2>6, <2>7
<1> QED
  BY <1>1 DEF Drawing

\* The same when the display is cleared before.
LEMMA UnderwayStep ==
  ASSUME ControllerTyped, NEW t, NEW final, Underway(t, final), t # << >>, Receive(Head(t))
  PROVE  ControllerTyped' /\ Underway(Tail(t), final)'
<1>1. CASE Drawing(t, final)
  BY <1>1, DrawingStep DEF Underway
<1>2. ASSUME NEW a, NEW k \in 0..8, Drawable(a), t = Left(WritesOf(Everything) \o WritesOf(a), k),
             Stage(k, Everything), final = Overlay(Dark, a)
      PROVE  ControllerTyped' /\ Underway(Tail(t), final)'
  <2> DEFINE v == WritesOf(Everything)
             w == WritesOf(a)
             u == v \o w
             T == Bus({Everything.data, a.data})
  <2>1. v \in Seq(T) /\ Len(v) = 9 /\ w \in Seq(T) /\ Len(w) = 9
    <3>1. /\ v \in Seq(Bus({Everything.data})) /\ Len(v) = 9
          /\ w \in Seq(Bus({a.data})) /\ Len(w) = 9
      BY <1>2, DrawableWrites, ClearsAll
    <3>2. Bus({Everything.data}) \subseteq T /\ Bus({a.data}) \subseteq T
      BY DEF Bus
    <3> HIDE DEF v, w, T
    <3>3. v \in Seq(T) /\ w \in Seq(T)
      <4>1. v \in Seq(Bus({Everything.data})) /\ w \in Seq(Bus({a.data}))
        BY <3>1
      <4> QED
        BY <3>2, <4>1, SeqOfMore
    <3> QED
      BY <3>1, <3>3
  <2> HIDE DEF v, w, T
  <2>2. /\ u \in Seq(T) /\ Len(u) = Len(v) + Len(w)
        /\ \A j \in 1..Len(v) : u[j] = v[j]
        /\ Left(u, Len(v)) = w
    <3>1. OneAfterOther(T, u, v, w)
      BY <2>1, TwoDrawings, Zenon
    <3> QED
      BY <3>1, Zenon DEF OneAfterOther
  <2> HIDE DEF u
  <2>3. k \in Nat /\ k < Len(u)
    <3>1. Len(u) = 9 + 9 /\ k \in Nat /\ k < 9 + 9
      BY <2>1, <2>2
    <3> QED
      BY <3>1, Zenon
  <2>4. t = Left(u, k)
    BY <1>2, Zenon DEF u, v, w
  <2>5. Head(t) = u[k + 1] /\ Tail(t) = Left(u, k + 1)
    BY <2>2, <2>3, <2>4, LeftStep
  <2>6. u[k + 1] = v[k + 1]
    <3>1. k + 1 \in 1..9
      OBVIOUS
    <3> QED
      BY <2>1, <2>2, <3>1, Zenon
  <2>7. Receive(WritesOf(Everything)[k + 1])
    BY <2>5, <2>6 DEF v
  <2>8. /\ ControllerTyped' /\ Stage(k + 1, Everything)'
        /\ k < 8 => ram' = ram
        /\ k = 8 => ram' = Overlay(ram, Everything) /\ Settled'
    BY <1>2, <2>7, StageStep, ClearsAll
  <2>9. CASE k < 8
    <3>1. k + 1 \in 0..8
      BY <2>9
    <3> QED
      BY <1>2, <2>5, <2>8, <3>1 DEF Underway, u, v, w
  <2>10. CASE k = 8
    <3>1. Tail(t) = WritesOf(a)
      <4>1. 8 + 1 = 9
        OBVIOUS
      <4> QED
        BY <2>1, <2>2, <2>5, <2>10, <4>1, Zenon DEF w
    <3>2. WritesOf(a) = Left(WritesOf(a), 0)
      BY <2>1, LeftEnds DEF w
    <3>3. ram' = Dark /\ Settled'
      BY <2>8, <2>10, ClearsAll
    <3>4. Stage(0, a)'
      BY <3>3 DEF Settled, Prepared, Stage
    <3>5. final = Overlay(ram', a) /\ Tail(t) = Left(WritesOf(a), 0) /\ 0 \in 0..8
      BY <1>2, <3>1, <3>2, <3>3
    <3>6. Drawing(Tail(t), final)'
      BY <1>2, <3>4, <3>5 DEF Drawing
    <3> QED
      BY <2>8, <3>6 DEF Underway
  <2> QED
    BY <2>9, <2>10
<1> QED
  BY <1>1, <1>2 DEF Underway

-----------------------------------------------------------------------------
(* The setup                                                               *)

\* A byte that is no command is ignored.
LEMMA CommandIgnored ==
  ASSUME ControllerTyped, NEW b \in Nat, b < 256, b \notin OneArgument \cup TwoArguments \cup NoArgument,
         Len(pending) = 0, Receive(ssd1306_command(b))
  PROVE  ControllerTyped' /\ Len(pending') = 0 /\ UNCHANGED <<ram, mode, window, cursor, setup>>
<1>1. Arguments(b) = 0 /\ b \notin SetupCommands /\ b # \h20 /\ b # \h21 /\ b # \h22
  BY DEF OneArgument, TwoArguments, Arguments, SetupCommands
<1>2. PICK c : /\ c \in Seq(Nat) /\ Len(c) = Len(pending) + 1
               /\ \A k \in 1..Len(pending) : c[k] = pending[k]
               /\ c[Len(pending) + 1] = b
               /\ Len(pending) = Arguments(c[1]) => pending' = << >> /\ Execute(c)
               /\ Len(pending) # Arguments(c[1]) => pending' = c /\ UNCHANGED <<mode, window, cursor, setup>>
               /\ UNCHANGED ram
  BY CommandReceived
<1>3. c[1] = b
  BY <1>2
<1>4. pending' = << >> /\ Execute(c) /\ UNCHANGED ram
  <2>1. Len(pending) = Arguments(c[1])
    BY <1>1, <1>3
  <2> QED
    BY <1>2, <2>1, Zenon
<1>5. DOMAIN setup = SetupCommands
  BY DEF ControllerTyped
<1>6. UNCHANGED <<mode, window, cursor, setup>>
  BY <1>1, <1>3, <1>4, <1>5 DEF Execute
<1>7. Len(pending') = 0 /\ pending' \in Seq(Nat)
  BY <1>4, EmptyCommand, Zenon
<1> QED
  BY <1>4, <1>6, <1>7 DEF ControllerTyped

\* The writes of ssd1306_init.
LEMMA InitWrites ==
  /\ ssd1306_init \in Seq(Bus({}))
  /\ Len(ssd1306_init) = 18
  /\ ssd1306_init[1] = ssd1306_command(\hA8)
  /\ ssd1306_init[2] = ssd1306_command(\h3F)
  /\ ssd1306_init[3] = ssd1306_command(\hD3)
  /\ ssd1306_init[4] = ssd1306_command(\h00)
  /\ ssd1306_init[5] = ssd1306_command(\h40)
  /\ ssd1306_init[6] = ssd1306_command(\hA0)
  /\ ssd1306_init[7] = ssd1306_command(\hC0)
  /\ ssd1306_init[8] = ssd1306_command(\hDA)
  /\ ssd1306_init[9] = ssd1306_command(\h12)
  /\ ssd1306_init[10] = ssd1306_command(\h81)
  /\ ssd1306_init[11] = ssd1306_command(\h7F)
  /\ ssd1306_init[12] = ssd1306_command(\hA4)
  /\ ssd1306_init[13] = ssd1306_command(\hA6)
  /\ ssd1306_init[14] = ssd1306_command(\hD5)
  /\ ssd1306_init[15] = ssd1306_command(\h80)
  /\ ssd1306_init[16] = ssd1306_command(\h8D)
  /\ ssd1306_init[17] = ssd1306_command(\h14)
  /\ ssd1306_init[18] = ssd1306_command(\hAF)
<1> DEFINE c == <<\hA8, \h3F, \hD3, \h00, \h40, \hA0, \hC0, \hDA, \h12, \h81, \h7F,
                  \hA4, \hA6, \hD5, \h80, \h8D, \h14, \hAF>>
<1>1. DOMAIN c = 1..18
  OBVIOUS
<1>2. ssd1306_init = Commands(c)
  BY Zenon DEF ssd1306_init
<1>3. /\ c[1] = \hA8 /\ c[2] = \h3F /\ c[3] = \hD3 /\ c[4] = \h00 /\ c[5] = \h40 /\ c[6] = \hA0
      /\ c[7] = \hC0 /\ c[8] = \hDA /\ c[9] = \h12 /\ c[10] = \h81 /\ c[11] = \h7F /\ c[12] = \hA4
      /\ c[13] = \hA6 /\ c[14] = \hD5 /\ c[15] = \h80 /\ c[16] = \h8D /\ c[17] = \h14 /\ c[18] = \hAF
  OBVIOUS
<1> HIDE DEF c
<1>4. ssd1306_init = [k \in 1..18 |-> ssd1306_command(c[k])]
  BY <1>1, <1>2, Zenon DEF Commands
<1>5. \A k \in 1..18 : ssd1306_command(c[k]) \in Bus({})
  <2>1. \A k \in 1..18 : c[k] \in Nat
    BY <1>3
  <2>2. \A b \in Nat : ssd1306_command(b) \in Bus({})
    BY DEF Bus
  <2> QED
    BY <2>1, <2>2, Zenon
<1>6. ssd1306_init \in Seq(Bus({}))
  BY <1>4, <1>5
<1>7. Len(ssd1306_init) = 18
  BY <1>4
<1>8. \A k \in 1..18 : ssd1306_init[k] = ssd1306_command(c[k])
  BY <1>4
<1>9. /\ ssd1306_init[1] = ssd1306_command(\hA8) /\ ssd1306_init[2] = ssd1306_command(\h3F)
      /\ ssd1306_init[3] = ssd1306_command(\hD3) /\ ssd1306_init[4] = ssd1306_command(\h00)
      /\ ssd1306_init[5] = ssd1306_command(\h40) /\ ssd1306_init[6] = ssd1306_command(\hA0)
      /\ ssd1306_init[7] = ssd1306_command(\hC0) /\ ssd1306_init[8] = ssd1306_command(\hDA)
      /\ ssd1306_init[9] = ssd1306_command(\h12) /\ ssd1306_init[10] = ssd1306_command(\h81)
      /\ ssd1306_init[11] = ssd1306_command(\h7F) /\ ssd1306_init[12] = ssd1306_command(\hA4)
      /\ ssd1306_init[13] = ssd1306_command(\hA6) /\ ssd1306_init[14] = ssd1306_command(\hD5)
      /\ ssd1306_init[15] = ssd1306_command(\h80) /\ ssd1306_init[16] = ssd1306_command(\h8D)
      /\ ssd1306_init[17] = ssd1306_command(\h14) /\ ssd1306_init[18] = ssd1306_command(\hAF)
  BY <1>3, <1>8
<1> QED
  BY <1>6, <1>7, <1>9, Zenon

\* Every write of ssd1306_init takes the setup one stage further, whatever the
\* controller was in the middle of; after the last it is complete.
LEMMA InitStep ==
  ASSUME ControllerTyped, NEW k \in 0..17, InitStage(k), Receive(ssd1306_init[k + 1])
  PROVE  /\ ControllerTyped'
         /\ k < 17 => InitStage(k + 1)'
         /\ k = 17 => Prepared'
<1>1. /\ {\hA8, \hD3, \hDA, \h81, \hD5, \h8D, \h20} \subseteq OneArgument
      /\ {\hA8, \hD3, \hDA, \h81, \hD5, \h8D} \subseteq OneArgument \cup TwoArguments
      /\ {\h21, \h22} \subseteq TwoArguments /\ {\h40, \hA0, \hC0, \hA4, \hA6, \hAF} \subseteq NoArgument
      /\ \h3F \notin OneArgument \cup TwoArguments \cup NoArgument
  BY DEF OneArgument, TwoArguments, NoArgument
<1>2. DOMAIN setup = SetupCommands /\ \hA8 \in SetupCommands /\ \h8D \in SetupCommands /\ \hAF \in SetupCommands
  BY DEF ControllerTyped, SetupCommands, OneArgument, NoArgument
<1>3. CASE k = 0
  <2>6. 0 + 1 = 1
    OBVIOUS
  <2>7. Receive(ssd1306_command(\hA8))
    BY <1>3, <2>6, InitWrites, Zenon
  <2>8. Leftover
    BY <1>3 DEF InitStage
  <2>1. Receive(ssd1306_command(\hA8)) /\ Leftover
    BY <2>7, <2>8
  <2>2. \hA8 \in Nat /\ \hA8 < 256
    OBVIOUS
  <2>3. CASE Len(pending) = 0
    <3>1. ControllerTyped' /\ Holds(1, \hA8, 0)'
      BY <1>1, <2>1, <2>3, CommandBegins
    <3> QED
      BY <1>3, <3>1 DEF InitStage
  <2>4. ASSUME setup[\hA8] = \h3F, NEW op \in {\h20, \h21, \h22}, Holds(1, op, 0)
        PROVE  ControllerTyped' /\ InitStage(1)'
    <3>1. CASE op = \h20
      <4>1. ControllerTyped' /\ Len(pending') = 0 /\ UNCHANGED setup
        BY <1>1, <2>1, <2>2, <2>4, <3>1, ArgumentReceived, SMTT(60)
      <4> QED
        BY <2>4, <4>1 DEF InitStage
    <3>2. CASE op # \h20
      <4>1. op \in {\h21, \h22} /\ op \in TwoArguments
        BY <1>1, <3>2
      <4>2. ControllerTyped' /\ Holds(2, op, \hA8)' /\ UNCHANGED setup
        BY <2>1, <2>2, <2>4, <4>1, FirstReceived
      <4> QED
        BY <2>4, <4>1, <4>2 DEF InitStage
    <3> QED
      BY <3>1, <3>2
  <2>5. ASSUME setup[\hA8] = \h3F, NEW op \in {\h21, \h22}, NEW arg \in Nat, Holds(2, op, arg)
        PROVE  ControllerTyped' /\ InitStage(1)'
    <3>1. op \in TwoArguments
      BY <1>1
    <3>2. ControllerTyped' /\ Len(pending') = 0 /\ UNCHANGED setup
      BY <2>1, <2>2, <2>5, <3>1, SecondReceived
    <3> QED
      BY <2>5, <3>2 DEF InitStage
  <2> QED
    BY <1>3, <2>1, <2>3, <2>4, <2>5 DEF Leftover
<1>4. CASE k = 1
  <2>1. 1 + 1 = 2 /\ \h3F \in Nat /\ \h3F < 256
    OBVIOUS
  <2>2. Receive(ssd1306_command(\h3F))
    <3>1. ssd1306_init[k + 1] = ssd1306_command(\h3F)
      BY <1>4, <2>1, InitWrites
    <3> QED
      BY <3>1, Zenon
  <2>3. \/ Holds(1, \hA8, 0)
        \/ setup[\hA8] = \h3F /\ Len(pending) = 0
        \/ setup[\hA8] = \h3F /\ \E op \in {\h21, \h22} : Holds(2, op, \hA8)
    BY <1>4 DEF InitStage
  <2>4. ControllerTyped' /\ Len(pending') = 0 /\ setup'[\hA8] = \h3F
    <3>1. CASE Holds(1, \hA8, 0)
      <4>1. ControllerTyped' /\ Len(pending') = 0 /\ setup' = [setup EXCEPT ![\hA8] = \h3F]
        BY <1>1, <2>1, <2>2, <3>1, ArgumentReceived, SMTT(60)
      <4> QED
        BY <1>2, <4>1
    <3>2. CASE setup[\hA8] = \h3F /\ Len(pending) = 0
      <4>1. ControllerTyped' /\ Len(pending') = 0 /\ UNCHANGED setup
        BY <1>1, <2>1, <2>2, <3>2, CommandIgnored
      <4> QED
        BY <3>2, <4>1
    <3>3. ASSUME setup[\hA8] = \h3F, NEW op \in {\h21, \h22}, Holds(2, op, \hA8)
          PROVE  ControllerTyped' /\ Len(pending') = 0 /\ setup'[\hA8] = \h3F
      <4>1. op \in TwoArguments /\ \hA8 \in Nat
        BY <1>1
      <4>2. ControllerTyped' /\ Len(pending') = 0 /\ UNCHANGED setup
        BY <2>1, <2>2, <3>3, <4>1, SecondReceived
      <4> QED
        BY <3>3, <4>2
    <3> QED
      BY <2>3, <3>1, <3>2, <3>3
  <2> QED
    BY <1>4, <2>4 DEF InitStage
<1>5. CASE k = 2
  <2>1. 2 + 1 = 3 /\ \hD3 \in Nat /\ \hD3 < 256
    OBVIOUS
  <2>2. Receive(ssd1306_command(\hD3))
    <3>1. ssd1306_init[k + 1] = ssd1306_command(\hD3)
      BY <1>5, <2>1, InitWrites
    <3> QED
      BY <3>1, Zenon
  <2>3. Len(pending) = 0 /\ setup[\hA8] = \h3F
    BY <1>5 DEF InitStage
  <2>4. ControllerTyped' /\ Holds(1, \hD3, 0)' /\ UNCHANGED setup
    BY <1>1, <2>2, <2>3, CommandBegins
  <2> QED
    BY <1>5, <2>3, <2>4 DEF InitStage
<1>6. CASE k = 3
  <2>1. 3 + 1 = 4 /\ \h00 \in Nat /\ \h00 < 256
    OBVIOUS
  <2>2. Receive(ssd1306_command(\h00))
    <3>1. ssd1306_init[k + 1] = ssd1306_command(\h00)
      BY <1>6, <2>1, InitWrites
    <3> QED
      BY <3>1, Zenon
  <2>3. Holds(1, \hD3, 0) /\ setup[\hA8] = \h3F
    BY <1>6 DEF InitStage
  <2>4. ControllerTyped' /\ Len(pending') = 0 /\ setup' = [setup EXCEPT ![\hD3] = \h00]
    BY <1>1, <2>1, <2>2, <2>3, ArgumentReceived, SMTT(60)
  <2>5. setup'[\hA8] = \h3F
    BY <1>2, <2>3, <2>4
  <2> QED
    BY <1>6, <2>4, <2>5 DEF InitStage
<1>7. CASE k = 4
  <2>1. 4 + 1 = 5 /\ \h40 \in Nat /\ \h40 < 256
    OBVIOUS
  <2>2. Receive(ssd1306_command(\h40))
    <3>1. ssd1306_init[k + 1] = ssd1306_command(\h40)
      BY <1>7, <2>1, InitWrites
    <3> QED
      BY <3>1, Zenon
  <2>3. Len(pending) = 0 /\ setup[\hA8] = \h3F
    BY <1>7 DEF InitStage
  <2>4. ControllerTyped' /\ Len(pending') = 0 /\ setup' = [setup EXCEPT ![\h40] = 0]
    BY <1>1, <2>2, <2>3, CommandAlone
  <2>5. setup'[\hA8] = \h3F
    BY <1>2, <2>3, <2>4
  <2> QED
    BY <1>7, <2>4, <2>5 DEF InitStage
<1>8. CASE k = 5
  <2>1. 5 + 1 = 6 /\ \hA0 \in Nat /\ \hA0 < 256
    OBVIOUS
  <2>2. Receive(ssd1306_command(\hA0))
    <3>1. ssd1306_init[k + 1] = ssd1306_command(\hA0)
      BY <1>8, <2>1, InitWrites
    <3> QED
      BY <3>1, Zenon
  <2>3. Len(pending) = 0 /\ setup[\hA8] = \h3F
    BY <1>8 DEF InitStage
  <2>4. ControllerTyped' /\ Len(pending') = 0 /\ setup' = [setup EXCEPT ![\hA0] = 0]
    BY <1>1, <2>2, <2>3, CommandAlone
  <2>5. setup'[\hA8] = \h3F
    BY <1>2, <2>3, <2>4
  <2> QED
    BY <1>8, <2>4, <2>5 DEF InitStage
<1>9. CASE k = 6
  <2>1. 6 + 1 = 7 /\ \hC0 \in Nat /\ \hC0 < 256
    OBVIOUS
  <2>2. Receive(ssd1306_command(\hC0))
    <3>1. ssd1306_init[k + 1] = ssd1306_command(\hC0)
      BY <1>9, <2>1, InitWrites
    <3> QED
      BY <3>1, Zenon
  <2>3. Len(pending) = 0 /\ setup[\hA8] = \h3F
    BY <1>9 DEF InitStage
  <2>4. ControllerTyped' /\ Len(pending') = 0 /\ setup' = [setup EXCEPT ![\hC0] = 0]
    BY <1>1, <2>2, <2>3, CommandAlone
  <2>5. setup'[\hA8] = \h3F
    BY <1>2, <2>3, <2>4
  <2> QED
    BY <1>9, <2>4, <2>5 DEF InitStage
<1>10. CASE k = 7
  <2>1. 7 + 1 = 8 /\ \hDA \in Nat /\ \hDA < 256
    OBVIOUS
  <2>2. Receive(ssd1306_command(\hDA))
    <3>1. ssd1306_init[k + 1] = ssd1306_command(\hDA)
      BY <1>10, <2>1, InitWrites
    <3> QED
      BY <3>1, Zenon
  <2>3. Len(pending) = 0 /\ setup[\hA8] = \h3F
    BY <1>10 DEF InitStage
  <2>4. ControllerTyped' /\ Holds(1, \hDA, 0)' /\ UNCHANGED setup
    BY <1>1, <2>2, <2>3, CommandBegins
  <2> QED
    BY <1>10, <2>3, <2>4 DEF InitStage
<1>11. CASE k = 8
  <2>1. 8 + 1 = 9 /\ \h12 \in Nat /\ \h12 < 256
    OBVIOUS
  <2>2. Receive(ssd1306_command(\h12))
    <3>1. ssd1306_init[k + 1] = ssd1306_command(\h12)
      BY <1>11, <2>1, InitWrites
    <3> QED
      BY <3>1, Zenon
  <2>3. Holds(1, \hDA, 0) /\ setup[\hA8] = \h3F
    BY <1>11 DEF InitStage
  <2>4. ControllerTyped' /\ Len(pending') = 0 /\ setup' = [setup EXCEPT ![\hDA] = \h12]
    BY <1>1, <2>1, <2>2, <2>3, ArgumentReceived, SMTT(60)
  <2>5. setup'[\hA8] = \h3F
    BY <1>2, <2>3, <2>4
  <2> QED
    BY <1>11, <2>4, <2>5 DEF InitStage
<1>12. CASE k = 9
  <2>1. 9 + 1 = 10 /\ \h81 \in Nat /\ \h81 < 256
    OBVIOUS
  <2>2. Receive(ssd1306_command(\h81))
    <3>1. ssd1306_init[k + 1] = ssd1306_command(\h81)
      BY <1>12, <2>1, InitWrites
    <3> QED
      BY <3>1, Zenon
  <2>3. Len(pending) = 0 /\ setup[\hA8] = \h3F
    BY <1>12 DEF InitStage
  <2>4. ControllerTyped' /\ Holds(1, \h81, 0)' /\ UNCHANGED setup
    BY <1>1, <2>2, <2>3, CommandBegins
  <2> QED
    BY <1>12, <2>3, <2>4 DEF InitStage
<1>13. CASE k = 10
  <2>1. 10 + 1 = 11 /\ \h7F \in Nat /\ \h7F < 256
    OBVIOUS
  <2>2. Receive(ssd1306_command(\h7F))
    <3>1. ssd1306_init[k + 1] = ssd1306_command(\h7F)
      BY <1>13, <2>1, InitWrites
    <3> QED
      BY <3>1, Zenon
  <2>3. Holds(1, \h81, 0) /\ setup[\hA8] = \h3F
    BY <1>13 DEF InitStage
  <2>4. ControllerTyped' /\ Len(pending') = 0 /\ setup' = [setup EXCEPT ![\h81] = \h7F]
    BY <1>1, <2>1, <2>2, <2>3, ArgumentReceived
  <2>5. setup'[\hA8] = \h3F
    BY <1>2, <2>3, <2>4
  <2> QED
    BY <1>13, <2>4, <2>5 DEF InitStage
<1>14. CASE k = 11
  <2>1. 11 + 1 = 12 /\ \hA4 \in Nat /\ \hA4 < 256
    OBVIOUS
  <2>2. Receive(ssd1306_command(\hA4))
    <3>1. ssd1306_init[k + 1] = ssd1306_command(\hA4)
      BY <1>14, <2>1, InitWrites
    <3> QED
      BY <3>1, Zenon
  <2>3. Len(pending) = 0 /\ setup[\hA8] = \h3F
    BY <1>14 DEF InitStage
  <2>4. ControllerTyped' /\ Len(pending') = 0 /\ setup' = [setup EXCEPT ![\hA4] = 0]
    BY <1>1, <2>2, <2>3, CommandAlone
  <2>5. setup'[\hA8] = \h3F
    BY <1>2, <2>3, <2>4
  <2> QED
    BY <1>14, <2>4, <2>5 DEF InitStage
<1>15. CASE k = 12
  <2>1. 12 + 1 = 13 /\ \hA6 \in Nat /\ \hA6 < 256
    OBVIOUS
  <2>2. Receive(ssd1306_command(\hA6))
    <3>1. ssd1306_init[k + 1] = ssd1306_command(\hA6)
      BY <1>15, <2>1, InitWrites
    <3> QED
      BY <3>1, Zenon
  <2>3. Len(pending) = 0 /\ setup[\hA8] = \h3F
    BY <1>15 DEF InitStage
  <2>4. ControllerTyped' /\ Len(pending') = 0 /\ setup' = [setup EXCEPT ![\hA6] = 0]
    BY <1>1, <2>2, <2>3, CommandAlone
  <2>5. setup'[\hA8] = \h3F
    BY <1>2, <2>3, <2>4
  <2> QED
    BY <1>15, <2>4, <2>5 DEF InitStage
<1>16. CASE k = 13
  <2>1. 13 + 1 = 14 /\ \hD5 \in Nat /\ \hD5 < 256
    OBVIOUS
  <2>2. Receive(ssd1306_command(\hD5))
    <3>1. ssd1306_init[k + 1] = ssd1306_command(\hD5)
      BY <1>16, <2>1, InitWrites
    <3> QED
      BY <3>1, Zenon
  <2>3. Len(pending) = 0 /\ setup[\hA8] = \h3F
    BY <1>16 DEF InitStage
  <2>4. ControllerTyped' /\ Holds(1, \hD5, 0)' /\ UNCHANGED setup
    BY <1>1, <2>2, <2>3, CommandBegins
  <2> QED
    BY <1>16, <2>3, <2>4 DEF InitStage
<1>17. CASE k = 14
  <2>1. 14 + 1 = 15 /\ \h80 \in Nat /\ \h80 < 256
    OBVIOUS
  <2>2. Receive(ssd1306_command(\h80))
    <3>1. ssd1306_init[k + 1] = ssd1306_command(\h80)
      BY <1>17, <2>1, InitWrites
    <3> QED
      BY <3>1, Zenon
  <2>3. Holds(1, \hD5, 0) /\ setup[\hA8] = \h3F
    BY <1>17 DEF InitStage
  <2>4. ControllerTyped' /\ Len(pending') = 0 /\ setup' = [setup EXCEPT ![\hD5] = \h80]
    BY <1>1, <2>1, <2>2, <2>3, ArgumentReceived, SMTT(60)
  <2>5. setup'[\hA8] = \h3F
    BY <1>2, <2>3, <2>4
  <2> QED
    BY <1>17, <2>4, <2>5 DEF InitStage
<1>18. CASE k = 15
  <2>1. 15 + 1 = 16 /\ \h8D \in Nat /\ \h8D < 256
    OBVIOUS
  <2>2. Receive(ssd1306_command(\h8D))
    <3>1. ssd1306_init[k + 1] = ssd1306_command(\h8D)
      BY <1>18, <2>1, InitWrites
    <3> QED
      BY <3>1, Zenon
  <2>3. Len(pending) = 0 /\ setup[\hA8] = \h3F
    BY <1>18 DEF InitStage
  <2>4. ControllerTyped' /\ Holds(1, \h8D, 0)' /\ UNCHANGED setup
    BY <1>1, <2>2, <2>3, CommandBegins
  <2> QED
    BY <1>18, <2>3, <2>4 DEF InitStage
<1>19. CASE k = 16
  <2>1. 16 + 1 = 17 /\ \h14 \in Nat /\ \h14 < 256
    OBVIOUS
  <2>2. Receive(ssd1306_command(\h14))
    <3>1. ssd1306_init[k + 1] = ssd1306_command(\h14)
      BY <1>19, <2>1, InitWrites
    <3> QED
      BY <3>1, Zenon
  <2>3. Holds(1, \h8D, 0) /\ setup[\hA8] = \h3F
    BY <1>19 DEF InitStage
  <2>4. ControllerTyped' /\ Len(pending') = 0 /\ setup' = [setup EXCEPT ![\h8D] = \h14]
    BY <1>1, <2>1, <2>2, <2>3, ArgumentReceived, SMTT(60)
  <2>5. setup'[\hA8] = \h3F /\ setup'[\h8D] = \h14
    BY <1>2, <2>3, <2>4
  <2> QED
    BY <1>19, <2>4, <2>5 DEF InitStage
<1>20. CASE k = 17
  <2>1. 17 + 1 = 18 /\ \hAF \in Nat /\ \hAF < 256
    OBVIOUS
  <2>2. Receive(ssd1306_command(\hAF))
    <3>1. ssd1306_init[k + 1] = ssd1306_command(\hAF)
      BY <1>20, <2>1, InitWrites
    <3> QED
      BY <3>1, Zenon
  <2>3. Len(pending) = 0 /\ setup[\hA8] = \h3F /\ setup[\h8D] = \h14
    BY <1>20 DEF InitStage
  <2>4. ControllerTyped' /\ Len(pending') = 0 /\ setup' = [setup EXCEPT ![\hAF] = 0]
    BY <1>1, <2>2, <2>3, CommandAlone
  <2>5. setup'[\hA8] = \h3F /\ setup'[\h8D] = \h14 /\ setup'[\hAF] = 0
    BY <1>2, <2>3, <2>4
  <2> QED
    BY <1>20, <2>4, <2>5 DEF Prepared, SetUp
<1> QED
  BY <1>3, <1>4, <1>5, <1>6, <1>7, <1>8, <1>9, <1>10, <1>11, <1>12, <1>13, <1>14, <1>15, <1>16, <1>17, <1>18, <1>19, <1>20

-----------------------------------------------------------------------------
(* Where a drawing begins, ends and is cut short                           *)

\* While a write is left, there is something left.
LEMMA SomethingLeft ==
  ASSUME NEW a, Drawable(a), NEW k \in 0..8
  PROVE  /\ Left(WritesOf(a), k) # << >> /\ Len(Left(WritesOf(a), k)) \in 1..9
         /\ Left(WritesOf(Everything) \o WritesOf(a), k) # << >>
         /\ Len(Left(WritesOf(Everything) \o WritesOf(a), k)) \in 1..18
<1> DEFINE v == WritesOf(Everything)
           w == WritesOf(a)
           u == v \o w
           T == Bus({Everything.data, a.data})
<1>1. /\ v \in Seq(Bus({Everything.data})) /\ Len(v) = 9
      /\ w \in Seq(Bus({a.data})) /\ Len(w) = 9
  BY DrawableWrites, ClearsAll
<1>2. Bus({Everything.data}) \subseteq T /\ Bus({a.data}) \subseteq T
  BY DEF Bus
<1> HIDE DEF v, w, T
<1>3. v \in Seq(T) /\ w \in Seq(T)
  <2>1. v \in Seq(Bus({Everything.data})) /\ w \in Seq(Bus({a.data}))
    BY <1>1
  <2> QED
    BY <1>2, <2>1, SeqOfMore
<1>4. u \in Seq(T) /\ Len(u) = Len(v) + Len(w)
  <2>1. OneAfterOther(T, u, v, w)
    BY <1>3, TwoDrawings, Zenon
  <2> QED
    BY <2>1, Zenon DEF OneAfterOther
<1> HIDE DEF u
<1>5. k \in Nat /\ k < 9 /\ k < 9 + 9 /\ 9 - k \in 1..9 /\ (9 + 9) - k \in 1..18
  OBVIOUS
<1>6. k < Len(w) /\ k < Len(u) /\ Len(w) - k \in 1..9 /\ Len(u) - k \in 1..18
  BY <1>1, <1>4, <1>5, Zenon
<1>7. Left(w, k) # << >> /\ Len(Left(w, k)) = Len(w) - k
  BY <1>3, <1>5, <1>6, LeftStep
<1>8. Left(u, k) # << >> /\ Len(Left(u, k)) = Len(u) - k
  BY <1>4, <1>5, <1>6, LeftStep
<1> QED
  BY <1>6, <1>7, <1>8, Zenon DEF u, v, w

\* When nothing is left to write, the display shows what it was to show.
LEMMA NothingLeft ==
  ASSUME NEW t, NEW final, Underway(t, final), t = << >>
  PROVE  Settled /\ final = ram
  BY SomethingLeft, Zenon DEF Underway, Drawing

\* The length of what is left.
LEMMA LengthLeft ==
  ASSUME NEW t, NEW final
  PROVE  /\ Drawing(t, final) => Len(t) \in 0..9
         /\ Underway(t, final) => Len(t) \in 0..18
<1>1. Len(<< >>) \in 0..9 /\ 1..9 \subseteq 0..9 /\ 0..9 \subseteq 0..18 /\ 1..18 \subseteq 0..18
  OBVIOUS
<1>2. ASSUME Drawing(t, final) PROVE Len(t) \in 0..9
  <2>1. CASE t = << >>
    BY <1>1, <2>1, Zenon
  <2>2. ASSUME NEW a, NEW k \in 0..8, Drawable(a), t = Left(WritesOf(a), k) PROVE Len(t) \in 0..9
    <3>1. Len(Left(WritesOf(a), k)) \in 1..9
      BY <2>2, SomethingLeft
    <3> QED
      BY <1>1, <2>2, <3>1, Zenon
  <2> QED
    BY <1>2, <2>1, <2>2, Zenon DEF Drawing
<1>3. ASSUME Underway(t, final) PROVE Len(t) \in 0..18
  <2>1. CASE Drawing(t, final)
    BY <1>1, <1>2, <2>1, Zenon
  <2>2. ASSUME NEW a, NEW k \in 0..8, Drawable(a), t = Left(WritesOf(Everything) \o WritesOf(a), k)
        PROVE  Len(t) \in 0..18
    <3>1. Len(Left(WritesOf(Everything) \o WritesOf(a), k)) \in 1..18
      BY <2>2, SomethingLeft
    <3> QED
      BY <1>1, <2>2, <3>1, Zenon
  <2> QED
    BY <1>3, <2>1, <2>2, Zenon DEF Underway
<1> QED
  BY <1>2, <1>3

\* A program that is killed in the middle of a drawing leaves a command that
\* ssd1306_init recovers from.
LEMMA CutShort ==
  ASSUME NEW t, NEW final, Underway(t, final)
  PROVE  Leftover
<1>1. ASSUME NEW a, NEW k \in 0..8, Drawable(a), Stage(k, a) PROVE Leftover
  <2>1. a.x \in Nat /\ a.y \in Nat
    BY <1>1, AreaFits
  <2>2. setup[\hA8] = \h3F
    BY <1>1 DEF Stage, SetUp
  <2>3. CASE k \in {0, 2, 5, 8}
    <3>1. Len(pending) = 0
      BY <1>1, <2>3 DEF Stage
    <3> QED
      BY <3>1 DEF Leftover
  <2>4. CASE k \in {1, 3, 6}
    <3>1. Holds(1, \h20, 0) \/ Holds(1, \h21, 0) \/ Holds(1, \h22, 0)
      BY <1>1, <2>4 DEF Stage
    <3> QED
      BY <2>2, <3>1 DEF Leftover
  <2>5. CASE k \in {4, 7}
    <3>1. Holds(2, \h21, a.x) \/ Holds(2, \h22, a.y)
      BY <1>1, <2>5 DEF Stage
    <3> QED
      BY <2>1, <2>2, <3>1 DEF Leftover
  <2> QED
    BY <2>3, <2>4, <2>5
<1>2. ASSUME Settled PROVE Leftover
  BY <1>2 DEF Settled, Prepared, Leftover
<1> QED
  BY <1>1, <1>2, ClearsAll DEF Underway, Drawing

\* A drawing begins when the controller waits for a command.
LEMMA DrawingBegins ==
  ASSUME Prepared, ControllerTyped, NEW a, Drawable(a)
  PROVE  /\ Drawing(WritesOf(a), Overlay(ram, a))
         /\ Underway(clear_display \o WritesOf(a), Overlay(Dark, a))
<1>1. Stage(0, a) /\ Stage(0, Everything) /\ 0 \in 0..8
  BY StageStarts
<1>2. WritesOf(a) = Left(WritesOf(a), 0)
  <2> DEFINE u == WritesOf(a)
             T == Bus({a.data})
  <2>1. u \in Seq(T)
    BY DrawableWrites
  <2> HIDE DEF u, T
  <2>2. u = Left(u, 0)
    BY <2>1, LeftEnds
  <2> QED
    BY <2>2 DEF u
<1>3. WritesOf(Everything) \o WritesOf(a) = Left(WritesOf(Everything) \o WritesOf(a), 0)
  <2> DEFINE v == WritesOf(Everything)
             w == WritesOf(a)
             u == v \o w
             T == Bus({Everything.data, a.data})
  <2>1. v \in Seq(Bus({Everything.data})) /\ w \in Seq(Bus({a.data}))
    BY DrawableWrites, ClearsAll
  <2>2. Bus({Everything.data}) \subseteq T /\ Bus({a.data}) \subseteq T
    BY DEF Bus
  <2> HIDE DEF v, w, T
  <2>3. v \in Seq(T) /\ w \in Seq(T)
    BY <2>1, <2>2, SeqOfMore
  <2>4. u \in Seq(T)
    <3>1. OneAfterOther(T, u, v, w)
      BY <2>3, TwoDrawings, Zenon
    <3> QED
      BY <3>1, Zenon DEF OneAfterOther
  <2> HIDE DEF u
  <2>5. u = Left(u, 0)
    BY <2>4, LeftEnds
  <2> QED
    BY <2>5, Zenon DEF u, v, w
<1>4. Drawing(WritesOf(a), Overlay(ram, a))
  BY <1>1, <1>2, Zenon DEF Drawing
<1>5. Underway(clear_display \o WritesOf(a), Overlay(Dark, a))
  BY <1>1, <1>3, ClearIs, Zenon DEF Underway
<1> QED
  BY <1>4, <1>5

\* So does the clearing of the display.
LEMMA ClearingBegins ==
  ASSUME Prepared, ControllerTyped
  PROVE  Underway(clear_display, Dark)
<1>1. Drawing(WritesOf(Everything), Overlay(ram, Everything))
  BY ClearsAll, DrawingBegins
<1> QED
  BY <1>1, ClearsAll, ClearIs, Zenon DEF Underway

\* What does not touch the controller does not touch a drawing.
LEMMA DrawingKept ==
  ASSUME NEW t, NEW final, UNCHANGED controller
  PROVE  (Drawing(t, final) => Drawing(t, final)') /\ (Underway(t, final) => Underway(t, final)')
<1>1. /\ ram' = ram /\ pending' = pending /\ mode' = mode /\ window' = window /\ cursor' = cursor
      /\ setup' = setup
  BY DEF controller
<1>2. Settled' <=> Settled
  BY <1>1 DEF Settled, Prepared, SetUp
<1>3. ASSUME NEW a, NEW k PROVE Stage(k, a)' <=> Stage(k, a)
  BY <1>1 DEF Stage, Holds, SetUp
<1>4. Drawing(t, final) => Drawing(t, final)'
  BY <1>1, <1>2, <1>3 DEF Drawing
<1> QED
  BY <1>1, <1>3, <1>4 DEF Underway

-----------------------------------------------------------------------------
(* The digits of a score                                                   *)

\* The digits of a number of at most six digits, one after the other.
LEMMA DigitArithmetic ==
  ASSUME NEW n, Showable(n), NEW p \in 0..6, NEW q \in Nat, NEW r \in 0..9,
         q * 10 + r = n \div (10^p)
  PROVE  /\ DigitAt(n, p) = r
         /\ p < 6 => (q \div 10) * 10 + (q % 10) = n \div (10^(p + 1))
         /\ p = 6 => q = 0 /\ r = 0
<1>1. q \div 10 \in Nat /\ q % 10 \in 0..9 /\ (q \div 10) * 10 + (q % 10) = q
  OBVIOUS
<1> SUFFICES /\ (n \div (10^p)) % 10 = r
             /\ p < 6 => q = n \div (10^(p + 1))
             /\ p = 6 => q = 0 /\ r = 0
  BY <1>1 DEF DigitAt
<1>10. n \in Nat /\ n < 1000000
  BY DEF Showable
<1>2. (n \div (10^p)) % 10 = r
  <2> DEFINE m == n \div (10^p)
  <2>1. q * 10 + r = m
    OBVIOUS
  <2> HIDE DEF m
  <2>2. m % 10 = r
    BY <2>1
  <2> QED
    BY <2>2 DEF m
<1>3. CASE p = 0
  <2>1. n \div (10^0) = n /\ 10^(0 + 1) = 10
    BY <1>10
  <2>2. q * 10 + r = n
    BY <1>3, <2>1
  <2>3. q = n \div 10
    BY <1>10, <2>2
  <2> QED
    BY <1>2, <1>3, <2>1, <2>3
<1>4. CASE p = 1
  <2>1. 10^1 = 10 /\ 10^(1 + 1) = 100
    OBVIOUS
  <2>2. q * 10 + r = n \div 10
    BY <1>4, <2>1
  <2>3. q = n \div 100
    BY <1>10, <2>2
  <2> QED
    BY <1>2, <1>4, <2>1, <2>3
<1>5. CASE p = 2
  <2>1. 10^2 = 100 /\ 10^(2 + 1) = 1000
    OBVIOUS
  <2>2. q * 10 + r = n \div 100
    BY <1>5, <2>1
  <2>3. q = n \div 1000
    BY <1>10, <2>2
  <2> QED
    BY <1>2, <1>5, <2>1, <2>3
<1>6. CASE p = 3
  <2>1. 10^3 = 1000 /\ 10^(3 + 1) = 10000
    OBVIOUS
  <2>2. q * 10 + r = n \div 1000
    BY <1>6, <2>1
  <2>3. q = n \div 10000
    BY <1>10, <2>2
  <2> QED
    BY <1>2, <1>6, <2>1, <2>3
<1>7. CASE p = 4
  <2>1. 10^4 = 10000 /\ 10^(4 + 1) = 100000
    OBVIOUS
  <2>2. q * 10 + r = n \div 10000
    BY <1>7, <2>1
  <2>3. q = n \div 100000
    BY <1>10, <2>2
  <2> QED
    BY <1>2, <1>7, <2>1, <2>3
<1>8. CASE p = 5
  <2>1. 10^5 = 100000 /\ 10^(5 + 1) = 1000000
    OBVIOUS
  <2>2. q * 10 + r = n \div 100000
    BY <1>8, <2>1
  <2>3. q = n \div 1000000
    BY <1>10, <2>2
  <2> QED
    BY <1>2, <1>8, <2>1, <2>3
<1>9. CASE p = 6
  <2>1. 10^6 = 1000000
    OBVIOUS
  <2>2. q * 10 + r = n \div 1000000
    BY <1>9, <2>1
  <2>3. q = 0 /\ r = 0
    BY <1>10, <2>2
  <2> QED
    BY <1>2, <1>9, <2>3
<1> QED
  BY <1>3, <1>4, <1>5, <1>6, <1>7, <1>8, <1>9

\* A set of numbers with a bound has a greatest.
LEMMA GreatestMember ==
  ASSUME NEW S, NEW bound \in Nat, NEW z \in S, \A n \in S : n \in Nat /\ n <= bound
  PROVE  Max(S) \in S
<1> DEFINE R == {n \in Nat : n <= bound /\ (bound - n) \in S}
<1>1. bound - z \in R
  <2>1. z \in Nat /\ z <= bound /\ bound - z \in Nat /\ bound - z <= bound /\ bound - (bound - z) = z
    OBVIOUS
  <2> QED
    BY <2>1
<1>2. R \in SUBSET Nat /\ R # {}
  BY <1>1
<1>3. PICK m \in R : \A n \in R : m <= n
  <2> HIDE DEF R
  <2> QED
    BY <1>2, LeastMember
<1>4. bound - m \in S /\ m \in Nat
  BY <1>3
<1>5. ASSUME NEW n \in S PROVE bound - m >= n
  <2>1. n \in Nat /\ n <= bound
    OBVIOUS
  <2>2. bound - n \in Nat /\ bound - n <= bound /\ bound - (bound - n) = n
    BY <2>1
  <2>3. bound - n \in R
    BY <2>2
  <2>4. m <= bound - n
    BY <1>3, <2>3
  <2> QED
    BY <1>4, <2>1, <2>4
<1> QED
  BY <1>4, <1>5 DEF Max

\* The best score there is can be shown.
LEMMA BestShowable ==
  ASSUME \A n \in score_file : Showable(n)
  PROVE  Showable(Best)
<1> DEFINE S == score_file \cup {0}
<1>1. \A n \in S : Showable(n)
  BY DEF Showable
<1>2. 0 \in S /\ Best = Max(S)
  BY DEF Best
<1> HIDE DEF S
<1>3. \A n \in S : n \in Nat /\ n <= 999999
  BY <1>1 DEF Showable
<1>4. Max(S) \in S
  BY <1>2, <1>3, GreatestMember
<1> QED
  BY <1>1, <1>2, <1>4

-----------------------------------------------------------------------------
(* The locals of main                                                      *)

\* The locals stay within their bounds; scores that are saved can be shown.
LEMMA ProgramStep ==
  ASSUME ScoresFit, ProgramInv, DigitsInv, [Next]_vars
  PROVE  ProgramInv'
<1> USE DEF ProgramInv
<1>1. CASE UNCHANGED vars
  BY <1>1 DEF vars, mvars
<1>2. CASE main \/ initialize_title_animation \/ title_screen \/ ualarm \/ TitleKey \/ TopScoreKey
  BY <1>2 DEF main, initialize_title_animation, title_screen, ualarm, TitleKey,
     TopScoreKey, Ready
<1>3. CASE ShowDigit \/ show_top_score
  BY <1>3 DEF ShowDigit, show_top_score
<1>4. CASE DigitsShown
  <2>1. digits.then \in {"top", "drain", "game"}
    BY <1>4 DEF DigitsShown, DigitsInv, Ready
  <2> QED
    BY <1>4, <2>1 DEF DigitsShown
<1>5. CASE start \/ DrainKeys \/ GameKey
  BY <1>5, ScreenAssumption, SMTT(60) DEF start, DrainKeys, GameKey, show_game
<1>6. CASE GameClock
  <2>1. PICK g \in Pictures, gain \in {0} \cup Gains :
          /\ score + gain <= MaxScore /\ score' = score + gain
          /\ show_game(<< >>, g, score + gain, "game")
    BY <1>6 DEF GameClock
  <2>2. gain \in Nat /\ MaxScore \in Nat
    BY <2>1, ScreenAssumption
  <2>3. score' \in 0..MaxScore
    BY <2>1, <2>2
  <2>4. pc' = "digits" /\ UNCHANGED <<alarm, animated, kills, i, row, score_file>>
    BY <1>6, <2>1 DEF GameClock, show_game
  <2> QED
    BY <2>3, <2>4
<1>7. CASE GameOver
  <2>1. row' = 15 /\ pc' = "lines" /\ UNCHANGED <<alarm, animated, kills, i, score, score_file>>
    BY <1>7, ScreenAssumption DEF GameOver
  <2> QED
    BY <2>1
<1>13. CASE GameOverKey \/ exit \/ return
  BY <1>13 DEF GameOverKey, exit, return
<1>8. CASE DrawLine
  <2>1. Showable(score)
    BY ScreenAssumption DEF ScoresFit, Showable
  <2>2. \A n \in score_file' : Showable(n)
    BY <1>8, <2>1 DEF DrawLine
  <2>3. row' \in 0..15
    BY <1>8 DEF DrawLine
  <2>4. pc' \in {"lines", "over"} /\ UNCHANGED <<alarm, animated, kills, i, score>>
    BY <1>8 DEF DrawLine, Ready
  <2> QED
    BY <2>2, <2>3, <2>4
<1>9. CASE MainWrites \/ HandlerWrites
  BY <1>9 DEF MainWrites, HandlerWrites
<1>10. CASE title_handler
  <2>1. (i + 1) % TITLE_NUM_FRAME \in 0..TITLE_NUM_FRAME-1
    BY ScreenAssumption
  <2> QED
    BY <1>10, <2>1 DEF title_handler
<1>11. CASE Press \/ \E at \in coming : StoreKey(at)
  BY <1>11 DEF Press, StoreKey
<1>12. CASE Restart \/ Kill
  <2>1. /\ pc' = "main" /\ alarm' = FALSE /\ animated' = FALSE /\ i' = 0 /\ score' = 0 /\ row' = 0
        /\ score_file' = score_file
    BY <1>12 DEF Restart, Kill, NewProcess
  <2>4. alarm' \in BOOLEAN /\ animated' \in BOOLEAN
    BY <2>1
  <2>2. kills' \in 0..MaxKills
    BY <1>12, ScreenAssumption DEF Restart, Kill
  <2>3. 0 \in 0..TITLE_NUM_FRAME-1 /\ 0 \in 0..MaxScore
    BY ScreenAssumption
  <2>5. i' \in 0..TITLE_NUM_FRAME-1 /\ score' \in 0..MaxScore /\ row' \in 0..15
    BY <2>1, <2>3
  <2>6. \A n \in score_file' : Showable(n)
    BY <2>1
  <2> QED
    BY <2>1, <2>2, <2>4, <2>5, <2>6
<1> QED
  BY <1>1, <1>2, <1>3, <1>4, <1>5, <1>6, <1>7, <1>8, <1>9, <1>10, <1>11, <1>12, <1>13 DEF Next, Main

\* The digits of a number before the first is drawn.
LEMMA DigitsStart ==
  ASSUME NEW n \in Nat, NEW x, NEW y, NEW last, NEW then, digits' = DigitsOf(n, x, y, last, then)
  PROVE  /\ digits'.q \in Nat /\ digits'.r \in 0..9 /\ digits'.q * 10 + digits'.r = n \div (10^0)
         /\ digits'.x = x /\ digits'.y = y /\ digits'.last = last /\ digits'.then = then
         /\ digits' = [q |-> digits'.q, r |-> digits'.r, y |-> digits'.y, x |-> digits'.x,
                       last |-> digits'.last, then |-> digits'.then]
<1>1. n \div 10 \in Nat /\ n % 10 \in 0..9 /\ (n \div 10) * 10 + (n % 10) = n /\ n \div (10^0) = n
  OBVIOUS
<1>2. /\ digits'.q = n \div 10 /\ digits'.r = n % 10
      /\ digits'.x = x /\ digits'.y = y /\ digits'.last = last /\ digits'.then = then
      /\ digits' = [q |-> digits'.q, r |-> digits'.r, y |-> digits'.y, x |-> digits'.x,
                    last |-> digits'.last, then |-> digits'.then]
  BY DEF DigitsOf
<1> QED
  BY <1>1, <1>2

\* What one turn of the loop over the digits does to them.
LEMMA DigitsTurn ==
  ASSUME ShowDigit, DigitsInv, NEW n, Showable(n), NEW p \in 0..6, Remain(n, p), digits.y \in Nat
  PROVE  /\ p < 6 => Remain(n, p + 1)'
         /\ p = 6 => digits.q = 0 /\ digits.r = 0
         /\ DigitAt(n, p) = digits.r
         /\ digits'.y = digits.y + 1 /\ digits'.x = digits.x /\ digits'.last = digits.last
         /\ digits'.then = digits.then
         /\ digits' = [q |-> digits'.q, r |-> digits'.r, y |-> digits'.y, x |-> digits'.x,
                       last |-> digits'.last, then |-> digits'.then]
         /\ \/ (digits.q # 0 \/ digits.r # 0) /\ todo' = update_area(number(digits.r), digits.x, digits.y, 1, 1)
            \/ /\ digits.q = 0 /\ digits.r = 0 /\ digits.y <= digits.last
               /\ todo' = update_area(number(0), digits.x, digits.y, 1, 1)
<1> DEFINE q == digits.q
           r == digits.r
<1>1. q \in Nat /\ r \in 0..9 /\ q * 10 + r = n \div (10^p)
  BY DEF Remain
<1>2. digits = [q |-> q, r |-> r, y |-> digits.y, x |-> digits.x, last |-> digits.last, then |-> digits.then]
  BY DEF DigitsInv
<1>3. /\ DigitAt(n, p) = r
      /\ p < 6 => (q \div 10) * 10 + (q % 10) = n \div (10^(p + 1))
      /\ p = 6 => q = 0 /\ r = 0
  <2> HIDE DEF q, r
  <2> QED
    BY <1>1, DigitArithmetic, ZenonT(60)
<1>4. \/ /\ q # 0 \/ r # 0
         /\ digits' = [q |-> q \div 10, r |-> q % 10, y |-> digits.y + 1, x |-> digits.x,
                       last |-> digits.last, then |-> digits.then]
         /\ todo' = update_area(number(r), digits.x, digits.y, 1, 1)
      \/ /\ q = 0 /\ r = 0 /\ digits.y <= digits.last
         /\ digits' = [q |-> q, r |-> r, y |-> digits.y + 1, x |-> digits.x,
                       last |-> digits.last, then |-> digits.then]
         /\ todo' = update_area(number(0), digits.x, digits.y, 1, 1)
  BY <1>2 DEF ShowDigit
<1>5. q \div 10 \in Nat /\ q % 10 \in 0..9 /\ (q = 0 => q \div 10 = 0 /\ q % 10 = 0)
  <2> HIDE DEF q, r
  <2> QED
    BY <1>1
<1>6. digits'.q = q \div 10 /\ digits'.r = q % 10
  BY <1>4, <1>5
<1>7. p < 6 => Remain(n, p + 1)'
  BY <1>3, <1>5, <1>6 DEF Remain
<1>8. /\ digits'.y = digits.y + 1 /\ digits'.x = digits.x /\ digits'.last = digits.last
      /\ digits'.then = digits.then
      /\ digits' = [q |-> digits'.q, r |-> digits'.r, y |-> digits'.y, x |-> digits'.x,
                    last |-> digits'.last, then |-> digits'.then]
  BY <1>4
<1> QED
  BY <1>3, <1>4, <1>7, <1>8

\* The digits drawn so far and those that remain are those of the score.
LEMMA DigitsStep ==
  ASSUME ScoresFit, ProgramInv, DigitsInv, [Next]_vars
  PROVE  DigitsInv'
<1>1. ASSUME UNCHANGED <<pc, digits, score, score_file>> PROVE DigitsInv'
  BY <1>1 DEF DigitsInv, Remain, Best
<1>2. ASSUME pc' # "digits", digits' = NoDigits PROVE DigitsInv'
  <2>1. digits' = [q |-> digits'.q, r |-> digits'.r, y |-> digits'.y, x |-> digits'.x,
                   last |-> digits'.last, then |-> digits'.then]
    BY <1>2 DEF NoDigits
  <2> QED
    BY <1>2, <2>1 DEF DigitsInv
<1>3. pc # "digits" => digits = NoDigits
  BY DEF DigitsInv
<1>4. Showable(Best) /\ Showable(score) /\ Showable(0)
  BY BestShowable, ScreenAssumption DEF ProgramInv, ScoresFit, Showable
<1>5. CASE UNCHANGED vars \/ MainWrites \/ HandlerWrites \/ title_handler
  BY <1>1, <1>5 DEF vars, mvars, MainWrites, HandlerWrites, title_handler
<1>6. CASE Press \/ \E at \in coming : StoreKey(at)
  BY <1>1, <1>6 DEF Press, StoreKey
<1>7. CASE main \/ initialize_title_animation \/ title_screen \/ ualarm \/ TitleKey \/ TopScoreKey
  BY <1>2, <1>3, <1>7 DEF main, initialize_title_animation, title_screen, ualarm, TitleKey,
     TopScoreKey, Ready
<1>8. CASE DrainKeys \/ GameOver \/ DrawLine \/ GameOverKey \/ exit \/ return
  BY <1>2, <1>3, <1>8 DEF DrainKeys, GameOver, DrawLine, GameOverKey, exit, return, Ready
<1>9. CASE Restart \/ Kill
  BY <1>2, <1>9 DEF Restart, Kill, NewProcess
<1>10. CASE DigitsShown
  <2>1. digits.then \in {"top", "drain", "game"}
    BY <1>10 DEF DigitsShown, DigitsInv, Ready
  <2> QED
    BY <1>2, <1>10, <2>1 DEF DigitsShown
<1>11. CASE show_top_score
  <2>1. digits' = DigitsOf(Best, 9, 1, 6, "top") /\ pc' = "digits" /\ Best' = Best /\ Best \in Nat
    BY <1>4, <1>11 DEF show_top_score, Best, Showable
  <2>2. /\ digits'.q \in Nat /\ digits'.r \in 0..9 /\ digits'.q * 10 + digits'.r = Best \div (10^0)
        /\ digits'.x = 9 /\ digits'.y = 1 /\ digits'.last = 6 /\ digits'.then = "top"
        /\ digits' = [q |-> digits'.q, r |-> digits'.r, y |-> digits'.y, x |-> digits'.x,
                      last |-> digits'.last, then |-> digits'.then]
    BY <2>1, DigitsStart
  <2>3. digits'.y - 1 = 0
    BY <2>2
  <2>4. Remain(Best, digits.y - 1)'
    BY <2>1, <2>2, <2>3, Zenon DEF Remain
  <2> QED
    BY <2>1, <2>2, <2>4 DEF DigitsInv
<1>12. ASSUME NEW g, NEW u, NEW s, Showable(s), NEW then \in {"drain", "game"}, show_game(u, g, s, then),
              score' = s
       PROVE  DigitsInv'
  <2>1. digits' = DigitsOf(s, 0, 2, 7, then) /\ pc' = "digits" /\ s \in Nat
    BY <1>12 DEF show_game, Showable
  <2>2. /\ digits'.q \in Nat /\ digits'.r \in 0..9 /\ digits'.q * 10 + digits'.r = s \div (10^0)
        /\ digits'.x = 0 /\ digits'.y = 2 /\ digits'.last = 7 /\ digits'.then = then
        /\ digits' = [q |-> digits'.q, r |-> digits'.r, y |-> digits'.y, x |-> digits'.x,
                      last |-> digits'.last, then |-> digits'.then]
    BY <2>1, DigitsStart
  <2>3. digits'.y - 2 = 0
    BY <2>2
  <2>4. Remain(score, digits.y - 2)'
    BY <1>12, <2>2, <2>3, Zenon DEF Remain
  <2>5. digits'.then # "top" /\ digits'.then \in {"drain", "game"}
    BY <2>2
  <2> QED
    BY <2>1, <2>2, <2>4, <2>5 DEF DigitsInv
<1>13. CASE start
  BY <1>4, <1>12, <1>13 DEF start
<1>14. CASE GameKey
  BY <1>4, <1>12, <1>14 DEF GameKey
<1>15. CASE GameClock
  <2>1. PICK g \in Pictures, gain \in {0} \cup Gains :
          /\ score + gain <= MaxScore /\ score' = score + gain
          /\ show_game(<< >>, g, score + gain, "game")
    BY <1>15 DEF GameClock
  <2>2. Showable(score + gain)
    BY <2>1, ScreenAssumption DEF ScoresFit, Showable, ProgramInv
  <2> QED
    BY <1>12, <2>1, <2>2
<1>16. CASE ShowDigit
  <2>1. pc = "digits" /\ pc' = "digits" /\ Best' = Best /\ score' = score
    BY <1>16 DEF ShowDigit, Ready, Best
  <2>2. CASE digits.then = "top"
    <3>7. PICK n, p : n = Best /\ p = digits.y - 1
      OBVIOUS
    <3>1. digits.x = 9 /\ digits.last = 6 /\ digits.y \in 1..7 /\ Remain(n, p)
      BY <2>1, <2>2, <3>7 DEF DigitsInv
    <3>2. p \in 0..6 /\ digits.y \in Nat /\ digits.y = p + 1
      BY <3>1, <3>7
    <3>8. Showable(n)
      BY <1>4, <3>7
    <3>3. /\ p < 6 => Remain(n, p + 1)'
          /\ p = 6 => digits.q = 0 /\ digits.r = 0
          /\ digits'.y = digits.y + 1 /\ digits'.x = digits.x /\ digits'.last = digits.last
          /\ digits'.then = digits.then
          /\ digits' = [q |-> digits'.q, r |-> digits'.r, y |-> digits'.y, x |-> digits'.x,
                        last |-> digits'.last, then |-> digits'.then]
          /\ \/ digits.q # 0 \/ digits.r # 0
             \/ digits.q = 0 /\ digits.r = 0 /\ digits.y <= digits.last
      BY <1>16, <3>1, <3>2, <3>8, DigitsTurn
    <3>4. p < 6
      BY <3>1, <3>2, <3>3
    <3>5. digits'.y - 1 = p + 1 /\ digits'.y \in 1..7
      BY <3>2, <3>3, <3>4
    <3>6. Remain(Best, digits.y - 1)'
      BY <2>1, <3>3, <3>4, <3>5, <3>7 DEF Remain
    <3> QED
      BY <2>1, <2>2, <3>1, <3>3, <3>5, <3>6 DEF DigitsInv
  <2>3. CASE digits.then # "top"
    <3>7. PICK n, p : n = score /\ p = digits.y - 2
      OBVIOUS
    <3>1. /\ digits.x = 0 /\ digits.last = 7 /\ digits.y \in 2..8 /\ Remain(n, p)
          /\ digits.then \in {"drain", "game"}
      BY <2>1, <2>3, <3>7 DEF DigitsInv
    <3>2. p \in 0..6 /\ digits.y \in Nat /\ digits.y = p + 2
      BY <3>1, <3>7
    <3>8. Showable(n)
      BY <1>4, <3>7
    <3>3. /\ p < 6 => Remain(n, p + 1)'
          /\ p = 6 => digits.q = 0 /\ digits.r = 0
          /\ digits'.y = digits.y + 1 /\ digits'.x = digits.x /\ digits'.last = digits.last
          /\ digits'.then = digits.then
          /\ digits' = [q |-> digits'.q, r |-> digits'.r, y |-> digits'.y, x |-> digits'.x,
                        last |-> digits'.last, then |-> digits'.then]
          /\ \/ digits.q # 0 \/ digits.r # 0
             \/ digits.q = 0 /\ digits.r = 0 /\ digits.y <= digits.last
      BY <1>16, <3>1, <3>2, <3>8, DigitsTurn
    <3>4. p < 6
      BY <3>1, <3>2, <3>3
    <3>5. digits'.y - 2 = p + 1 /\ digits'.y \in 2..8
      BY <3>2, <3>3, <3>4
    <3>6. Remain(score, digits.y - 2)'
      BY <2>1, <3>3, <3>4, <3>5, <3>7 DEF Remain
    <3> QED
      BY <2>1, <2>3, <3>1, <3>3, <3>5, <3>6 DEF DigitsInv
  <2> QED
    BY <2>2, <2>3
<1> QED
  BY <1>5, <1>6, <1>7, <1>8, <1>9, <1>10, <1>11, <1>13, <1>14, <1>15, <1>16 DEF Next, Main

-----------------------------------------------------------------------------
(* What is on the display                                                  *)

\* A drawing of main is that of an area.
LEMMA AreaWritten ==
  ASSUME NEW p, NEW x, NEW y, NEW w, NEW h
  PROVE  update_area(p, x, y, w, h) = WritesOf(Area(p, x, y, w, h))
  BY DEF WritesOf, Area

\* What a picture that is not the empty one leaves on the display.
LEMMA OverlayAt ==
  ASSUME NEW shown, NEW p, p # clear, NEW x, NEW y, NEW w, NEW h, NEW d \in Dots
  PROVE  Overlay(shown, Area(p, x, y, w, h))[d] =
           IF d[1] \in x..(x + w - 1) /\ d[2] \in y..(y + h - 1) THEN At(p, d, x, y, w) ELSE shown[d]
<1> DEFINE a == Area(p, x, y, w, h)
<1>1. a.data = p /\ a.x = x /\ a.y = y /\ a.w = w /\ a.h = h
  BY DEF Area
<1> HIDE DEF a
<1>2. Overlay(shown, a)[d] = IF InArea(d, a) THEN Byte(a.data, (d[2] - a.y) * a.w + d[1] - a.x) ELSE shown[d]
  BY DEF Overlay
<1>3. Overlay(shown, a)[d] = IF d[1] \in x..(x + w - 1) /\ d[2] \in y..(y + h - 1)
                             THEN Byte(p, (d[2] - y) * w + d[1] - x) ELSE shown[d]
  BY <1>1, <1>2, Zenon DEF InArea
<1>4. Byte(p, (d[2] - y) * w + d[1] - x) = At(p, d, x, y, w)
  BY Zenon DEF Byte, At
<1> QED
  BY <1>3, <1>4, Zenon DEF a

\* No picture that is drawn over another is the empty one.
LEMMA NotClear ==
  /\ press_start # clear /\ best_score # clear /\ game_over # clear /\ line # clear
  /\ \A k : number(k) # clear /\ title(k) # clear /\ display_buffer(k) # clear
  BY DEF press_start, best_score, game_over, line, number, title, tetris, display_buffer, clear

\* The next drawing.
LEMMA DrawsNext ==
  ASSUME Prepared, ControllerTyped, UNCHANGED controller, NEW a, Drawable(a), NEW t, NEW final
  PROVE  /\ t = WritesOf(a) /\ final = Overlay(ram, a) => Drawing(t, final)' /\ Underway(t, final)'
         /\ t = clear_display \o WritesOf(a) /\ final = Overlay(Dark, a) => Underway(t, final)'
         /\ t = clear_display /\ final = Dark => Underway(t, final)'
<1>1. ASSUME t = WritesOf(a), final = Overlay(ram, a) PROVE Drawing(t, final)' /\ Underway(t, final)'
  <2>1. Drawing(t, final)
    BY <1>1, DrawingBegins
  <2>2. Underway(t, final)
    BY <2>1 DEF Underway
  <2> QED
    BY <2>1, <2>2, DrawingKept
<1>2. ASSUME t = clear_display \o WritesOf(a), final = Overlay(Dark, a) PROVE Underway(t, final)'
  <2>1. Underway(t, final)
    BY <1>2, DrawingBegins, Zenon
  <2> QED
    BY <2>1, DrawingKept
<1>3. ASSUME t = clear_display, final = Dark PROVE Underway(t, final)'
  <2>1. Underway(t, final)
    BY <1>3, ClearingBegins
  <2> QED
    BY <2>1, DrawingKept
<1> QED
  BY <1>1, <1>2, <1>3, Zenon

\* What ScreenInv asks of a step to one of the screens.
LEMMA ScreenReached ==
  ASSUME AlarmOnlyAtTitle', NEW t, NEW final, todo' = t, Underway(t, final)', Shows(final)',
         pc' \notin {"main", "init", "title_screen", "title"}, pc' = "done" => t = << >>
  PROVE  ScreenInv'
<1>1. Drawing(t, final)' => Drawing(todo, final)'
  BY DEF Drawing
<1>2. Underway(todo, final)'
  BY <1>1 DEF Underway
<1>3. (\E f : Shows(f) /\ Underway(todo, f))'
  BY <1>2
<1> QED
  BY <1>3 DEF ScreenInv

\* Between two drawings of main the display shows what it was to show.
LEMMA ScreenReady ==
  ASSUME ScreenInv, NEW at, Ready(at), at \notin {"main", "init", "title_screen"}
  PROVE  Settled /\ Prepared /\ Shows(ram)
<1>1. pc = at /\ todo = << >> /\ handler = << >>
  BY DEF Ready
<1>2. PICK final : Shows(final) /\ (Underway(todo, final) \/ Drawing(handler, final))
  BY <1>1 DEF ScreenInv
<1>3. Settled /\ final = ram
  <2>1. Underway(<< >>, final)
    BY <1>1, <1>2 DEF Underway
  <2> QED
    BY <2>1, NothingLeft
<1> QED
  BY <1>2, <1>3 DEF Settled

-----------------------------------------------------------------------------
(* Every step shows what it should                                         *)

\* Everything that holds at every step.
DisplayParts == ControllerTyped /\ ProgramInv /\ DigitsInv /\ KeysTyped /\ ScreenInv

\* While writes of ssd1306_init are left, there is something to do.
LEMMA NotYetInit ==
  ASSUME NEW k \in 0..17
  PROVE  Left(ssd1306_init, k) # << >>
<1>1. k \in Nat /\ k < 18
  OBVIOUS
<1>2. k < Len(ssd1306_init)
  BY <1>1, InitWrites, Zenon
<1> QED
  BY <1>1, <1>2, InitWrites, LeftStep, ZenonT(60)

\* The start of the program and the title.
LEMMA TitleSteps ==
  ASSUME DisplayParts, AlarmOnlyAtTitle', main \/ initialize_title_animation \/ title_screen \/ ualarm \/ TitleKey
  PROVE  ScreenInv'
<1>1. ControllerTyped /\ ScreenInv
  BY SMTT(60) DEF DisplayParts
<1>2. CASE main
  <2>1. Leftover /\ UNCHANGED controller /\ pc' = "init" /\ todo' = ssd1306_init
    BY <1>1, <1>2 DEF main, Ready, ScreenInv
  <2>2. InitStage(0)'
    <3>1. UNCHANGED <<pending, setup>>
      BY <2>1 DEF controller
    <3>2. Leftover'
      BY <2>1, <3>1 DEF Leftover, Holds
    <3> QED
      BY <3>2 DEF InitStage
  <2>3. ssd1306_init = Left(ssd1306_init, 0)
    BY InitWrites, LeftEnds
  <2>4. (\E k \in 0..17 : todo = Left(ssd1306_init, k) /\ InitStage(k))'
    <3>1. 0 \in 0..17
      OBVIOUS
    <3> QED
      BY <2>1, <2>2, <2>3, <3>1
  <2> QED
    BY <2>1, <2>4 DEF ScreenInv
<1>9. CASE initialize_title_animation
  <2>1. pc = "init" /\ todo = << >> /\ UNCHANGED <<controller, todo>> /\ pc' = "title_screen"
    BY <1>9 DEF initialize_title_animation, Ready
  <2>2. ASSUME NEW k \in 0..17, todo = Left(ssd1306_init, k) PROVE FALSE
    BY <2>1, <2>2, NotYetInit
  <2>3. Prepared
    BY <1>1, <2>1, <2>2 DEF ScreenInv
  <2>4. Prepared' /\ todo' = << >>
    BY <2>1, <2>3 DEF controller, Prepared, SetUp
  <2> QED
    BY <2>1, <2>4 DEF ScreenInv
<1>3. CASE title_screen
  <2>1. /\ pc = "title_screen" /\ todo = << >> /\ UNCHANGED controller /\ pc' = "ualarm"
        /\ todo' = update_area(press_start, 8, 0, 8, 8)
    BY <1>3 DEF title_screen, Ready
  <2>2. Prepared
    <3>2. ASSUME NEW final, Underway(todo, final) PROVE Prepared
      BY <2>1, <3>2, NothingLeft DEF Settled
    <3> QED
      BY <1>1, <2>1, <3>2 DEF ScreenInv
  <2>3. PICK a : a = Area(press_start, 8, 0, 8, 8)
    OBVIOUS
  <2>4. Drawable(a)
    BY <2>3 DEF Drawable, Area
  <2>5. PICK t, final : t = WritesOf(a) /\ final = Overlay(ram, a)
    OBVIOUS
  <2>6. Underway(t, final)' /\ todo' = t
    BY <1>1, <2>1, <2>2, <2>3, <2>4, <2>5, DrawsNext, AreaWritten
  <2>7. ASSUME NEW d \in Dots, d[1] >= 8 PROVE final[d] = At(press_start, d, 8, 0, 8)
    <3>1. d[1] \in Nat /\ d[1] < 16 /\ d[2] \in Nat /\ d[2] < 8
      BY DotIs
    <3>2. d[1] \in 8..(8 + 8 - 1) /\ d[2] \in 0..(0 + 8 - 1)
      BY <2>7, <3>1
    <3> QED
      BY <2>3, <2>5, <3>2, OverlayAt, NotClear
  <2>8. Shows(final)'
    BY <2>1, <2>7 DEF Shows
  <2> QED
    BY <2>1, <2>6, <2>8, ScreenReached
<1>4. CASE ualarm
  <2>1. /\ Ready("ualarm") /\ UNCHANGED controller /\ pc' = "title" /\ todo' = << >> /\ handler' = << >>
        /\ animated' = FALSE
    BY <1>4 DEF ualarm, Ready
  <2>2. Settled /\ Shows(ram)
    BY <1>1, <2>1, ScreenReady
  <2>3. PICK final : final = ram
    OBVIOUS
  <2>4. \A d \in Dots : d[1] >= 8 => final[d] = At(press_start, d, 8, 0, 8)
    BY <2>1, <2>2, <2>3 DEF Shows, Ready
  <2>5. Shows(final)'
    BY <2>1, <2>4 DEF Shows
  <2>6. Drawing(handler, final)'
    <3>1. Settled' /\ ram' = ram
      BY <2>1, <2>2 DEF controller, Settled, Prepared, SetUp
    <3> QED
      BY <2>1, <2>3, <3>1 DEF Drawing
  <2> QED
    BY <2>1, <2>5, <2>6 DEF ScreenInv
<1>5. CASE TitleKey
  <2>1. /\ Ready("title") /\ UNCHANGED controller /\ pc' \in {"start", "top_score", "exit"} /\ todo' = << >>
    BY <1>5 DEF TitleKey, Ready
  <2>2. Settled
    BY <1>1, <2>1, ScreenReady
  <2>3. PICK t, final : t = << >> /\ final = ram
    OBVIOUS
  <2>4. Underway(t, final)
    BY <2>2, <2>3 DEF Underway, Drawing
  <2>5. Underway(t, final)'
    BY <2>1, <2>4, DrawingKept
  <2>6. Shows(final)'
    BY <2>1 DEF Shows
  <2> QED
    BY <2>1, <2>3, <2>5, <2>6, ScreenReached
<1> QED
  BY <1>2, <1>3, <1>4, <1>5, <1>9

\* The steps between two drawings, and the way out.
LEMMA QuietSteps ==
  ASSUME DisplayParts, AlarmOnlyAtTitle',
         TopScoreKey \/ DrainKeys \/ GameOver \/ GameOverKey \/ exit \/ return \/ DigitsShown
  PROVE  ScreenInv'
<1>1. ControllerTyped /\ ScreenInv
  BY DEF DisplayParts
<1>2. ASSUME NEW at, Ready(at), at \notin {"main", "init", "title_screen"}, UNCHANGED <<controller, todo>>,
             pc' \notin {"main", "init", "title_screen", "title"}, NEW final, final = ram, Shows(final)'
      PROVE  ScreenInv'
  <2>1. Settled /\ todo' = << >>
    BY <1>1, <1>2, ScreenReady DEF Ready
  <2>2. Underway(<< >>, final)
    BY <1>2, <2>1 DEF Underway, Drawing
  <2>3. Underway(<< >>, final)'
    BY <1>2, <2>2, DrawingKept
  <2> QED
    BY <1>2, <2>1, <2>3, ScreenReached
<1>3. ASSUME NEW at, Ready(at), at \notin {"main", "init", "title_screen"}, UNCHANGED <<controller>>,
             todo' = clear_display, pc' \in {"return", "title_screen"}
      PROVE  ScreenInv'
  <2>1. Prepared
    BY <1>1, <1>3, ScreenReady
  <2>2. PICK t, final : t = clear_display /\ final = Dark
    OBVIOUS
  <2>3. Underway(t, final)'
    BY <1>1, <1>3, <2>1, <2>2, ClearsAll, DrawsNext
  <2>4. CASE pc' = "return"
    <3>1. Shows(final)'
      BY <2>2, <2>4 DEF Shows, Dark
    <3> QED
      BY <1>3, <2>2, <2>3, <2>4, <3>1, ScreenReached
  <2>5. CASE pc' = "title_screen"
    <3>1. Drawing(t, final)' => Drawing(todo, final)'
      BY <1>3, <2>2 DEF Drawing
    <3>2. Underway(todo, final)'
      BY <1>3, <2>2, <2>3, <3>1 DEF Underway
    <3>3. (\E f : Underway(todo, f))'
      BY <3>2
    <3> QED
      BY <2>5, <3>3 DEF ScreenInv
  <2> QED
    BY <1>3, <2>4, <2>5
<1>4. ASSUME NEW at, Ready(at), at \notin {"main", "init", "title_screen"}, UNCHANGED <<controller, todo>>,
             pc' = "title_screen"
      PROVE  ScreenInv'
  <2>1. Prepared /\ todo' = << >>
    BY <1>1, <1>4, ScreenReady DEF Ready
  <2>2. Prepared'
    BY <1>4, <2>1 DEF controller, Prepared, SetUp
  <2> QED
    BY <1>4, <2>1, <2>2 DEF ScreenInv
<1>5. PICK final : final = ram
  OBVIOUS
<1>6. CASE TopScoreKey
  BY <1>4, <1>6 DEF TopScoreKey
<1>7. CASE DrainKeys
  <2>1. Ready("drain") /\ pc' = "game" /\ UNCHANGED <<controller, todo, score, game>>
    BY <1>7 DEF DrainKeys
  <2>2. Shows(ram)
    BY <1>1, <2>1, ScreenReady
  <2>3. \A d \in Dots : final[d] = GameScreen(d)
    BY <1>5, <2>1, <2>2 DEF Shows, Ready
  <2>4. Shows(final)'
    BY <2>1, <2>3 DEF Shows, GameScreen, ScoreAt
  <2> QED
    BY <1>2, <1>5, <2>1, <2>4
<1>8. CASE GameOver
  <2>1. Ready("game") /\ pc' = "lines" /\ row' = 15 /\ UNCHANGED <<controller, todo, score, game>>
    BY <1>8, ScreenAssumption DEF GameOver
  <2>2. Shows(ram)
    BY <1>1, <2>1, ScreenReady
  <2>3. \A d \in Dots : final[d] = GameScreen(d)
    BY <1>5, <2>1, <2>2 DEF Shows, Ready
  <2>4. ASSUME NEW d \in Dots PROVE (d[1] = 0 => final[d] = ScoreAt(d)') /\ ~(d[1] > row')
    <3>1. d[1] \in Nat /\ d[1] < 16
      BY DotIs
    <3> QED
      BY <2>1, <2>3, <3>1 DEF GameScreen, ScoreAt
  <2>5. Shows(final)'
    BY <2>1, <2>4 DEF Shows
  <2> QED
    BY <1>2, <1>5, <2>1, <2>5
<1>9. CASE GameOverKey
  <2>1. /\ Ready("over") /\ UNCHANGED controller
        /\ \/ pc' = "start" /\ UNCHANGED todo
           \/ pc' = "title_screen" /\ todo' = clear_display
    BY <1>9 DEF GameOverKey
  <2>2. pc' = "start" => Shows(final)'
    BY DEF Shows
  <2> QED
    BY <1>2, <1>3, <1>5, <2>1, <2>2
<1>10. CASE exit
  BY <1>3, <1>10 DEF exit
<1>11. CASE return
  <2>1. Ready("return") /\ pc' = "done" /\ UNCHANGED <<controller, todo>>
    BY <1>11 DEF return
  <2>2. Shows(ram)
    BY <1>1, <2>1, ScreenReady
  <2>3. \A d \in Dots : final[d] = Blank
    BY <1>5, <2>1, <2>2 DEF Shows, Ready
  <2>4. Shows(final)'
    BY <2>1, <2>3 DEF Shows
  <2> QED
    BY <1>2, <1>5, <2>1, <2>4
<1>12. CASE DigitsShown
  <2>1. /\ Ready("digits") /\ digits.y > digits.last /\ pc' = digits.then
        /\ UNCHANGED <<controller, todo, score, score_file, game>>
    BY <1>12 DEF DigitsShown
  <2>2. Shows(ram)
    BY <1>1, <2>1, ScreenReady
  <2>3. CASE digits.then = "top"
    <3>1. digits.last = 6 /\ digits.y \in 1..7
      BY <2>1, <2>3 DEF DisplayParts, DigitsInv, Ready
    <3>2. digits.y = 7
      BY <2>1, <3>1
    <3>3. \A d \in Dots : final[d] = TopPart(d, 7)
      BY <1>5, <2>1, <2>2, <2>3, <3>2 DEF Shows, Ready
    <3>4. ASSUME NEW d \in Dots PROVE final[d] = TopScreen(d)
      <4>1. d[1] \in Nat /\ d[2] \in Nat
        BY DotIs
      <4>2. CASE d[1] = 9 /\ d[2] >= 7
        <5>1. ~(d[1] < 8) /\ ~(d[2] \in 1..6)
          BY <4>1, <4>2
        <5>2. TopScreen(d) = Blank
          BY <5>1 DEF TopScreen
        <5> QED
          BY <3>3, <4>2, <5>2 DEF TopPart
      <4>3. CASE ~(d[1] = 9 /\ d[2] >= 7)
        BY <3>3, <4>3 DEF TopPart
      <4> QED
        BY <4>2, <4>3
    <3>5. Shows(final)'
      BY <2>1, <2>3, <3>4 DEF Shows, TopScreen
    <3> QED
      BY <1>2, <1>5, <2>1, <2>3, <3>5
  <2>4. CASE digits.then # "top"
    <3>1. digits.last = 7 /\ digits.y \in 2..8 /\ digits.then \in {"drain", "game"}
      BY <2>1, <2>4 DEF DisplayParts, DigitsInv, Ready
    <3>2. digits.y = 8
      BY <2>1, <3>1
    <3>3. \A d \in Dots : d[1] # 0 \/ d[2] < 8 => final[d] = GameScreen(d)
      BY <1>5, <2>1, <2>2, <2>4, <3>2 DEF Shows, Ready
    <3>4. \A d \in Dots : final[d] = GameScreen(d)
      BY <3>3, DotIs
    <3>5. Shows(final)'
      BY <2>1, <3>1, <3>4 DEF Shows, GameScreen, ScoreAt
    <3> QED
      BY <1>2, <1>5, <2>1, <3>1, <3>5
  <2> QED
    BY <2>3, <2>4
<1> QED
  BY <1>6, <1>7, <1>8, <1>9, <1>10, <1>11, <1>12

\* A score on its way to the display.
LEMMA ShowDigitStep ==
  ASSUME DisplayParts, ScoresFit, AlarmOnlyAtTitle', ShowDigit
  PROVE  ScreenInv'
<1>1. ControllerTyped /\ ScreenInv /\ DigitsInv /\ ProgramInv
  BY DEF DisplayParts
<1>2. /\ Ready("digits") /\ UNCHANGED <<controller, score, score_file, game>> /\ pc' = "digits" /\ pc = "digits"
  BY DEF ShowDigit, Ready
<1>3. Prepared /\ Shows(ram)
  BY <1>1, <1>2, ScreenReady
<1>4. Showable(Best) /\ Showable(score)
  BY <1>1, BestShowable, ScreenAssumption DEF ProgramInv, ScoresFit, Showable
<1>5. PICK x, y, r : x = digits.x /\ y = digits.y /\ r = digits.r
  OBVIOUS
<1>6. PICK a : a = Area(number(r), x, y, 1, 1)
  OBVIOUS
<1>7. PICK t, final : t = WritesOf(a) /\ final = Overlay(ram, a)
  OBVIOUS
<1>8. CASE digits.then = "top"
  <2>1. PICK n, p : n = Best /\ p = digits.y - 1
    OBVIOUS
  <2>2. digits.x = 9 /\ digits.last = 6 /\ digits.y \in 1..7 /\ Remain(n, p)
    BY <1>1, <1>2, <1>8, <2>1 DEF DigitsInv
  <2>3. p \in 0..6 /\ digits.y \in Nat /\ digits.y = p + 1
    BY <2>1, <2>2
  <2>4. Showable(n)
    BY <1>4, <2>1
  <2>5. /\ p = 6 => digits.q = 0 /\ digits.r = 0
        /\ DigitAt(n, p) = digits.r
        /\ digits'.y = digits.y + 1 /\ digits'.then = digits.then
        /\ \/ (digits.q # 0 \/ digits.r # 0) /\ todo' = update_area(number(digits.r), digits.x, digits.y, 1, 1)
           \/ /\ digits.q = 0 /\ digits.r = 0 /\ digits.y <= digits.last
              /\ todo' = update_area(number(0), digits.x, digits.y, 1, 1)
    BY <1>1, <2>2, <2>3, <2>4, DigitsTurn
  <2>6. x = 9 /\ y \in 1..6
    BY <1>5, <2>2, <2>3, <2>5
  <2>7. todo' = t
    BY <1>5, <1>6, <1>7, <2>5, AreaWritten
  <2>8. Drawable(a)
    BY <1>6, <2>6 DEF Drawable, Area
  <2>9. Underway(t, final)'
    BY <1>1, <1>2, <1>3, <1>7, <2>8, DrawsNext
  <2>10. \A d \in Dots : ram[d] = TopPart(d, y)
    BY <1>2, <1>3, <1>5, <1>8 DEF Shows
  <2>11. ASSUME NEW d \in Dots PROVE final[d] = TopPart(d, y + 1)
    <3>1. d[1] \in Nat /\ d[2] \in Nat
      BY DotIs
    <3>2. final[d] = IF d[1] \in 9..(9 + 1 - 1) /\ d[2] \in y..(y + 1 - 1) THEN At(number(r), d, 9, y, 1) ELSE ram[d]
      BY <1>6, <1>7, <2>6, OverlayAt, NotClear
    <3>3. CASE d[1] = 9 /\ d[2] = y
      <4>1. d[1] \in 9..(9 + 1 - 1) /\ d[2] \in y..(y + 1 - 1) /\ ~(d[2] >= y + 1) /\ ~(d[1] < 8) /\ d[2] \in 1..6
        BY <2>6, <3>1, <3>3
      <4>2. final[d] = At(number(r), d, 9, d[2], 1)
        BY <3>2, <3>3, <4>1
      <4>3. TopScreen(d) = At(number(DigitAt(Max(score_file \cup {0}), d[2] - 1)), d, 9, d[2], 1)
        BY <3>3, <4>1 DEF TopScreen
      <4>4. DigitAt(Max(score_file \cup {0}), d[2] - 1) = r
        BY <1>5, <2>1, <2>5, <3>3 DEF Best
      <4> QED
        BY <4>1, <4>2, <4>3, <4>4 DEF TopPart
    <3>4. CASE ~(d[1] = 9 /\ d[2] = y)
      <4>1. ~(d[1] \in 9..(9 + 1 - 1) /\ d[2] \in y..(y + 1 - 1)) /\ (d[1] = 9 => (d[2] >= y + 1 <=> d[2] >= y))
        BY <2>6, <3>1, <3>4
      <4>2. final[d] = TopPart(d, y)
        BY <2>10, <3>2, <4>1
      <4> QED
        BY <4>1, <4>2 DEF TopPart
    <3> QED
      BY <3>3, <3>4
  <2>12. \A d \in Dots : TopPart(d, y + 1)' = TopPart(d, y + 1)
    BY <1>2 DEF TopPart, TopScreen
  <2>13. Shows(final)'
    BY <1>2, <1>5, <1>8, <2>5, <2>11, <2>12 DEF Shows
  <2> QED
    BY <1>2, <2>7, <2>9, <2>13, ScreenReached
<1>9. CASE digits.then # "top"
  <2>1. PICK n, p : n = score /\ p = digits.y - 2
    OBVIOUS
  <2>2. /\ digits.x = 0 /\ digits.last = 7 /\ digits.y \in 2..8 /\ Remain(n, p)
        /\ digits.then \in {"drain", "game"}
    BY <1>1, <1>2, <1>9, <2>1 DEF DigitsInv
  <2>3. p \in 0..6 /\ digits.y \in Nat /\ digits.y = p + 2
    BY <2>1, <2>2
  <2>4. Showable(n)
    BY <1>4, <2>1
  <2>5. /\ p = 6 => digits.q = 0 /\ digits.r = 0
        /\ DigitAt(n, p) = digits.r
        /\ digits'.y = digits.y + 1 /\ digits'.then = digits.then
        /\ \/ (digits.q # 0 \/ digits.r # 0) /\ todo' = update_area(number(digits.r), digits.x, digits.y, 1, 1)
           \/ /\ digits.q = 0 /\ digits.r = 0 /\ digits.y <= digits.last
              /\ todo' = update_area(number(0), digits.x, digits.y, 1, 1)
    BY <1>1, <2>2, <2>3, <2>4, DigitsTurn
  <2>6. x = 0 /\ y \in 2..7
    BY <1>5, <2>2, <2>3, <2>5
  <2>7. todo' = t
    BY <1>5, <1>6, <1>7, <2>5, AreaWritten
  <2>8. Drawable(a)
    BY <1>6, <2>6 DEF Drawable, Area
  <2>9. Underway(t, final)'
    BY <1>1, <1>2, <1>3, <1>7, <2>8, DrawsNext
  <2>10. \A d \in Dots : d[1] # 0 \/ d[2] < y => ram[d] = GameScreen(d)
    BY <1>2, <1>3, <1>5, <1>9 DEF Shows
  <2>11. ASSUME NEW d \in Dots, d[1] # 0 \/ d[2] < y + 1 PROVE final[d] = GameScreen(d)
    <3>1. d[1] \in Nat /\ d[2] \in Nat
      BY DotIs
    <3>2. final[d] = IF d[1] \in 0..(0 + 1 - 1) /\ d[2] \in y..(y + 1 - 1) THEN At(number(r), d, 0, y, 1) ELSE ram[d]
      BY <1>6, <1>7, <2>6, OverlayAt, NotClear
    <3>3. CASE d[1] = 0 /\ d[2] = y
      <4>1. d[1] \in 0..(0 + 1 - 1) /\ d[2] \in y..(y + 1 - 1) /\ ~(d[2] < 2)
        BY <2>6, <3>1, <3>3
      <4>2. final[d] = At(number(r), d, 0, d[2], 1)
        BY <3>2, <3>3, <4>1
      <4>3. GameScreen(d) = At(number(DigitAt(score, d[2] - 2)), d, 0, d[2], 1)
        BY <3>3, <4>1 DEF GameScreen, ScoreAt
      <4>4. DigitAt(score, d[2] - 2) = r
        BY <1>5, <2>1, <2>5, <3>3
      <4> QED
        BY <4>2, <4>3, <4>4
    <3>4. CASE ~(d[1] = 0 /\ d[2] = y)
      <4>1. ~(d[1] \in 0..(0 + 1 - 1) /\ d[2] \in y..(y + 1 - 1)) /\ (d[1] # 0 \/ d[2] < y)
        BY <2>6, <2>11, <3>1, <3>4
      <4> QED
        BY <2>10, <3>2, <4>1
    <3> QED
      BY <3>3, <3>4
  <2>12. \A d \in Dots : GameScreen(d)' = GameScreen(d)
    BY <1>2 DEF GameScreen, ScoreAt
  <2>13. Shows(final)'
    BY <1>2, <1>5, <1>9, <2>2, <2>5, <2>11, <2>12 DEF Shows
  <2> QED
    BY <1>2, <2>7, <2>9, <2>13, ScreenReached
<1> QED
  BY <1>8, <1>9

\* Nothing before a drawing.
LEMMA NothingBefore ==
  ASSUME NEW a, Drawable(a)
  PROVE  << >> \o WritesOf(a) = WritesOf(a)
<1>1. WritesOf(a) \in Seq(Bus({a.data}))
  BY DrawableWrites
<1> QED
  BY <1>1, ConcatEmptySeq, Zenon

\* The top score, the game and the sign at its end.
LEMMA DrawingSteps ==
  ASSUME DisplayParts, AlarmOnlyAtTitle', show_top_score \/ start \/ GameKey \/ GameClock \/ DrawLine
  PROVE  ScreenInv'
<1>1. ControllerTyped /\ ScreenInv /\ ProgramInv
  BY DEF DisplayParts
<1>2. \A d \in Dots : Dark[d] = Blank
  BY DEF Dark
<1>3. CASE show_top_score
  <2>1. /\ Ready("top_score") /\ UNCHANGED <<controller, score_file>> /\ pc' = "digits"
        /\ todo' = clear_display \o update_area(best_score, 0, 0, 8, 8)
        /\ digits'.y = 1 /\ digits'.then = "top"
    BY <1>3 DEF show_top_score, DigitsOf
  <2>2. Prepared
    BY <1>1, <2>1, ScreenReady
  <2>3. PICK a : a = Area(best_score, 0, 0, 8, 8)
    OBVIOUS
  <2>4. Drawable(a)
    BY <2>3 DEF Drawable, Area
  <2>5. PICK t, final : t = clear_display \o WritesOf(a) /\ final = Overlay(Dark, a)
    OBVIOUS
  <2>6. Underway(t, final)'
    BY <1>1, <2>1, <2>2, <2>4, <2>5, DrawsNext, Zenon
  <2>7. todo' = t
    BY <2>1, <2>3, <2>5, AreaWritten, Zenon
  <2>8. ASSUME NEW d \in Dots PROVE final[d] = TopPart(d, 1)
    <3>1. d[1] \in Nat /\ d[2] \in Nat /\ d[2] < 8
      BY DotIs
    <3>2. final[d] = IF d[1] \in 0..(0 + 8 - 1) /\ d[2] \in 0..(0 + 8 - 1) THEN At(best_score, d, 0, 0, 8) ELSE Dark[d]
      BY <2>3, <2>5, OverlayAt, NotClear, SMTT(60)
    <3>3. CASE d[1] < 8
      <4>1. d[1] \in 0..(0 + 8 - 1) /\ d[2] \in 0..(0 + 8 - 1) /\ d[1] # 9
        BY <3>1, <3>3
      <4>2. TopScreen(d) = At(best_score, d, 0, 0, 8)
        BY <3>3, <4>1 DEF TopScreen
      <4> QED
        BY <3>2, <4>1, <4>2 DEF TopPart
    <3>4. CASE ~(d[1] < 8)
      <4>1. ~(d[1] \in 0..(0 + 8 - 1))
        BY <3>1, <3>4
      <4>2. final[d] = Blank
        BY <1>2, <3>2, <4>1
      <4>3. CASE d[1] = 9 /\ d[2] >= 1
        BY <4>2, <4>3 DEF TopPart
      <4>4. CASE ~(d[1] = 9 /\ d[2] >= 1)
        <5>1. ~(d[1] = 9 /\ d[2] \in 1..6)
          BY <3>1, <4>4
        <5>2. TopScreen(d) = Blank
          BY <3>4, <5>1 DEF TopScreen
        <5> QED
          BY <4>2, <4>4, <5>2 DEF TopPart
      <4> QED
        BY <4>3, <4>4
    <3> QED
      BY <3>3, <3>4
  <2>9. \A d \in Dots : TopPart(d, 1)' = TopPart(d, 1)
    BY <2>1 DEF TopPart, TopScreen
  <2>10. Shows(final)'
    BY <2>1, <2>8, <2>9 DEF Shows
  <2> QED
    BY <2>1, <2>6, <2>7, <2>10, ScreenReached
<1>4. ASSUME NEW g, NEW s, NEW then \in {"drain", "game"}, NEW before, show_game(before, g, s, then),
             NEW shown, \A d \in Dots : d[1] = 0 /\ d[2] < 2 => shown[d] = Blank,
             \/ before = clear_display /\ shown = Dark
             \/ before = << >> /\ shown = ram,
             Prepared, UNCHANGED controller
      PROVE  ScreenInv'
  <2>1. /\ pc' = "digits" /\ digits'.y = 2 /\ digits'.then = then /\ game' = g
        /\ todo' = before \o update_area(display_buffer(g), 1, 0, 15, 8)
    BY <1>4 DEF show_game, DigitsOf
  <2>2. PICK a : a = Area(display_buffer(g), 1, 0, 15, 8)
    OBVIOUS
  <2>3. Drawable(a)
    BY <2>2 DEF Drawable, Area
  <2>4. PICK t, final : t = before \o WritesOf(a) /\ final = Overlay(shown, a)
    OBVIOUS
  <2>5. todo' = t
    BY <2>1, <2>2, <2>4, AreaWritten, Zenon
  <2>6. Underway(t, final)'
    <3>1. Prepared /\ ControllerTyped /\ UNCHANGED controller
      BY <1>1, <1>4
    <3>2. CASE before = clear_display /\ shown = Dark
      <4>1. t = clear_display \o WritesOf(a) /\ final = Overlay(Dark, a)
        BY <2>4, <3>2, Zenon
      <4> QED
        BY <2>3, <3>1, <4>1, DrawsNext
    <3>3. CASE before = << >> /\ shown = ram
      <4>1. t = WritesOf(a) /\ final = Overlay(ram, a)
        BY <2>3, <2>4, <3>3, NothingBefore, Zenon
      <4> QED
        BY <2>3, <3>1, <4>1, DrawsNext
    <3> QED
      BY <1>4, <3>2, <3>3
  <2>7. ASSUME NEW d \in Dots, d[1] # 0 \/ d[2] < 2 PROVE final[d] = GameScreen(d)'
    <3>1. d[1] \in Nat /\ d[1] < 16 /\ d[2] \in Nat /\ d[2] < 8
      BY DotIs
    <3>2. final[d] = IF d[1] \in 1..(1 + 15 - 1) /\ d[2] \in 0..(0 + 8 - 1)
                     THEN At(display_buffer(g), d, 1, 0, 15) ELSE shown[d]
      <4>1. PICK p : p = display_buffer(g)
        OBVIOUS
      <4>2. p # clear
        BY <4>1, NotClear, Zenon
      <4>3. final = Overlay(shown, Area(p, 1, 0, 15, 8))
        BY <2>2, <2>4, <4>1, Zenon
      <4>4. Overlay(shown, Area(p, 1, 0, 15, 8))[d] =
              IF d[1] \in 1..(1 + 15 - 1) /\ d[2] \in 0..(0 + 8 - 1) THEN At(p, d, 1, 0, 15) ELSE shown[d]
        BY <4>2, OverlayAt
      <4> QED
        BY <4>1, <4>3, <4>4, Zenon
    <3>3. CASE d[1] # 0
      <4>1. d[1] \in 1..(1 + 15 - 1) /\ d[2] \in 0..(0 + 8 - 1)
        BY <3>1, <3>3
      <4>2. final[d] = At(display_buffer(g), d, 1, 0, 15)
        BY <3>2, <4>1
      <4> QED
        BY <2>1, <3>3, <4>2 DEF GameScreen, At
    <3>4. CASE d[1] = 0
      <4>1. d[2] < 2 /\ ~(d[1] \in 1..(1 + 15 - 1))
        BY <2>7, <3>4
      <4>2. final[d] = Blank
        BY <1>4, <3>2, <3>4, <4>1
      <4> QED
        BY <3>4, <4>1, <4>2 DEF GameScreen, ScoreAt
    <3> QED
      BY <3>3, <3>4
  <2>8. Shows(final)'
    BY <1>4, <2>1, <2>7 DEF Shows
  <2> QED
    BY <2>1, <2>5, <2>6, <2>8, ScreenReached
<1>5. CASE start
  <2>1. Ready("start") /\ UNCHANGED controller /\ \E g \in Pictures : show_game(clear_display, g, 0, "drain")
    BY <1>5 DEF start
  <2>2. Prepared
    BY <1>1, <2>1, ScreenReady
  <2> QED
    BY <1>2, <1>4, <2>1, <2>2
<1>6. CASE GameKey \/ GameClock
  <2>1. Ready("game") /\ UNCHANGED controller /\ \E g, s : show_game(<< >>, g, s, "game")
    BY <1>6 DEF GameKey, GameClock
  <2>2. Prepared /\ Shows(ram)
    BY <1>1, <2>1, ScreenReady
  <2>3. \A d \in Dots : ram[d] = GameScreen(d)
    BY <2>1, <2>2 DEF Shows, Ready
  <2>4. \A d \in Dots : d[1] = 0 /\ d[2] < 2 => ram[d] = Blank
    BY <2>3 DEF GameScreen, ScoreAt
  <2>5. PICK shown : shown = ram
    OBVIOUS
  <2> QED
    BY <1>4, <2>1, <2>2, <2>4, <2>5
<1>7. CASE DrawLine
  <2>1. Ready("lines") /\ UNCHANGED <<controller, score>> /\ pc = "lines"
    BY <1>7 DEF DrawLine, Ready
  <2>2. Prepared /\ Shows(ram)
    BY <1>1, <2>1, ScreenReady
  <2>3. \A d \in Dots : /\ d[1] = 0 => ram[d] = ScoreAt(d)
                        /\ d[1] > row => ram[d] = At(line, d, d[1], 0, 1)
    BY <2>1, <2>2 DEF Shows
  <2>4. row \in 0..15
    BY <1>1 DEF ProgramInv
  <2>5. \A d \in Dots : ScoreAt(d)' = ScoreAt(d)
    BY <2>1 DEF ScoreAt
  <2>6. CASE row >= 1
    <3>1. todo' = update_area(line, row, 0, 1, 8) /\ row' = row - 1 /\ pc' = "lines"
      BY <1>7, <2>1, <2>6 DEF DrawLine
    <3>2. PICK x : x = row
      OBVIOUS
    <3>3. PICK a : a = Area(line, x, 0, 1, 8)
      OBVIOUS
    <3>4. Drawable(a)
      BY <2>4, <3>2, <3>3 DEF Drawable, Area
    <3>5. PICK t, final : t = WritesOf(a) /\ final = Overlay(ram, a)
      OBVIOUS
    <3>6. Underway(t, final)'
      BY <1>1, <2>1, <2>2, <3>4, <3>5, DrawsNext
    <3>7. todo' = t
      BY <3>1, <3>2, <3>3, <3>5, AreaWritten
    <3>8. ASSUME NEW d \in Dots
          PROVE  /\ d[1] = 0 => final[d] = ScoreAt(d)
                 /\ d[1] > row - 1 => final[d] = At(line, d, d[1], 0, 1)
      <4>1. d[1] \in Nat /\ d[2] \in Nat /\ d[2] < 8
        BY DotIs
      <4>2. final[d] = IF d[1] \in x..(x + 1 - 1) /\ d[2] \in 0..(0 + 8 - 1) THEN At(line, d, x, 0, 1) ELSE ram[d]
        BY <3>3, <3>5, OverlayAt, NotClear
      <4>3. CASE d[1] = row
        <5>1. d[1] \in x..(x + 1 - 1) /\ d[2] \in 0..(0 + 8 - 1) /\ d[1] # 0
          BY <2>4, <2>6, <3>2, <4>1, <4>3
        <5> QED
          BY <3>2, <4>2, <4>3, <5>1
      <4>4. CASE d[1] # row
        <5>1. ~(d[1] \in x..(x + 1 - 1)) /\ (d[1] > row - 1 => d[1] > row)
          BY <2>4, <3>2, <4>1, <4>4
        <5> QED
          BY <2>3, <4>2, <5>1
      <4> QED
        BY <4>3, <4>4
    <3>9. Shows(final)'
      BY <2>5, <3>1, <3>8 DEF Shows
    <3> QED
      BY <3>1, <3>6, <3>7, <3>9, ScreenReached
  <2>7. CASE row = 0
    <3>1. todo' = update_area(game_over, 4, 0, 8, 8) /\ pc' = "over"
      BY <1>7, <2>7 DEF DrawLine
    <3>2. PICK a : a = Area(game_over, 4, 0, 8, 8)
      OBVIOUS
    <3>3. Drawable(a)
      BY <3>2 DEF Drawable, Area
    <3>4. PICK t, final : t = WritesOf(a) /\ final = Overlay(ram, a)
      OBVIOUS
    <3>5. Underway(t, final)'
      BY <1>1, <2>1, <2>2, <3>3, <3>4, DrawsNext
    <3>6. todo' = t
      BY <3>1, <3>2, <3>4, AreaWritten
    <3>7. ASSUME NEW d \in Dots PROVE final[d] = OverScreen(d)
      <4>1. d[1] \in Nat /\ d[2] \in Nat /\ d[2] < 8
        BY DotIs
      <4>2. final[d] = IF d[1] \in 4..(4 + 8 - 1) /\ d[2] \in 0..(0 + 8 - 1) THEN At(game_over, d, 4, 0, 8) ELSE ram[d]
        BY <3>2, <3>4, OverlayAt, NotClear
      <4>3. CASE d[1] \in 4..11
        <5>1. d[1] \in 4..(4 + 8 - 1) /\ d[2] \in 0..(0 + 8 - 1) /\ d[1] # 0
          BY <4>1, <4>3
        <5>2. OverScreen(d) = At(game_over, d, 4, 0, 8)
          BY <4>3, <5>1 DEF OverScreen
        <5> QED
          BY <4>2, <5>1, <5>2
      <4>4. CASE d[1] = 0
        <5>1. ~(d[1] \in 4..(4 + 8 - 1)) /\ ~(d[1] \in 4..11)
          BY <4>4
        <5>2. OverScreen(d) = ScoreAt(d)
          BY <4>4, <5>1 DEF OverScreen
        <5> QED
          BY <2>3, <4>2, <4>4, <5>1, <5>2
      <4>5. CASE ~(d[1] \in 4..11) /\ d[1] # 0
        <5>1. ~(d[1] \in 4..(4 + 8 - 1)) /\ d[1] > 0
          BY <4>1, <4>5
        <5>2. OverScreen(d) = At(line, d, d[1], 0, 1)
          BY <4>5 DEF OverScreen
        <5> QED
          BY <2>3, <2>7, <4>2, <5>1, <5>2
      <4> QED
        BY <4>3, <4>4, <4>5
    <3>8. \A d \in Dots : OverScreen(d)' = OverScreen(d)
      BY <2>5 DEF OverScreen
    <3>9. Shows(final)'
      BY <3>1, <3>7, <3>8 DEF Shows
    <3> QED
      BY <3>1, <3>5, <3>6, <3>9, ScreenReached
  <2> QED
    BY <2>4, <2>6, <2>7
<1> QED
  BY <1>3, <1>5, <1>6, <1>7


\* What a screen shows stays as long as the locals of main do.
LEMMA ShowsKept ==
  ASSUME NEW final, Shows(final), UNCHANGED <<pc, digits, handler, i, score, score_file, game, row, animated>>
  PROVE  Shows(final)'
<1>1. \A d : /\ ScoreAt(d)' = ScoreAt(d) /\ TopScreen(d)' = TopScreen(d)
  BY DEF ScoreAt, TopScreen
<1>2. \A d : GameScreen(d)' = GameScreen(d) /\ OverScreen(d)' = OverScreen(d)
  BY <1>1 DEF GameScreen, OverScreen
<1>3. \A d : TopPart(d, digits.y)' = TopPart(d, digits.y)
  BY <1>1 DEF TopPart
<1> QED
  BY <1>1, <1>2, <1>3 DEF Shows

\* A write of main takes its drawing, or the setup, one step further.
LEMMA MainWritesStep ==
  ASSUME DisplayParts, AlarmOnlyAtTitle', MainWrites
  PROVE  ControllerTyped' /\ ScreenInv'
<1>1. ControllerTyped /\ ScreenInv
  BY DEF DisplayParts
<1>2. PICK t : t = todo
  OBVIOUS
<1>3. /\ t # << >> /\ Receive(Head(t)) /\ todo' = Tail(t)
      /\ UNCHANGED <<pc, digits, handler, i, score, score_file, game, row, animated>>
  BY <1>2 DEF MainWrites
<1>4. ASSUME NEW final, Underway(t, final) PROVE ControllerTyped' /\ Underway(Tail(t), final)'
  BY <1>1, <1>3, <1>4, UnderwayStep
<1>7. CASE pc = "init"
  <2>1. ASSUME NEW k \in 0..17, t = Left(ssd1306_init, k), InitStage(k) PROVE ControllerTyped' /\ ScreenInv'
    <3>1. k \in Nat /\ k < 18
      OBVIOUS
    <3>2. k < Len(ssd1306_init)
      BY <3>1, InitWrites, Zenon
    <3>3. Head(t) = ssd1306_init[k + 1] /\ Tail(t) = Left(ssd1306_init, k + 1)
      <4>1. PICK v, T : v = ssd1306_init /\ T = Bus({})
        OBVIOUS
      <4>2. v \in Seq(T) /\ k < Len(v) /\ t = Left(v, k)
        BY <2>1, <3>2, <4>1, InitWrites, Zenon
      <4>3. Head(Left(v, k)) = v[k + 1] /\ Tail(Left(v, k)) = Left(v, k + 1)
        BY <3>1, <4>2, LeftStep
      <4> QED
        BY <4>1, <4>2, <4>3, Zenon
    <3>4. /\ ControllerTyped'
          /\ k < 17 => InitStage(k + 1)'
          /\ k = 17 => Prepared'
      BY <1>1, <1>3, <2>1, <3>3, InitStep
    <3>5. CASE k < 17
      <4>1. PICK j \in 0..17 : j = k + 1
        BY <3>1, <3>5
      <4>2. (todo = Left(ssd1306_init, j) /\ InitStage(j))'
        BY <1>3, <3>3, <3>4, <3>5, <4>1
      <4> QED
        BY <1>3, <1>7, <3>4, <4>2 DEF ScreenInv
    <3>6. CASE k = 17
      <4>1. k + 1 = 18
        BY <3>6
      <4>2. k + 1 = Len(ssd1306_init)
        BY <4>1, InitWrites, Zenon
      <4>3. Tail(t) = << >>
        BY <3>3, <4>2, InitWrites, LeftEnds, Zenon
      <4> QED
        BY <1>3, <1>7, <3>4, <3>6, <4>3 DEF ScreenInv
    <3> QED
      BY <3>1, <3>5, <3>6
  <2> QED
    BY <1>1, <1>2, <1>3, <1>7, <2>1 DEF ScreenInv
<1>5. CASE pc = "title_screen"
  <2>2. ASSUME NEW final, Underway(t, final) PROVE ControllerTyped' /\ ScreenInv'
    <3>1. ControllerTyped' /\ Underway(Tail(t), final)'
      BY <1>4, <2>2
    <3>2. PICK u : u = Tail(t)
      OBVIOUS
    <3>3. Underway(u, final)' /\ todo' = u
      BY <1>3, <3>1, <3>2, Zenon
    <3>4. Underway(todo, final)'
      BY <3>3 DEF Underway, Drawing
    <3>5. (\E f : Underway(todo, f))'
      BY <3>4
    <3> QED
      BY <1>3, <1>5, <3>1, <3>5 DEF ScreenInv
  <2> QED
    BY <1>1, <1>2, <1>3, <1>5, <2>2 DEF ScreenInv
<1>6. CASE pc \notin {"init", "title_screen"}
  <2>1. pc \notin {"main", "init", "title_screen", "title"} /\ pc # "done"
    BY <1>1, <1>2, <1>3, <1>6 DEF ScreenInv
  <2>2. PICK final : Shows(final) /\ Underway(todo, final)
    BY <1>1, <2>1 DEF ScreenInv
  <2>3. Underway(t, final)
    BY <1>2, <2>2, Zenon
  <2>4. ControllerTyped' /\ Underway(Tail(t), final)'
    BY <1>4, <2>3
  <2>5. PICK u : u = Tail(t)
    OBVIOUS
  <2>6. Underway(u, final)' /\ todo' = u
    BY <1>3, <2>4, <2>5, Zenon
  <2>7. Shows(final)'
    BY <1>3, <2>2, ShowsKept
  <2> QED
    BY <1>3, <2>1, <2>4, <2>6, <2>7, ScreenReached
<1> QED
  BY <1>5, <1>6, <1>7

\* The number of the frame that was drawn last.
LEMMA FrameBefore ==
  ASSUME NEW j \in 0..TITLE_NUM_FRAME-1, i' = (j + 1) % TITLE_NUM_FRAME
  PROVE  (i' - 1) % TITLE_NUM_FRAME = j
<1> DEFINE N == TITLE_NUM_FRAME
<1>1. N \in Nat \ {0}
  BY ScreenAssumption
<1>2. CASE j + 1 < N
  <2>1. i' = j + 1
    BY <1>1, <1>2
  <2> QED
    BY <1>1, <1>2, <2>1
<1>3. CASE j + 1 = N
  <2>1. N % N = 0 /\ i' = 0
    BY <1>1, <1>3
  <2>2. (0 - 1) % N = N - 1
    BY <1>1
  <2> QED
    BY <1>1, <1>3, <2>1, <2>2
<1> QED
  BY <1>1, <1>2, <1>3

\* The handler begins to draw the next frame.
LEMMA HandlerBegins ==
  ASSUME DisplayParts, AlarmOnlyAtTitle', title_handler
  PROVE  ScreenInv'
<1>1. ControllerTyped /\ ScreenInv /\ ProgramInv
  BY DEF DisplayParts
<1>2. pc = "title" /\ todo = << >> /\ handler = << >>
  BY <1>1 DEF title_handler, ScreenInv, AlarmOnlyAtTitle
<1>3. Ready("title")
  BY <1>2 DEF Ready
<1>4. Prepared /\ Shows(ram)
  BY <1>1, <1>3, ScreenReady
<1>5. PICK j \in 0..TITLE_NUM_FRAME-1 : j = i
  BY <1>1 DEF ProgramInv
<1>6. PICK p : p = title(j)
  OBVIOUS
<1>7. PICK a : a = Area(p, 0, 0, 8, 8)
  OBVIOUS
<1>8. /\ UNCHANGED <<controller, pc, todo>> /\ i' = (j + 1) % TITLE_NUM_FRAME
      /\ handler' = WritesOf(a)
  BY <1>5, <1>6, <1>7, AreaWritten DEF title_handler
<1>9. Drawable(a)
  BY <1>7 DEF Drawable, Area
<1>10. PICK t, final : t = WritesOf(a) /\ final = Overlay(ram, a)
  OBVIOUS
<1>11. Drawing(t, final)' /\ handler' = t
  BY <1>1, <1>4, <1>8, <1>9, <1>10, DrawsNext
<1>12. ASSUME NEW d \in Dots
       PROVE  final[d] = IF d[1] < 8 THEN At(p, d, 0, 0, 8) ELSE At(press_start, d, 8, 0, 8)
  <2>1. d[1] \in Nat /\ d[2] \in Nat /\ d[2] < 8
    BY DotIs
  <2>2. p # clear
    BY <1>6, NotClear, Zenon
  <2>3. Overlay(ram, Area(p, 0, 0, 8, 8))[d] =
          IF d[1] \in 0..(0 + 8 - 1) /\ d[2] \in 0..(0 + 8 - 1) THEN At(p, d, 0, 0, 8) ELSE ram[d]
    BY <2>2, OverlayAt
  <2>4. final[d] = IF d[1] \in 0..(0 + 8 - 1) /\ d[2] \in 0..(0 + 8 - 1) THEN At(p, d, 0, 0, 8) ELSE ram[d]
    BY <1>7, <1>10, <2>3, Zenon
  <2>5. (d[1] \in 0..(0 + 8 - 1) /\ d[2] \in 0..(0 + 8 - 1)) <=> d[1] < 8
    BY <2>1
  <2>6. ~(d[1] < 8) => ram[d] = At(press_start, d, 8, 0, 8)
    <3>1. ~(d[1] < 8) => d[1] >= 8
      BY <2>1
    <3> QED
      BY <1>2, <1>4, <3>1 DEF Shows
  <2> QED
    BY <2>4, <2>5, <2>6, Zenon
<1>13. title((i - 1) % TITLE_NUM_FRAME)' = p
  BY <1>6, <1>8, FrameBefore DEF title, tetris
<1>14. Shows(final)'
  <2>1. ASSUME NEW d \in Dots PROVE d[1] >= 8 => ~(d[1] < 8)
    BY DotIs
  <2>2. \A d \in Dots : d[1] >= 8 => final[d] = At(press_start, d, 8, 0, 8)
    BY <1>12, <2>1, Zenon
  <2>3. (\A d \in Dots : d[1] < 8 => final[d] = At(title((i - 1) % TITLE_NUM_FRAME), d, 0, 0, 8))'
    BY <1>12, <1>13
  <2> QED
    BY <1>2, <1>8, <2>2, <2>3 DEF Shows
<1>15. Drawing(handler, final)'
  BY <1>11 DEF Drawing
<1> QED
  BY <1>2, <1>8, <1>14, <1>15 DEF ScreenInv

\* A write of the handler takes the frame one step further.
LEMMA HandlerWritesStep ==
  ASSUME DisplayParts, AlarmOnlyAtTitle', HandlerWrites
  PROVE  ControllerTyped' /\ ScreenInv'
<1>1. ControllerTyped /\ ScreenInv
  BY DEF DisplayParts
<1>2. PICK t, u : t = handler /\ u = Tail(handler)
  OBVIOUS
<1>3. /\ t # << >> /\ Receive(Head(t)) /\ u = Tail(t) /\ handler' = u
      /\ UNCHANGED <<pc, todo, i>>
  BY <1>2 DEF HandlerWrites
<1>4. pc = "title" /\ todo = << >>
  BY <1>1, <1>2, <1>3 DEF ScreenInv, AlarmOnlyAtTitle
<1>5. PICK final : Shows(final) /\ Drawing(handler, final)
  BY <1>1, <1>4 DEF ScreenInv
<1>6. Drawing(t, final)
  BY <1>2, <1>5, Zenon
<1>7. ControllerTyped' /\ Drawing(Tail(t), final)'
  BY <1>1, <1>3, <1>6, DrawingStep
<1>8. Drawing(u, final)'
  BY <1>3, <1>7, Zenon
<1>9. Drawing(handler, final)'
  BY <1>3, <1>8 DEF Drawing
<1>10. Shows(final)'
  BY <1>2, <1>3, <1>4, <1>5 DEF Shows
<1> QED
  BY <1>3, <1>4, <1>7, <1>9, <1>10 DEF ScreenInv


\* A step that leaves main where it is and the display alone.
LEMMA NothingDrawn ==
  ASSUME ScreenInv, AlarmOnlyAtTitle', UNCHANGED controller,
         UNCHANGED <<pc, todo, digits, handler, i, score, score_file, game, row, animated>>
  PROVE  ScreenInv'
<1>1. UNCHANGED <<pending, setup>>
  BY DEF controller
<1>2. (Leftover <=> Leftover') /\ (Prepared <=> Prepared')
  BY <1>1 DEF Leftover, Prepared, SetUp, Holds
<1>3. ASSUME NEW k PROVE InitStage(k) <=> InitStage(k)'
  BY <1>1, <1>2 DEF InitStage, Holds
<1>4. PICK t, h : t = todo /\ h = handler
  OBVIOUS
<1>5. ASSUME NEW final, Underway(todo, final) PROVE Underway(todo, final)'
  <2>1. Underway(t, final)
    BY <1>4, <1>5, Zenon
  <2>2. Underway(t, final)'
    BY <2>1, DrawingKept
  <2> QED
    BY <1>4, <2>2 DEF Underway, Drawing
<1>6. ASSUME NEW final, Drawing(handler, final) PROVE Drawing(handler, final)'
  <2>1. Drawing(h, final)
    BY <1>4, <1>6, Zenon
  <2>2. Drawing(h, final)'
    BY <2>1, DrawingKept
  <2> QED
    BY <1>4, <2>2 DEF Drawing
<1>7. CASE pc = "main"
  BY <1>2, <1>7 DEF ScreenInv
<1>11. CASE pc = "init"
  <2>1. ASSUME NEW k \in 0..17, todo = Left(ssd1306_init, k), InitStage(k)
        PROVE  (\E j \in 0..17 : todo = Left(ssd1306_init, j) /\ InitStage(j))'
    BY <1>3, <2>1
  <2> QED
    BY <1>2, <1>11, <2>1 DEF ScreenInv
<1>8. CASE pc = "title_screen"
  <2>2. ASSUME NEW final, Underway(todo, final) PROVE (\E f : Underway(todo, f))'
    BY <1>5, <2>2
  <2> QED
    BY <1>2, <1>8, <2>2 DEF ScreenInv
<1>9. CASE pc = "title"
  <2>1. PICK final : Shows(final) /\ Drawing(handler, final)
    BY <1>9 DEF ScreenInv
  <2>2. Shows(final)' /\ Drawing(handler, final)'
    BY <1>6, <2>1, ShowsKept
  <2> QED
    BY <1>9, <2>2 DEF ScreenInv
<1>10. CASE pc \notin {"main", "init", "title_screen", "title"}
  <2>1. PICK final : Shows(final) /\ Underway(todo, final)
    BY <1>10 DEF ScreenInv
  <2>2. Shows(final)' /\ Underway(todo, final)'
    BY <1>5, <2>1, ShowsKept
  <2>3. pc' = "done" => todo' = << >>
    BY DEF ScreenInv
  <2> QED
    BY <1>10, <2>2, <2>3 DEF ScreenInv
<1> QED
  BY <1>7, <1>8, <1>9, <1>10, <1>11

\* A new process finds a controller that ssd1306_init can set up.
LEMMA ProcessStarts ==
  ASSUME ScreenInv, AlarmOnlyAtTitle', Restart \/ Kill
  PROVE  ScreenInv'
<1>1. pc' = "main" /\ todo' = << >> /\ UNCHANGED controller
  BY DEF Restart, Kill, NewProcess
<1>2. pc # "main" /\ (pc = "init" => todo = << >>)
  BY DEF Restart, Kill
<1>3. Leftover
  <2>1. CASE pc \in {"init", "title_screen"}
    <3>1. pc = "init" => \A k \in 0..17 : todo # Left(ssd1306_init, k)
      BY <1>2, NotYetInit
    <3>2. Prepared => Leftover
      BY DEF Prepared, Leftover
    <3> QED
      BY <2>1, <3>1, <3>2, CutShort DEF ScreenInv
  <2>2. CASE pc = "title"
    <3>1. PICK final : Drawing(handler, final)
      BY <2>2 DEF ScreenInv
    <3>2. Underway(handler, final)
      BY <3>1 DEF Underway
    <3> QED
      BY <3>2, CutShort
  <2>3. CASE pc \notin {"main", "init", "title_screen", "title"}
    BY <2>3, CutShort DEF ScreenInv
  <2> QED
    BY <1>2, <2>1, <2>2, <2>3
<1>4. Leftover'
  BY <1>1, <1>3 DEF controller, Leftover, Holds
<1> QED
  BY <1>1, <1>4 DEF ScreenInv

\* Every step keeps the controller and the display as they should be.
LEMMA DisplayStep ==
  ASSUME ScoresFit, DisplayParts, [Next]_vars
  PROVE  DisplayParts'
<1>1. ControllerTyped /\ ProgramInv /\ DigitsInv /\ KeysTyped /\ ScreenInv /\ AlarmOnlyAtTitle
  BY DEF DisplayParts, ScreenInv
<1>2. ProgramInv' /\ DigitsInv' /\ KeysTyped' /\ AlarmOnlyAtTitle'
  BY <1>1, ProgramStep, DigitsStep, KeysTypedStep, AlarmStep
<1>3. UNCHANGED controller => ControllerTyped'
  BY <1>1 DEF controller, ControllerTyped, Column, Page
<1>4. CASE UNCHANGED vars \/ Press \/ \E at \in coming : StoreKey(at)
  <2>1. /\ UNCHANGED controller
        /\ UNCHANGED <<pc, todo, digits, handler, i, score, score_file, game, row, animated>>
    BY <1>4 DEF vars, mvars, Press, StoreKey
  <2> QED
    BY <1>1, <1>2, <1>3, <2>1, NothingDrawn DEF DisplayParts
<1>5. CASE main \/ initialize_title_animation \/ title_screen \/ ualarm \/ TitleKey
  <2>1. UNCHANGED controller
    BY <1>5 DEF main, initialize_title_animation, title_screen, ualarm, TitleKey
  <2> QED
    BY <1>2, <1>3, <1>5, <2>1, TitleSteps DEF DisplayParts
<1>6. CASE TopScoreKey \/ DrainKeys \/ GameOver \/ GameOverKey \/ exit \/ return \/ DigitsShown
  <2>1. UNCHANGED controller
    BY <1>6 DEF TopScoreKey, DrainKeys, GameOver, GameOverKey, exit, return, DigitsShown
  <2> QED
    BY <1>2, <1>3, <1>6, <2>1, QuietSteps DEF DisplayParts
<1>7. CASE ShowDigit
  <2>1. UNCHANGED controller
    BY <1>7 DEF ShowDigit
  <2> QED
    BY <1>2, <1>3, <1>7, <2>1, ShowDigitStep DEF DisplayParts
<1>8. CASE show_top_score \/ start \/ GameKey \/ GameClock \/ DrawLine
  <2>1. UNCHANGED controller
    BY <1>8 DEF show_top_score, start, GameKey, GameClock, DrawLine
  <2> QED
    BY <1>2, <1>3, <1>8, <2>1, DrawingSteps DEF DisplayParts
<1>9. CASE MainWrites
  BY <1>2, <1>9, MainWritesStep DEF DisplayParts
<1>10. CASE title_handler
  <2>1. UNCHANGED controller
    BY <1>10 DEF title_handler
  <2> QED
    BY <1>2, <1>3, <1>10, <2>1, HandlerBegins DEF DisplayParts
<1>11. CASE HandlerWrites
  BY <1>2, <1>11, HandlerWritesStep DEF DisplayParts
<1>12. CASE Restart \/ Kill
  <2>1. UNCHANGED controller
    BY <1>12 DEF Restart, Kill, NewProcess
  <2> QED
    BY <1>1, <1>2, <1>3, <1>12, <2>1, ProcessStarts DEF DisplayParts
<1> QED
  BY <1>4, <1>5, <1>6, <1>7, <1>8, <1>9, <1>10, <1>11, <1>12 DEF Next, Main

\* They are as they should be when the program is started for the first time.
LEMMA DisplayStarts ==
  ASSUME ScoresFit, Init
  PROVE  DisplayParts
<1>1. PowerOn /\ pc = "main" /\ todo = << >> /\ digits = NoDigits /\ handler = << >> /\ alarm = FALSE
  BY DEF Init
<1>2. ControllerTyped
  <2>1. FIELD_WIDTH - 1 = 15 /\ FIELD_HEIGHT - 1 = 7
    BY ScreenAssumption
  <2>2. DOMAIN ram = Dots /\ mode \in 0..3 /\ pending \in Seq(Nat) /\ Len(pending) <= 2
    BY <1>1 DEF PowerOn
  <2>3. window = <<0, 15, 0, 7>> /\ cursor = <<0, 0>>
    BY <1>1, <2>1 DEF PowerOn
  <2>4. /\ Column(window[1]) /\ Column(window[2]) /\ Column(cursor[1])
        /\ Page(window[3]) /\ Page(window[4]) /\ Page(cursor[2])
    BY <2>3 DEF Column, Page
  <2>5. window = <<window[1], window[2], window[3], window[4]>> /\ cursor = <<cursor[1], cursor[2]>>
    BY <2>3
  <2>6. setup \in [SetupCommands -> Int]
    <3>1. setup = [op \in SetupCommands |-> Unset] /\ Unset \in Int
      BY <1>1 DEF PowerOn, SetupCommands, Unset
    <3> QED
      BY <3>1
  <2> QED
    BY <2>2, <2>4, <2>5, <2>6 DEF ControllerTyped
<1>3. ProgramInv
  <2>1. i = 0 /\ row = 0 /\ score = 0 /\ kills = 0 /\ animated = FALSE /\ score_file \in Saved
    BY DEF Init
  <2>2. 0 \in 0..TITLE_NUM_FRAME-1 /\ 0 \in 0..15 /\ 0 \in 0..MaxScore /\ 0 \in 0..MaxKills
    BY ScreenAssumption
  <2>3. \A n \in score_file : Showable(n)
    BY <2>1 DEF ScoresFit
  <2> QED
    BY <1>1, <2>1, <2>2, <2>3, Zenon DEF ProgramInv
<1>4. DigitsInv
  BY <1>1 DEF DigitsInv, NoDigits
<1>5. ScreenInv
  <2>1. Leftover
    BY <1>1 DEF PowerOn, Leftover
  <2> QED
    BY <1>1, <2>1 DEF ScreenInv, AlarmOnlyAtTitle
<1>6. KeysTyped
  BY DEF Init, KeysTyped
<1> QED
  BY <1>2, <1>3, <1>4, <1>5, <1>6 DEF DisplayParts


-----------------------------------------------------------------------------
(* What follows                                                            *)

\* The controller, the locals of main and what is left to write have their
\* types.
LEMMA DisplayTyped ==
  ASSUME DisplayParts
  PROVE  ScreenTypeOK
<1>1. ControllerTyped /\ ProgramInv /\ DigitsInv /\ KeysTyped /\ ScreenInv
  BY DEF DisplayParts
<1>2. DOMAIN ram = Dots /\ Len(pending) \in 0..2 /\ mode \in 0..3
  <2>1. pending \in Seq(Nat) /\ Len(pending) <= 2
    BY <1>1 DEF ControllerTyped
  <2>2. Len(pending) \in 0..2
    <3>1. Len(pending) \in Nat
      BY <2>1, LenZero
    <3>2. PICK n : n = Len(pending)
      OBVIOUS
    <3>3. n \in Nat /\ n <= 2
      BY <2>1, <3>1, <3>2, Zenon
    <3>4. n \in 0..2
      BY <3>3
    <3> QED
      BY <3>2, <3>4, Zenon
  <2> QED
    BY <1>1, <2>2 DEF ControllerTyped
<1>3. window \in Seq(0..127) /\ Len(window) = 4 /\ cursor \in (0..127) \X (0..7)
  <2> DEFINE C == 0..127
             P == 0..7
  <2>1. \A n : (Column(n) => n \in C) /\ (Page(n) => n \in P /\ n \in C)
    BY DEF Column, Page
  <2> HIDE DEF C, P
  <2>2. window[1] \in C /\ window[2] \in C /\ window[3] \in C /\ window[4] \in C /\ cursor[1] \in C /\ cursor[2] \in P
    BY <1>1, <2>1 DEF ControllerTyped
  <2>3. window = <<window[1], window[2], window[3], window[4]>> /\ cursor = <<cursor[1], cursor[2]>>
    BY <1>1 DEF ControllerTyped
  <2>4. \A a, b, c, d \in C : <<a, b, c, d>> \in Seq(C) /\ Len(<<a, b, c, d>>) = 4
    OBVIOUS
  <2>5. window \in Seq(C) /\ Len(window) = 4
    <3>1. PICK a, b, c, d \in C : a = window[1] /\ b = window[2] /\ c = window[3] /\ d = window[4]
      BY <2>2
    <3>2. window = <<a, b, c, d>>
      BY <2>3, <3>1, Zenon
    <3> QED
      BY <2>4, <3>2, Zenon
  <2>6. cursor \in C \X P
    BY <2>2, <2>3
  <2> QED
    BY <2>5, <2>6, Zenon DEF C, P
<1>4. Len(todo) \in 0..18
  <2>1. CASE todo = << >>
    <3>1. Len(<< >>) \in 0..18
      OBVIOUS
    <3> QED
      BY <2>1, <3>1, Zenon
  <2>2. ASSUME NEW final, Underway(todo, final) PROVE Len(todo) \in 0..18
    BY <2>2, LengthLeft
  <2>3. ASSUME NEW k \in 0..17, todo = Left(ssd1306_init, k) PROVE Len(todo) \in 0..18
    <3>1. k \in Nat /\ k < 18 /\ 18 - k \in 0..18
      OBVIOUS
    <3>2. PICK v, T : v = ssd1306_init /\ T = Bus({})
      OBVIOUS
    <3>3. v \in Seq(T) /\ k < Len(v) /\ todo = Left(v, k) /\ Len(v) = 18
      BY <2>3, <3>1, <3>2, InitWrites, Zenon
    <3>4. Len(Left(v, k)) = Len(v) - k
      BY <3>1, <3>3, LeftStep
    <3> QED
      BY <3>1, <3>3, <3>4, Zenon
  <2> QED
    BY <1>1, <2>1, <2>2, <2>3 DEF ScreenInv
<1>5. Len(handler) \in 0..9
  <2>1. CASE handler = << >>
    <3>1. Len(<< >>) \in 0..9
      OBVIOUS
    <3> QED
      BY <2>1, <3>1, Zenon
  <2>2. CASE handler # << >>
    <3>1. PICK final : Drawing(handler, final)
      BY <1>1, <2>2 DEF ScreenInv, AlarmOnlyAtTitle
    <3> QED
      BY <3>1, LengthLeft
  <2> QED
    BY <2>1, <2>2
<1>6. digits.y \in 0..8 /\ digits.r \in 0..9 /\ digits.q \in Nat
  <2>1. CASE pc # "digits"
    BY <1>1, <2>1 DEF DigitsInv, NoDigits
  <2>2. CASE pc = "digits"
    <3>1. (digits.y \in 1..7 \/ digits.y \in 2..8) /\ digits.r \in 0..9 /\ digits.q \in Nat
      BY <1>1, <2>2 DEF DigitsInv, Remain
    <3> QED
      BY <3>1
  <2> QED
    BY <2>1, <2>2
<1>7. /\ pc \in {"main", "init", "title_screen", "ualarm", "title", "top_score", "top", "digits", "start",
                 "drain", "game", "lines", "over", "exit", "return", "done"}
      /\ alarm \in BOOLEAN /\ i \in 0..TITLE_NUM_FRAME-1 /\ row \in 0..FIELD_WIDTH-1
      /\ score \in 0..MaxScore /\ kills \in 0..MaxKills /\ animated \in BOOLEAN
  <2>1. FIELD_WIDTH-1 = 15
    BY ScreenAssumption
  <2> QED
    BY <1>1, <2>1, Zenon DEF ProgramInv
<1> QED
  BY <1>1, <1>2, <1>3, <1>4, <1>5, <1>6, <1>7, Zenon DEF ScreenTypeOK, KeysTyped

\* Between two drawings the controller is in step.
LEMMA DisplayInStep ==
  ASSUME DisplayParts
  PROVE  ControllerInStep
<1>1. ASSUME pc \in {"ualarm", "title", "top", "digits", "drain", "game", "lines", "over", "done"},
             todo = << >>, handler = << >>
      PROVE  /\ pending = << >> /\ mode = Horizontal /\ cursor = <<window[1], window[3]>>
             /\ setup[\hA8] = \h3F /\ setup[\h8D] = \h14 /\ setup[\hAF] = 0
  <2>1. PICK at : at = pc
    OBVIOUS
  <2>2. Ready(at) /\ at \notin {"main", "init", "title_screen"}
    BY <1>1, <2>1 DEF Ready
  <2>3. Settled
    BY <2>2, ScreenReady DEF DisplayParts
  <2>4. pending = << >>
    <3>1. pending \in Seq(Nat)
      BY DEF DisplayParts, ControllerTyped
    <3>2. Len(pending) = 0
      BY <2>3 DEF Settled, Prepared
    <3> QED
      BY <3>1, <3>2, LenZero
  <2> QED
    BY <2>3, <2>4 DEF Settled, Prepared, SetUp
<1> QED
  BY <1>1 DEF ControllerInStep

\* Whenever the program waits, the display shows the screen it is at.
LEMMA DisplayShown ==
  ASSUME DisplayParts
  PROVE  ScreenShown
<1>1. ScreenInv
  BY DEF DisplayParts
<1>2. ASSUME Ready("title"), animated, NEW d \in Dots PROVE ram[d] = TitleScreen(d)
  <2>1. Shows(ram) /\ pc = "title"
    BY <1>1, <1>2, ScreenReady DEF Ready
  <2>2. d[1] < 8 => ram[d] = At(title((i - 1) % TITLE_NUM_FRAME), d, 0, 0, 8)
    BY <1>2, <2>1 DEF Shows
  <2>3. d[1] >= 8 => ram[d] = At(press_start, d, 8, 0, 8)
    BY <2>1 DEF Shows
  <2>4. d[1] < 8 \/ d[1] >= 8
    BY DotIs
  <2> QED
    BY <2>2, <2>3, <2>4 DEF TitleScreen
<1>3. ASSUME Ready("top") PROVE \A d \in Dots : ram[d] = TopScreen(d)
  BY <1>1, <1>3, ScreenReady DEF Ready, Shows
<1>4. ASSUME Ready("game") PROVE \A d \in Dots : ram[d] = GameScreen(d)
  BY <1>1, <1>4, ScreenReady DEF Ready, Shows
<1>5. ASSUME Ready("over") PROVE \A d \in Dots : ram[d] = OverScreen(d)
  BY <1>1, <1>5, ScreenReady DEF Ready, Shows
<1>6. ASSUME pc = "done" PROVE ~alarm /\ handler = << >> /\ \A d \in Dots : ram[d] = Blank
  <2>1. ~alarm /\ handler = << >> /\ todo = << >>
    BY <1>1, <1>6 DEF ScreenInv, AlarmOnlyAtTitle
  <2>2. Ready("done")
    BY <1>6, <2>1 DEF Ready
  <2>3. Shows(ram)
    BY <1>1, <2>2, ScreenReady
  <2> QED
    BY <1>6, <2>1, <2>3 DEF Shows
<1> QED
  BY <1>2, <1>3, <1>4, <1>5, <1>6 DEF ScreenShown

(***************************************************************************)
(* If the scores have at most six digits, those main.c has room for, every *)
(* drawing stays within the display and fills its window exactly, so that  *)
(* between two drawings the controller waits for a command at the start of *)
(* its window, set up and switched on: also after the program was killed   *)
(* in the middle of a command, whose missing arguments are then the first  *)
(* bytes of ssd1306_init.                                                  *)
(***************************************************************************)
THEOREM ControllerStaysInStep == ScoresFit => (Spec => []DisplayInv)
<1> SUFFICES ASSUME ScoresFit PROVE Spec => []DisplayInv
  OBVIOUS
<1>1. Init => DisplayParts
  BY DisplayStarts
<1>2. DisplayParts /\ [Next]_vars => DisplayParts'
  BY DisplayStep
<1>3. DisplayParts => DisplayInv
  BY DisplayTyped, DisplayInStep DEF DisplayInv
<1> QED
  BY <1>1, <1>2, <1>3, PTL DEF Spec

(***************************************************************************)
(* Under the same hypothesis every byte of the display belongs to the      *)
(* screen the program waits at, with the digits of the score, or of the    *)
(* best score saved, in their places; and the program leaves the display   *)
(* dark.  No interrupted drawing, no key and no kill leaves anything else. *)
(***************************************************************************)
THEOREM ScreensAreShown == ScoresFit => (Spec => []ScreenShown)
<1> SUFFICES ASSUME ScoresFit PROVE Spec => []ScreenShown
  OBVIOUS
<1>1. Init => DisplayParts
  BY DisplayStarts
<1>2. DisplayParts /\ [Next]_vars => DisplayParts'
  BY DisplayStep
<1>3. DisplayParts => ScreenShown
  BY DisplayShown
<1> QED
  BY <1>1, <1>2, <1>3, PTL DEF Spec

=============================================================================
