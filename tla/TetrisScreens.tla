--------------------------- MODULE TetrisScreens ---------------------------
(***************************************************************************)
(* The screens of tetris-app/main.c: title, top score, game, game over and *)
(* the way out.  Every write to the display is a step, the alarm that      *)
(* animates the title may come between any two, and the program may be     *)
(* killed and started again.  What happens in the game is TetrisGame; here *)
(* it is a picture and a score.  Columns are counted in units of eight     *)
(* (MOVE_X): every position and width in main.c is a multiple of it.       *)
(***************************************************************************)
EXTENDS Ssd1306, FiniteSetsExt

CONSTANTS TITLE_NUM_FRAME, \* frames of the title
          Pictures,        \* numbers for what display_buffer may hold
          Gains,           \* what a landing adds to the score
          Saved,           \* score files there may be before the first start
          MaxScore,        \* bound on the score of a game
          MaxKills,        \* bound on the program's violent deaths
          MaxKeys          \* bound on the presses that no read has taken away

ASSUME ScreenAssumption ==
  /\ FIELD_WIDTH = 16 /\ FIELD_HEIGHT = 8
  /\ TITLE_NUM_FRAME \in Nat \ {0}
  /\ Gains \subseteq {10, 100, 400, 700, 1000}
  /\ MaxScore \in Nat /\ MaxKills \in Nat /\ MaxKeys \in Nat

VARIABLES pc,         \* where main is, once the writes of todo are made
          todo,       \* the I2C writes of the drawing main is at
          digits,     \* the locals q, r and display_start_y of a score drawing
          handler,    \* the I2C writes title_handler has still to make
          alarm,      \* whether ualarm has armed the alarm
          i,          \* the handler's static i, modulo TITLE_NUM_FRAME
          coming,     \* the presses whose callback sleeps, by the screen they were made at
          key,        \* the key the driver holds, by the screen too
          score,
          score_file, \* the scores in score.txt
          game,       \* what display_buffer holds
          row,        \* the column of the line that is drawn over the game
          animated,   \* history: a frame was drawn since the title was entered
          kills

keys == <<coming, key>>
mvars == <<pc, todo, digits, handler, alarm, i, keys, score, score_file, game, row, animated, kills>>
vars == <<controller, mvars>>

-----------------------------------------------------------------------------
(* The pictures                                                            *)

tetris(k) == <<"tetris", k>>
title(k) == tetris(k)         \* what initialize_title_animation sets up
press_start == <<"press_start", 0>>
best_score == <<"best_score", 0>>
game_over == <<"game_over", 0>>
line == <<"line", 0>>
number(r) == <<"number", r>>
display_buffer(g) == <<"game", g>>

clear_display == update_full(clear)

NoKey == "no key"
NoDigits == [q |-> 0, r |-> 0, y |-> 0, x |-> 0, last |-> 0, then |-> "none"]

\* The digits of n, the lowest on page y of column x, with zeros up to page last.
DigitsOf(n, x, y, last, then) ==
  [q |-> n \div 10, r |-> n % 10, y |-> y, x |-> x, last |-> last, then |-> then]

Init ==
  /\ PowerOn
  /\ pc = "main" /\ todo = <<>> /\ digits = NoDigits
  /\ handler = <<>> /\ alarm = FALSE /\ i = 0
  /\ coming = {} /\ key = NoKey
  /\ score = 0 /\ score_file \in Saved /\ game \in Pictures /\ row = 0
  /\ animated = FALSE /\ kills = 0

-----------------------------------------------------------------------------
(* Writes, keys and the alarm                                              *)

\* main goes on only when its drawing is done and no handler runs on top of it.
Ready(at) == pc = at /\ todo = <<>> /\ handler = <<>>

MainWrites ==
  /\ todo # <<>> /\ handler = <<>>
  /\ Receive(Head(todo)) /\ todo' = Tail(todo)
  /\ UNCHANGED <<pc, digits, handler, alarm, i, keys, score, score_file, game, row, animated, kills>>

\* SIGALRM: the handler draws the next frame.
title_handler ==
  /\ alarm /\ handler = <<>>
  /\ handler' = update_area(title(i), 0, 0, 8, 8)
  /\ i' = (i + 1) % TITLE_NUM_FRAME
  /\ UNCHANGED <<controller, pc, todo, digits, alarm, keys, score, score_file, game, row, animated, kills>>

HandlerWrites ==
  /\ handler # <<>>
  /\ Receive(Head(handler)) /\ handler' = Tail(handler)
  /\ animated' = (animated \/ Len(handler) = 1)
  /\ UNCHANGED <<pc, todo, digits, alarm, i, keys, score, score_file, game, row, kills>>

\* The screen the program is at, of the two that act on fresh keys only.
Screen ==
  CASE pc \in {"ualarm", "title"} -> "title"
    [] pc = "game" \/ (pc = "digits" /\ digits.then = "game") -> "game"
    [] OTHER -> "other"

\* A key is pressed: its callback sleeps before it stores the key.
Press ==
  /\ Cardinality(coming) + (IF key = NoKey THEN 0 ELSE 1) < MaxKeys
  /\ coming' = coming \cup {Screen}
  /\ UNCHANGED <<controller, pc, todo, digits, handler, alarm, i, key, score, score_file, game, row, animated, kills>>

\* The driver keeps the first key since the last read: the others go behind it
\* and a read of one byte never gets there.  A key that is up again is dropped.
StoreKey(at) ==
  /\ at \in coming /\ coming' = coming \ {at}
  /\ \/ key = NoKey /\ key' = at
     \/ UNCHANGED key
  /\ UNCHANGED <<controller, pc, todo, digits, handler, alarm, i, score, score_file, game, row, animated, kills>>

\* Reading until there is nothing left.  What is still on its way comes late.
ReadAway ==
  /\ key' = NoKey
  /\ coming' = IF coming = {} THEN {} ELSE {"late"}

\* A key is read; which one it is makes the difference afterwards.
ReadKey ==
  /\ key # NoKey /\ key' = NoKey
  /\ UNCHANGED coming

-----------------------------------------------------------------------------
(* main                                                                    *)

main ==
  /\ Ready("main")
  /\ todo' = ssd1306_init /\ pc' = "init"
  /\ UNCHANGED <<controller, digits, handler, alarm, i, keys, score, score_file, game, row, animated, kills>>

\* ssd1306_init is done.
initialize_title_animation ==
  /\ Ready("init")
  /\ pc' = "title_screen"
  /\ UNCHANGED <<controller, todo, digits, handler, alarm, i, keys, score, score_file, game, row, animated, kills>>

\* A plausible bug: keys pressed before are not read away.
Mutant_title_screen ==
  /\ Ready("title_screen")
  /\ todo' = update_area(press_start, 8, 0, 8, 8) /\ pc' = "ualarm"
  /\ UNCHANGED <<controller, digits, handler, alarm, i, keys, score, score_file, game, row, animated, kills>>

title_screen ==
  /\ Ready("title_screen")
  /\ ReadAway
  /\ todo' = update_area(press_start, 8, 0, 8, 8) /\ pc' = "ualarm"
  /\ UNCHANGED <<controller, digits, handler, alarm, i, score, score_file, game, row, animated, kills>>

\* A plausible bug: the alarm does not go off.
Mutant_ualarm ==
  /\ Ready("ualarm")
  /\ alarm' = FALSE /\ animated' = FALSE /\ pc' = "title"
  /\ UNCHANGED <<controller, todo, digits, handler, i, keys, score, score_file, game, row, kills>>

ualarm ==
  /\ Ready("ualarm")
  /\ alarm' = TRUE /\ animated' = FALSE /\ pc' = "title"
  /\ UNCHANGED <<controller, todo, digits, handler, i, keys, score, score_file, game, row, kills>>

\* A plausible bug: the alarm is left on.
Mutant_TitleKey ==
  /\ Ready("title") /\ ReadKey
  /\ pc' \in {"start", "top_score", "exit"}
  /\ UNCHANGED <<controller, todo, digits, handler, alarm, i, score, score_file, game, row, animated, kills>>

TitleKey ==
  /\ Ready("title") /\ ReadKey
  /\ alarm' = FALSE
  /\ pc' \in {"start", "top_score", "exit"}
  /\ UNCHANGED <<controller, todo, digits, handler, i, score, score_file, game, row, animated, kills>>

\* Any key leads back to the title.
TopScoreKey ==
  /\ Ready("top") /\ ReadKey
  /\ pc' = "title_screen"
  /\ UNCHANGED <<controller, todo, digits, handler, alarm, i, score, score_file, game, row, animated, kills>>

\* One turn of the loop over the digits of a score, then over its zeros.
ShowDigit ==
  /\ Ready("digits")
  /\ \/ /\ digits.q # 0 \/ digits.r # 0
        /\ todo' = update_area(number(digits.r), digits.x, digits.y, 1, 1)
        /\ digits' = [digits EXCEPT !.r = digits.q % 10, !.q = digits.q \div 10, !.y = digits.y + 1]
     \/ /\ digits.q = 0 /\ digits.r = 0 /\ digits.y <= digits.last
        /\ todo' = update_area(number(0), digits.x, digits.y, 1, 1)
        /\ digits' = [digits EXCEPT !.y = digits.y + 1]
  /\ UNCHANGED <<controller, pc, handler, alarm, i, keys, score, score_file, game, row, animated, kills>>

DigitsShown ==
  /\ Ready("digits") /\ digits.q = 0 /\ digits.r = 0 /\ digits.y > digits.last
  /\ pc' = digits.then /\ digits' = NoDigits
  /\ UNCHANGED <<controller, todo, handler, alarm, i, keys, score, score_file, game, row, animated, kills>>

\* A plausible bug: what was on the display stays there.
Mutant_show_top_score ==
  /\ Ready("top_score")
  /\ todo' = update_area(best_score, 0, 0, 8, 8)
  /\ digits' = DigitsOf(Max(score_file \cup {0}), 9, 1, 6, "top") /\ pc' = "digits"
  /\ UNCHANGED <<controller, handler, alarm, i, keys, score, score_file, game, row, animated, kills>>

show_top_score ==
  /\ Ready("top_score")
  /\ todo' = clear_display \o update_area(best_score, 0, 0, 8, 8)
  /\ digits' = DigitsOf(Max(score_file \cup {0}), 9, 1, 6, "top") /\ pc' = "digits"
  /\ UNCHANGED <<controller, handler, alarm, i, keys, score, score_file, game, row, animated, kills>>

\* The field with the piece in it, then the score s.
show_game(before, g, s, then) ==
  /\ todo' = before \o update_area(display_buffer(g), 1, 0, 15, 8)
  /\ digits' = DigitsOf(s, 0, 2, 7, then) /\ pc' = "digits"
  /\ game' = g

start ==
  /\ Ready("start")
  /\ score' = 0
  /\ \E g \in Pictures : show_game(clear_display, g, 0, "drain")
  /\ UNCHANGED <<controller, handler, alarm, i, keys, score_file, row, animated, kills>>

\* Keys pressed before the game is on the display do not count.
DrainKeys ==
  /\ Ready("drain")
  /\ ReadAway /\ pc' = "game"
  /\ UNCHANGED <<controller, todo, digits, handler, alarm, i, score, score_file, game, row, animated, kills>>

\* A key moves the piece, or does not.
GameKey ==
  /\ Ready("game") /\ ReadKey
  /\ \E g \in Pictures : show_game(<<>>, g, score, "game")
  /\ UNCHANGED <<controller, handler, alarm, i, score, score_file, row, animated, kills>>

\* The clock: the piece falls, or it lands and a new one appears.
GameClock ==
  /\ Ready("game")
  /\ \E g \in Pictures, gain \in {0} \cup Gains :
       /\ score + gain <= MaxScore
       /\ score' = score + gain
       /\ show_game(<<>>, g, score + gain, "game")
  /\ UNCHANGED <<controller, handler, alarm, i, keys, score_file, row, animated, kills>>

\* The clock: the piece that lands is the last.
GameOver ==
  /\ Ready("game")
  /\ row' = FIELD_WIDTH - 1 /\ pc' = "lines"
  /\ UNCHANGED <<controller, todo, digits, handler, alarm, i, keys, score, score_file, game, animated, kills>>

\* Line after line from below; then the score is saved and the sign drawn.
DrawLine ==
  /\ Ready("lines")
  /\ \/ /\ row >= 1
        /\ todo' = update_area(line, row, 0, 1, 8) /\ row' = row - 1
        /\ UNCHANGED <<pc, score_file>>
     \/ /\ row = 0
        /\ score_file' = score_file \cup {score}
        /\ todo' = update_area(game_over, 4, 0, 8, 8) /\ pc' = "over"
        /\ UNCHANGED row
  /\ UNCHANGED <<controller, digits, handler, alarm, i, keys, score, game, animated, kills>>

GameOverKey ==
  /\ Ready("over") /\ ReadKey
  /\ \/ pc' = "start" /\ UNCHANGED todo
     \/ pc' = "title_screen" /\ todo' = clear_display
  /\ UNCHANGED <<controller, digits, handler, alarm, i, score, score_file, game, row, animated, kills>>

exit ==
  /\ Ready("exit")
  /\ todo' = clear_display /\ pc' = "return"
  /\ UNCHANGED <<controller, digits, handler, alarm, i, keys, score, score_file, game, row, animated, kills>>

return ==
  /\ Ready("return")
  /\ alarm' = FALSE /\ pc' = "done"
  /\ UNCHANGED <<controller, todo, digits, handler, i, keys, score, score_file, game, row, animated, kills>>

\* A new process: the display and the driver are as the last one left them.
NewProcess ==
  /\ pc' = "main" /\ todo' = <<>> /\ digits' = NoDigits /\ handler' = <<>>
  /\ alarm' = FALSE /\ i' = 0 /\ score' = 0 /\ row' = 0 /\ animated' = FALSE
  /\ UNCHANGED <<controller, keys, score_file, game>>

\* The program is started again after its end ...
Restart == pc = "done" /\ NewProcess /\ UNCHANGED kills

\* ... or killed anywhere but in ssd1306_init, and started again.
Kill ==
  /\ pc \notin {"main", "done"} /\ (pc = "init" => todo = <<>>)
  /\ kills < MaxKills /\ kills' = kills + 1
  /\ NewProcess

Main ==
  \/ main \/ initialize_title_animation \/ title_screen \/ ualarm \/ TitleKey \/ TopScoreKey
  \/ ShowDigit \/ DigitsShown \/ show_top_score
  \/ start \/ DrainKeys \/ GameKey \/ GameClock \/ GameOver \/ DrawLine \/ GameOverKey
  \/ exit \/ return

Next ==
  \/ Main \/ MainWrites \/ title_handler \/ HandlerWrites
  \/ Press \/ \E at \in coming : StoreKey(at)
  \/ Restart \/ Kill

\* main runs, a write to the display ends, a signal handler runs to its end,
\* and the alarm that is armed goes off again and again.  Nobody need press a
\* key.
Spec ==
  /\ Init /\ [][Next]_vars
  /\ WF_vars(Main) /\ WF_vars(MainWrites) /\ WF_vars(HandlerWrites) /\ WF_vars(title_handler)

-----------------------------------------------------------------------------
ScreenTypeOK ==
  /\ pc \in {"main", "init", "title_screen", "ualarm", "title", "top_score", "top", "digits", "start",
             "drain", "game", "lines", "over", "exit", "return", "done"}
  /\ DOMAIN ram = Dots /\ Len(pending) \in 0..2 /\ mode \in 0..3
  /\ window \in Seq(0..127) /\ Len(window) = 4 /\ cursor \in (0..127) \X (0..7)
  /\ Len(todo) \in 0..18 /\ Len(handler) \in 0..9
  /\ digits.y \in 0..8 /\ digits.r \in 0..9 /\ digits.q \in Nat
  /\ alarm \in BOOLEAN /\ i \in 0..TITLE_NUM_FRAME-1 /\ row \in 0..FIELD_WIDTH-1
  /\ score \in 0..MaxScore /\ kills \in 0..MaxKills /\ animated \in BOOLEAN
  /\ coming \cup {key} \subseteq {"title", "game", "other", "late", NoKey}

\* What a picture put at column x, page y, w columns wide shows at d.
At(pic, d, x, y, w) == [of |-> pic, k |-> (d[2] - y) * w + d[1] - x]

\* The digit of n that counts the p-th power of ten.
DigitAt(n, p) == (n \div (10^p)) % 10

ScoreAt(d) == IF d[2] < 2 THEN Blank ELSE At(number(DigitAt(score, d[2] - 2)), d, 0, d[2], 1)

TitleScreen(d) ==
  IF d[1] < 8 THEN At(title((i - 1) % TITLE_NUM_FRAME), d, 0, 0, 8) ELSE At(press_start, d, 8, 0, 8)
TopScreen(d) ==
  CASE d[1] < 8 -> At(best_score, d, 0, 0, 8)
    [] d[1] = 9 /\ d[2] \in 1..6 ->
         At(number(DigitAt(Max(score_file \cup {0}), d[2] - 1)), d, 9, d[2], 1)
    [] OTHER -> Blank
GameScreen(d) == IF d[1] = 0 THEN ScoreAt(d) ELSE At(display_buffer(game), d, 1, 0, 15)
OverScreen(d) ==
  CASE d[1] = 0 -> ScoreAt(d)
    [] d[1] \in 4..11 -> At(game_over, d, 4, 0, 8)
    [] OTHER -> At(line, d, d[1], 0, 1)

\* Whenever the program waits for a key, every byte of the display belongs to
\* the screen the program is at, in its place, and the numbers shown are the
\* score, or the best score ever saved: nothing of an earlier screen is left,
\* whatever was drawn, interrupted or cut short before.  (The title, once its
\* first frame is drawn.)  After the program's end the display is dark and no
\* alarm is left that would draw on it.
ScreenShown ==
  /\ Ready("title") /\ animated => \A d \in Dots : ram[d] = TitleScreen(d)
  /\ Ready("top") => \A d \in Dots : ram[d] = TopScreen(d)
  /\ Ready("game") => \A d \in Dots : ram[d] = GameScreen(d)
  /\ Ready("over") => \A d \in Dots : ram[d] = OverScreen(d)
  /\ pc = "done" => ~alarm /\ handler = <<>> /\ \A d \in Dots : ram[d] = Blank

\* The handler never runs in the middle of a drawing of main: its commands
\* would end up among main's, and both use malloc.
DrawingsNotInterrupted == handler # <<>> => todo = <<>>

\* Between two drawings the controller waits for a command, its cursor back at
\* the start of the window, set up for all rows and switched on: every drawing
\* filled its window exactly, and a program killed in the middle of a command
\* has been recovered from.
ControllerInStep ==
  pc \in {"ualarm", "title", "top", "digits", "drain", "game", "lines", "over", "done"}
    /\ todo = <<>> /\ handler = <<>> =>
       /\ pending = <<>> /\ mode = Horizontal
       /\ cursor = <<window[1], window[3]>>
       /\ setup[\hA8] = \h3F /\ setup[\h8D] = \h14 /\ setup[\hAF] = 0

\* The controller is in step with the program, whose drawings fit the display.
DisplayInv == ScreenTypeOK /\ ControllerInStep

\* The title and the game act on a key only if it was pressed since they were
\* entered, or its callback was still asleep when older keys were read away.
NoStaleKey ==
  [][ReadKey /\ pc \in {"title", "game"} => key \in {pc, "late"}]_vars

\* Stronger, and not so: only if it was pressed since.
OnlyFreshKeys ==
  [][ReadKey /\ pc \in {"title", "game"} => key = pc]_vars

\* What an earlier screen left in the animated half of the display does not
\* stay beside the title.
TitleAppears == (pc = "title" /\ ~animated) ~> (animated \/ pc # "title")

=============================================================================
