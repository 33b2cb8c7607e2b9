------------------------------ MODULE Ssd1306 ------------------------------
(***************************************************************************)
(* tetris-app/display/ssd1306.c: what it writes to the I2C bus, and the    *)
(* display controller that listens there (external: no part of the         *)
(* repository).  A drawing function is the sequence of its I2C writes, so  *)
(* that a signal, or the death of the program, may come between any two.   *)
(* A picture is a name; its k-th byte is told from every other byte.       *)
(***************************************************************************)
EXTENDS Integers, Sequences

CONSTANTS FIELD_WIDTH,  \* columns of the display
          FIELD_HEIGHT  \* pages of the display, of eight rows each

ASSUME DisplayAssumption ==
  /\ FIELD_WIDTH \in 1..128 /\ FIELD_HEIGHT \in 1..8

-----------------------------------------------------------------------------
(* ssd1306.c                                                               *)

ssd1306_command(cmd) == [dc |-> "command", cmd |-> cmd % 256]

ssd1306_data(data, size) == [dc |-> "data", data |-> data, size |-> size]

Commands(cmds) == [k \in DOMAIN cmds |-> ssd1306_command(cmds[k])]

\* A plausible bug: the argument of the mux ratio is not sent.
Mutant_init == Commands(
  <<\hA8, \hD3, \h00, \h40, \hA0, \hC0, \hDA, \h12, \h81, \h7F,
    \hA4, \hA6, \hD5, \h80, \h8D, \h14, \hAF>>)

\* Mux ratio, offset, start line, re-map, scan direction, pins, contrast,
\* display from memory, not inverted, frequency, charge pump, display on.
ssd1306_init == Commands(
  <<\hA8, \h3F, \hD3, \h00, \h40, \hA0, \hC0, \hDA, \h12, \h81, \h7F,
    \hA4, \hA6, \hD5, \h80, \h8D, \h14, \hAF>>)

\* Horizontal addressing, the window's columns, its pages, and what fills it.
update_area(data, x, y, x_len, y_len) ==
  Commands(<<\h20, \h00, \h21, x, x + x_len - 1, \h22, y, y + y_len - 1>>)
    \o <<ssd1306_data(data, x_len * y_len)>>

update_full(data) ==
  Commands(<<\h20, \h00, \h21, 0, FIELD_WIDTH - 1, \h22, 0, FIELD_HEIGHT - 1>>)
    \o <<ssd1306_data(data, FIELD_WIDTH * FIELD_HEIGHT)>>

-----------------------------------------------------------------------------
(* The controller                                                          *)

VARIABLES ram,     \* what each byte <<column, page>> of the display shows
          pending, \* a command and those of its arguments that have come
          mode,    \* the addressing mode
          window,  \* first and last column, first and last page
          cursor,  \* the column and page the next byte of data goes to
          setup    \* the argument each command of setup was given last

controller == <<ram, pending, mode, window, cursor, setup>>

Horizontal == 0
clear == <<"clear", 0>>     \* the picture of nothing
Blank == [of |-> clear, k |-> 0]
Unknown == [of |-> <<"unknown", 0>>, k |-> 0]
Dots == (0..FIELD_WIDTH-1) \X (0..FIELD_HEIGHT-1)

\* The commands the program sends, with the number of their arguments.
OneArgument == {\h20, \hA8, \hD3, \hDA, \h81, \hD5, \h8D}
TwoArguments == {\h21, \h22}
NoArgument == {\h40, \hA0, \hC0, \hA4, \hA6, \hAF}
Arguments(op) == IF op \in TwoArguments THEN 2 ELSE IF op \in OneArgument THEN 1 ELSE 0

Unset == -1
PowerOn ==
  /\ ram = [d \in Dots |-> Unknown]
  /\ pending = <<>> /\ mode = 2
  /\ window = <<0, FIELD_WIDTH - 1, 0, FIELD_HEIGHT - 1>> /\ cursor = <<0, 0>>
  /\ setup = [op \in (OneArgument \cup NoArgument) \ {\h20} |-> Unset]

\* What a command does once its arguments are there.  The column is taken from
\* seven bits and the page from three; a byte that is no command is ignored.
Execute(c) ==
  CASE c[1] = \h20 ->
         mode' = c[2] % 4 /\ UNCHANGED <<window, cursor, setup>>
    [] c[1] = \h21 ->
         /\ window' = <<c[2] % 128, c[3] % 128, window[3], window[4]>>
         /\ cursor' = <<c[2] % 128, cursor[2]>>
         /\ UNCHANGED <<mode, setup>>
    [] c[1] = \h22 ->
         /\ window' = <<window[1], window[2], c[2] % 8, c[3] % 8>>
         /\ cursor' = <<cursor[1], c[2] % 8>>
         /\ UNCHANGED <<mode, setup>>
    [] c[1] \in DOMAIN setup ->
         /\ setup' = [setup EXCEPT ![c[1]] = IF Len(c) = 2 THEN c[2] ELSE 0]
         /\ UNCHANGED <<mode, window, cursor>>
    [] OTHER -> UNCHANGED <<mode, window, cursor, setup>>

ReceiveCommand(cmd) ==
  LET c == pending \o <<cmd>> IN
  /\ IF Len(c) = 1 + Arguments(c[1])
     THEN pending' = <<>> /\ Execute(c)
     ELSE pending' = c /\ UNCHANGED <<mode, window, cursor, setup>>
  /\ UNCHANGED ram

Byte(data, k) == IF data = clear THEN Blank ELSE [of |-> data, k |-> k]

\* The bytes fill the window row by row from the cursor on, and start again at
\* its first byte behind its last.  In the other modes, or with a window that
\* ends before it begins, they may go anywhere.
ReceiveData(data, size) ==
  LET w == window[2] - window[1] + 1
      area == w * (window[4] - window[3] + 1)
      offset == (cursor[2] - window[3]) * w + cursor[1] - window[1]
      end == (offset + size) % area
      Fill(d) ==
        LET o == ((d[2] - window[3]) * w + d[1] - window[1] - offset) % area
        IN  IF \/ d[1] \notin window[1]..window[2] \/ d[2] \notin window[3]..window[4]
               \/ o >= size
            THEN ram[d]
            ELSE Byte(data, o + area * ((size - 1 - o) \div area))
  IN
  /\ IF mode = Horizontal /\ window[1] <= window[2] /\ window[3] <= window[4]
     THEN /\ ram' = [d \in Dots |-> Fill(d)]
          /\ cursor' = <<window[1] + (end % w), window[3] + (end \div w)>>
     ELSE ram' = [d \in Dots |-> Unknown] /\ UNCHANGED cursor
  /\ UNCHANGED <<pending, mode, window, setup>>

Receive(m) ==
  \/ m.dc = "command" /\ ReceiveCommand(m.cmd)
  \/ m.dc = "data" /\ ReceiveData(m.data, m.size)

=============================================================================
