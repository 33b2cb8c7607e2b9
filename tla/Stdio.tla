------------------------------- MODULE Stdio -------------------------------
(***************************************************************************)
(* The C library's buffer behind stdout, which the calls of the program    *)
(* and its threads share, modelled from how examples/ uses printf, fflush, *)
(* fork and exit.  Standard output is no terminal, so that a line stays in *)
(* the buffer until it is flushed.  A line is named by who prints it.      *)
(***************************************************************************)
EXTENDS Integers, Sequences

CONSTANT Lines

VARIABLES buffer,  \* the lines in the program's buffer
          written  \* the copies of each line that were written: <<file, writer>>

stdio == <<buffer, written>>

Program == 0   \* as a writer; n is the child of call n
Out == 0       \* the program's own output; file n is the one call n opens

StdioInit == buffer = {} /\ written = [l \in Lines |-> << >>]

printf(line) == buffer' = buffer \cup {line} /\ UNCHANGED written

\* A process writes the lines in its buffer to what its standard output is.
Flush(lines, file, who) ==
  written' = [l \in Lines |-> IF l \in lines THEN Append(written[l], <<file, who>>) ELSE written[l]]

StdioTypeOK == buffer \subseteq Lines /\ written \in [Lines -> Seq(Int \X Int)]

=============================================================================
