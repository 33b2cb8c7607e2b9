----------------------------- MODULE MCAesdChar -----------------------------
(* TLC instances of AesdChar.                                              *)
EXTENDS AesdChar

CONSTANTS p1, p2, f1, f2, b1, b2, b3, b4

MCNoEntry == [buffptr |-> NULL, size |-> 0]
MCEntries == [buffptr : Blocks, size : 0..MaxPending]

Reads(counts) == [op : {"read"}, count : counts]
Writes(chunks) == [op : {"write"}, chunk : chunks]
Seeks(offs, whences) == [op : {"llseek"}, off : offs, whence : whences]
Seektos(cmds, offs) ==
  [op : {"ioctl"}, cmd : {"seekto"}, write_cmd : cmds, write_cmd_offset : offs]
Ioctls(cmds) == [op : {"ioctl"}, cmd : cmds]

OneFileEach == p1 :> f1 @@ p2 :> f2
SharedFile == p1 :> f1 @@ p2 :> f1
\* Blocks are interchangeable, and so are processes that share their file.
BlockSymmetry == Permutations(Blocks)
Symmetry == Permutations(Blocks) \cup Permutations(Procs)

SingleFile == p1 :> f1

\* Reads, writes and seeks within the documented interface; commands arrive in
\* pieces or whole.
DocumentedMix ==
  Reads({1, 3}) \cup Writes({<<"a">>, <<"b", NL>>, <<NL>>})
    \cup Seeks({-1}, {2}) \cup Seektos({1}, {0})

\* Every write is a complete command, so no command is ever unfinished.
WholeLineMix ==
  Reads({3}) \cup Writes({<<"a", NL>>, <<NL>>})
    \cup Seeks({0}, {0, 1, 3}) \cup Ioctls({"foreign"})

\* A seek relative to a position that another process moves.
RelativeSeeks == Reads({1}) \cup Writes({<<"a", NL>>}) \cup Seeks({1}, {1})

\* Everything a program may ask of the device: empty writes, newlines anywhere,
\* offsets on both sides of the data, unknown whence values and ioctl commands.
AnyRequest ==
  Reads({0, 1, 3}) \cup Writes({<< >>, <<"a">>, <<NL>>, <<NL, "a">>})
    \cup Seeks({-1, 0, 1}, 0..3) \cup Seektos({0, 2}, {0, 1})
    \cup Ioctls({"foreign", "other"})

WithOtherIoctl == Reads({1}) \cup Writes({<<NL>>}) \cup Ioctls({"other"})
WithOtherWhence == Reads({1}) \cup Seeks({0}, {3})

=============================================================================
