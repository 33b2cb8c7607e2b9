-------------------------- MODULE MCCircularBuffer --------------------------
(* TLC instance of AesdCircularBuffer.                                     *)
EXTENDS AesdCircularBuffer

CONSTANT MaxSize         \* bound: largest entry size

MCNoEntry == [buffptr |-> 0, size |-> 0]
MCEntries == [buffptr : {1}, size : 0..MaxSize]
=============================================================================
