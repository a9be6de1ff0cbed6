-------------------------------- MODULE Fifo --------------------------------
(***************************************************************************)
(* What a byte buffer between one writing and one reading thread promises: *)
(* the bytes come out complete, once each and in the order in which they   *)
(* were put, and never more than Capacity of them are inside.              *)
(*                                                                         *)
(* The bytes of the stream are numbered 0, 1, 2, ... and the number stands *)
(* for the byte.  driver/ringbuffer.c implements this (see RingBuffer).    *)
(***************************************************************************)
EXTENDS Integers

CONSTANT Capacity    \* the most bytes the buffer can hold

VARIABLES
    wr,     \* number of bytes put so far: the next byte put is byte wr
    rd,     \* number of bytes taken out so far
    last    \* the bytes delivered by the latest Get: position -> byte

fifoVars == <<wr, rd, last>>

Init ==
    /\ wr = 0
    /\ rd = 0
    /\ last = [i \in 0 .. -1 |-> i]

(* n more bytes are put, if they fit. *)
Put(n) ==
    /\ wr + n - rd <= Capacity
    /\ wr' = wr + n
    /\ UNCHANGED <<rd, last>>

(* n bytes are taken out: the n oldest ones, each at its position. *)
Get(n) ==
    /\ rd + n <= wr
    /\ rd' = rd + n
    /\ last' = [i \in rd .. (rd + n - 1) |-> i]
    /\ UNCHANGED wr

(* The content is thrown away. *)
Reset ==
    /\ rd' = wr
    /\ last' = [i \in 0 .. -1 |-> i]
    /\ UNCHANGED wr

Next ==
    \/ \E n \in 1 .. Capacity : Put(n) \/ Get(n)
    \/ Reset

Spec == Init /\ [][Next]_fifoVars

=============================================================================
