----------------------------- MODULE RingBuffer -----------------------------
(***************************************************************************)
(* driver/ringbuffer.c: the lock-free byte buffer between one writing and  *)
(* one reading thread that stream2file, the movie player and radiotext     *)
(* use.  There is no lock: each thread stores its own pointer and loads    *)
(* the other's.  An advance of a pointer is two stores to a volatile       *)
(* field, `ptr += n' and `ptr &= size_mask', so the other thread can see   *)
(* the pointer between them, when it lies behind the end of the buffer.    *)
(*                                                                         *)
(* Bytes are numbered in the order in which the writer stores them; the    *)
(* number stands for the byte.  wr and rd count the bytes the two threads  *)
(* have handed over, and astray records that a thread has looked at the    *)
(* pointers while one of them was between its stores and more than the     *)
(* buffer away from the other, so that the space it has computed is not    *)
(* the real one.  They are history variables and no operation reads them.  *)
(***************************************************************************)
EXTENDS Integers

CONSTANTS
    Size,       \* rb->size
    MaxBytes    \* bound on the bytes written, and read, in a run

(* ringbuffer_create rounds the size up to a power of two that is at least *)
(* 2, which is what lets `& size_mask' stand for `% size'.                 *)
ASSUME SizeAssumption == Size \in Nat /\ Size >= 2
ASSUME MaxBytesAssumption == MaxBytes \in Nat

VARIABLES
    buf,        \* rb->buf: slot -> byte
    write_ptr,  \* rb->write_ptr
    read_ptr,   \* rb->read_ptr
    wpc, rpc,   \* what each thread is doing: "idle" or "have" a vector,
                \*   "copied" bytes, "added" to its pointer but not masked it
    wvec, rvec, \* the slots each thread may use: its vec[0] and vec[1]
    wn, rn,     \* bytes of the advance under way
    dest,       \* the bytes the reader has copied out of the buffer
    wr, rd,     \* history: bytes handed over by the writer, by the reader
    last,       \* history: the bytes of the reader's latest advance
    astray      \* history: has a thread been misled by an unmasked pointer?

writerVars == <<write_ptr, wpc, wvec, wn, wr>>
readerVars == <<read_ptr, rpc, rvec, rn, dest, rd, last>>
ringVars == <<buf, write_ptr, read_ptr, wpc, rpc, wvec, rvec, wn, rn, dest,
              wr, rd, last, astray>>

Slots == 0 .. Size - 1
Most == 2 * Size - 1        \* the most that a difference of pointers can be
Mask(x) == x % Size

-----------------------------------------------------------------------------
(***************************************************************************)
(* The arithmetic on the two pointers.                                     *)
(***************************************************************************)

\* A reader that forgets to mask: an empty buffer looks like a full one.
ReadSpaceUnmasked(w, r) == IF w > r THEN w - r ELSE w - r + Size

ReadSpace(w, r) == IF w > r THEN w - r ELSE Mask(w - r + Size)

WriteSpace(w, r) ==
    IF w > r THEN Mask(r - w + Size) - 1
    ELSE IF w < r THEN (r - w) - 1
    ELSE Size - 1

(* vec[0] starts at `at' and has len0 bytes, vec[1] starts at the beginning *)
(* of the buffer and has len1 bytes.                                        *)
Vectors == [at : Slots, len0 : 0 .. Size, len1 : 0 .. Size]
NoVector == [at |-> 0, len0 |-> 0, len1 |-> 0]

\* A vector that ignores the end of the buffer.
VectorOneSegment(p, n) == [at |-> p, len0 |-> n, len1 |-> 0]

Vector(p, n) ==
    IF p + n > Size
    THEN [at |-> p, len0 |-> Size - p, len1 |-> Mask(p + n)]
    ELSE [at |-> p, len0 |-> n, len1 |-> 0]

(* What is left of a vector after its first k bytes. *)
Rest(v, k) ==
    IF k < v.len0
    THEN [at |-> v.at + k, len0 |-> v.len0 - k, len1 |-> v.len1]
    ELSE [at |-> k - v.len0, len0 |-> v.len0 + v.len1 - k, len1 |-> 0]

(* The slot of the d-th byte of a vector. *)
SlotOf(v, d) == IF d < v.len0 THEN v.at + d ELSE d - v.len0

NoBytes == [i \in 0 .. -1 |-> i]

Least(a, b) == IF a < b THEN a ELSE b

-----------------------------------------------------------------------------
RingInit ==
    /\ buf = [s \in Slots |-> -1]
    /\ write_ptr = 0 /\ read_ptr = 0
    /\ wpc = "idle" /\ rpc = "idle"
    /\ wvec = NoVector /\ rvec = NoVector
    /\ wn = 0 /\ rn = 0
    /\ dest = NoBytes
    /\ wr = 0 /\ rd = 0
    /\ last = NoBytes
    /\ astray = FALSE

(***************************************************************************)
(* The writer.  ringbuffer_write takes at most cnt bytes of the free       *)
(* space, ringbuffer_get_write_vector all of it (cnt = Most).  The free    *)
(* space it computes exceeds the real one when the reader has wrapped but  *)
(* not masked its pointer and the writer is at the beginning already.      *)
(***************************************************************************)
GetWriteVector(cnt) ==
    LET n == Least(cnt, WriteSpace(write_ptr, read_ptr)) IN
    /\ wpc \in {"idle", "have"}
    /\ n > 0
    /\ wvec' = Vector(write_ptr, n)
    /\ wpc' = "have"
    /\ astray' = (astray \/ read_ptr - write_ptr > Size)
    /\ UNCHANGED <<buf, write_ptr, wn, wr, readerVars>>

(* memcpy into the first part of the vector, or read() from the device into *)
(* it: k bytes arrive.                                                      *)
Fill(k) ==
    /\ wpc = "have"
    /\ k \in 1 .. wvec.len0
    /\ wr + k <= MaxBytes
    /\ buf' = [s \in Slots |->
                  IF s \in wvec.at .. (wvec.at + k - 1)
                  THEN wr + (s - wvec.at) ELSE buf[s]]
    /\ wn' = k
    /\ wpc' = "copied"
    /\ UNCHANGED <<write_ptr, wvec, wr, readerVars, astray>>

(* ringbuffer_write_advance: `rb->write_ptr += n', the first store. *)
WriteAdvance ==
    /\ wpc = "copied"
    /\ write_ptr' = write_ptr + wn
    /\ wr' = wr + wn
    /\ wpc' = "added"
    /\ UNCHANGED <<buf, wvec, wn, readerVars, astray>>

(* ringbuffer_write_advance: `rb->write_ptr &= rb->size_mask', the second. *)
WriteMask ==
    /\ wpc = "added"
    /\ write_ptr' = Mask(write_ptr)
    /\ wvec' = Rest(wvec, wn)
    /\ wpc' = IF wvec.len0 + wvec.len1 = wn THEN "idle" ELSE "have"
    /\ wn' = 0
    /\ UNCHANGED <<buf, wr, readerVars, astray>>

(***************************************************************************)
(* The reader: ringbuffer_read and ringbuffer_get_readpointer (at most cnt *)
(* bytes) and ringbuffer_get_read_vector (all of them).  A reader at the   *)
(* beginning takes a write pointer that stands behind the end, not masked  *)
(* yet, for a whole buffer of bytes.                                       *)
(***************************************************************************)
GetReadVector(cnt) ==
    LET n == Least(cnt, ReadSpace(write_ptr, read_ptr)) IN
    /\ rpc \in {"idle", "have"}
    /\ n > 0
    /\ rvec' = Vector(read_ptr, n)
    /\ rpc' = "have"
    /\ astray' = (astray \/ write_ptr - read_ptr >= Size)
    /\ UNCHANGED <<buf, read_ptr, rn, dest, rd, last, writerVars>>

(* The first k bytes of the vector are copied out.  ringbuffer_read and the *)
(* vector's users never cross from vec[0] to vec[1] in one advance; the     *)
(* users of ringbuffer_get_readpointer do, after it has joined both parts   *)
(* in helpbuf.  Only a reader that was misled meets the bound.              *)
Take(k) ==
    /\ rpc = "have"
    /\ k \in 1 .. (rvec.len0 + rvec.len1)
    /\ rd + k <= MaxBytes
    /\ dest' = [i \in rd .. (rd + k - 1) |-> buf[SlotOf(rvec, i - rd)]]
    /\ rn' = k
    /\ rpc' = "copied"
    /\ UNCHANGED <<buf, read_ptr, rvec, rd, last, writerVars, astray>>

(* ringbuffer_read_advance: `rb->read_ptr += n', the first store. *)
ReadAdvance ==
    /\ rpc = "copied"
    /\ read_ptr' = read_ptr + rn
    /\ rd' = rd + rn
    /\ last' = dest
    /\ rpc' = "added"
    /\ UNCHANGED <<buf, rvec, rn, dest, writerVars, astray>>

(* ringbuffer_read_advance: `rb->read_ptr &= rb->size_mask', the second. *)
ReadMask ==
    /\ rpc = "added"
    /\ read_ptr' = Mask(read_ptr)
    /\ rvec' = Rest(rvec, rn)
    /\ rpc' = IF rvec.len0 + rvec.len1 = rn THEN "idle" ELSE "have"
    /\ rn' = 0
    /\ dest' = NoBytes
    /\ UNCHANGED <<buf, rd, last, writerVars, astray>>

(* ringbuffer_reset: "not thread safe", so both threads must be outside and *)
(* go on with new vectors.                                                   *)
Outside == wpc \in {"idle", "have"} /\ rpc \in {"idle", "have"}

Emptied ==
    /\ read_ptr' = 0 /\ write_ptr' = 0
    /\ wpc' = "idle" /\ rpc' = "idle"
    /\ wvec' = NoVector /\ rvec' = NoVector
    /\ wn' = 0 /\ rn' = 0
    /\ dest' = NoBytes
    /\ rd' = wr
    /\ last' = NoBytes
    /\ astray' = FALSE
    /\ UNCHANGED wr

Reset == Outside /\ Emptied /\ UNCHANGED buf

(* ringbuffer_free and, for the next recording, ringbuffer_create: a new    *)
(* buffer with nothing of use in it.                                        *)
Recreate == Outside /\ Emptied /\ buf' = [s \in Slots |-> -1]

Writer ==
    \/ \E cnt \in 1 .. Most : GetWriteVector(cnt)
    \/ \E k \in 1 .. Size : Fill(k)
    \/ WriteAdvance
    \/ WriteMask

Reader ==
    \/ \E cnt \in 1 .. Most : GetReadVector(cnt)
    \/ \E k \in 1 .. Most : Take(k)
    \/ ReadAdvance
    \/ ReadMask

RingNext == Writer \/ Reader \/ Reset \/ Recreate

RingSpec == RingInit /\ [][RingNext]_ringVars

-----------------------------------------------------------------------------
(***************************************************************************)
(* Properties.                                                             *)
(***************************************************************************)

Phases == {"idle", "have", "copied", "added"}

(* The variables have their types; a pointer that is not between its two    *)
(* stores lies inside the buffer, even after a thread was misled.           *)
RingTypeOK ==
    /\ buf \in [Slots -> Int]
    /\ write_ptr \in 0 .. Most /\ read_ptr \in 0 .. Most
    /\ wpc \in Phases /\ rpc \in Phases
    /\ wpc # "added" => write_ptr \in Slots
    /\ rpc # "added" => read_ptr \in Slots
    /\ wvec \in Vectors /\ rvec \in Vectors
    /\ wn \in 0 .. Size /\ rn \in 0 .. Most
    /\ wr \in Nat /\ rd \in Nat
    /\ astray \in BOOLEAN

(* The slots that hold bytes not yet handed over to the reader. *)
Unread == { Mask(Mask(read_ptr) + d) : d \in 0 .. (wr - rd - 1) }

(* The bytes of a vector, and those of them that an advance whose first     *)
(* store is done has already handed over.                                   *)
Total(v) == v.len0 + v.len1
Gone(pc, n) == IF pc = "added" THEN n ELSE 0

(* The slots a thread may still touch through the vector it holds. *)
Held(pc, v, n) ==
    IF pc = "idle" THEN {}
    ELSE { SlotOf(v, d) : d \in Gone(pc, n) .. (Total(v) - 1) }

(* No slot is written while it is read: the writer holds no slot with an    *)
(* unread byte, and the reader holds only such slots.                       *)
Apart ==
    /\ Held(wpc, wvec, wn) \cap Unread = {}
    /\ Held(rpc, rvec, rn) \subseteq Unread

(* ringbuffer.c:20 "This is safe for the case of one read thread and one    *)
(* write thread", without a condition.                                      *)
SafeForTwoThreads == Apart

(* What of ringbuffer.c:20 is true: the two threads keep apart, whatever    *)
(* the order of their unlocked accesses, until one of them is misled by a   *)
(* pointer that is between its two stores.                                  *)
NoSharedSlot == ~astray => Apart

(* Until then the buffer is a FIFO of one byte less than its size: what the *)
(* reader gets is what the writer stored, complete, once and in order.  The *)
(* byte count is handed over with the first store of an advance.            *)
Buffer == INSTANCE Fifo WITH Capacity <- Size - 1
FifoUntilAstray ==
    Buffer!Init /\ [][astray \/ Buffer!Next]_(Buffer!fifoVars)

=============================================================================
