-------------------------- MODULE RingBufferProofs --------------------------
(***************************************************************************)
(* The ring buffer for every size and every number of bytes: each pointer  *)
(* stays in its range and each vector inside the buffer, always; and until *)
(* a thread is misled by a pointer between its two stores, no slot is      *)
(* shared and the buffer is a FIFO.                                        *)
(***************************************************************************)
EXTENDS RingBuffer, TLAPS

(* What masking does to the values a pointer can have. *)
Wrap(x) == IF x < Size THEN x ELSE x - Size

(* Bytes inside, and how far a slot lies behind the oldest of them. *)
Count == wr - rd
Dist(s) == IF s >= Wrap(read_ptr) THEN s - Wrap(read_ptr)
           ELSE s - Wrap(read_ptr) + Size

(* The shape of a vector: vec[1] is used only when vec[0] reaches the end   *)
(* of the buffer.                                                           *)
GoodVector(v) ==
    /\ v.len0 > 0
    /\ v.at + v.len0 <= Size
    /\ v.len1 > 0 => v.at + v.len0 = Size
    /\ v.len1 < Size

(***************************************************************************)
(* The inductive invariant.                                                *)
(***************************************************************************)

(* Whatever a thread was told, its vector lies inside the buffer and starts *)
(* at its pointer, and it advances by no more than the vector has.          *)
ShapeInv ==
    /\ wpc # "idle" =>
          /\ GoodVector(wvec)
          /\ write_ptr = wvec.at + Gone(wpc, wn)
          /\ wpc # "have" => wn \in 1 .. wvec.len0
    /\ rpc # "idle" =>
          /\ GoodVector(rvec)
          /\ read_ptr = rvec.at + Gone(rpc, rn)
          /\ rpc # "have" => rn \in 1 .. Total(rvec)

(* The pointers, once masked, say how many bytes are inside. *)
PtrInv ==
    /\ Count \in 0 .. Size - 1
    /\ Count = IF Wrap(write_ptr) >= Wrap(read_ptr)
               THEN Wrap(write_ptr) - Wrap(read_ptr)
               ELSE Wrap(write_ptr) - Wrap(read_ptr) + Size

(* The writer's vector fits into the free space; what it has copied is      *)
(* there.                                                                   *)
WriterInv ==
    wpc # "idle" =>
        /\ Total(wvec) - Gone(wpc, wn) <= Size - 1 - Count
        /\ wpc = "copied" =>
              \A s \in Slots : (wvec.at <= s /\ s < wvec.at + wn) =>
                                  buf[s] = wr + (s - wvec.at)

(* The reader's vector holds unread bytes only; what it has copied are the  *)
(* oldest bytes.                                                            *)
ReaderInv ==
    rpc # "idle" =>
        /\ Total(rvec) - Gone(rpc, rn) <= Count
        /\ rpc = "copied" => dest = [i \in rd .. (rd + rn - 1) |-> i]

(* The unread bytes are in their slots. *)
ContentInv ==
    \A s \in Slots : Dist(s) < Count => buf[s] = rd + Dist(s)

InStep == PtrInv /\ WriterInv /\ ReaderInv /\ ContentInv

RingInv == RingTypeOK /\ ShapeInv /\ (~astray => InStep)

-----------------------------------------------------------------------------
(***************************************************************************)
(* The arithmetic.                                                         *)
(***************************************************************************)

LEMMA MaskIsWrap == \A x \in 0 .. Most : Mask(x) = Wrap(x)
<1> SUFFICES ASSUME NEW x \in 0 .. 2 * Size - 1 PROVE x % Size = Wrap(x)
  BY DEF Mask, Most
<1>1. Size \in Nat /\ Size >= 2
  BY SizeAssumption
<1>2. CASE x < Size
  BY <1>1, <1>2 DEF Wrap
<1>3. CASE x >= Size
  BY <1>1, <1>3 DEF Wrap
<1> QED BY <1>1, <1>2, <1>3

(* ringbuffer_read_space is the number of bytes inside, for a reader that   *)
(* is not misled, and never more than the buffer holds from the pointer on. *)
LEMMA ReadSpaceIsCount ==
  ASSUME RingTypeOK, PtrInv, rpc # "added", write_ptr - read_ptr < Size
  PROVE  ReadSpace(write_ptr, read_ptr) = Count
BY MaskIsWrap, SizeAssumption
   DEF ReadSpace, RingTypeOK, PtrInv, Wrap, Slots, Most

LEMMA ReadSpaceBound ==
  ASSUME RingTypeOK, rpc # "added"
  PROVE  /\ ReadSpace(write_ptr, read_ptr) \in 0 .. Most
         /\ read_ptr + ReadSpace(write_ptr, read_ptr) <= Most
BY MaskIsWrap, SizeAssumption DEF ReadSpace, RingTypeOK, Wrap, Slots, Most

(* ringbuffer_write_space is the number of bytes that still fit, for a      *)
(* writer that is not misled.                                               *)
LEMMA WriteSpaceIsRest ==
  ASSUME RingTypeOK, PtrInv, wpc # "added", read_ptr - write_ptr <= Size
  PROVE  WriteSpace(write_ptr, read_ptr) = Size - 1 - Count
BY MaskIsWrap, SizeAssumption
   DEF WriteSpace, RingTypeOK, PtrInv, Wrap, Slots, Most

LEMMA WriteSpaceBound ==
  ASSUME RingTypeOK, wpc # "added"
  PROVE  /\ WriteSpace(write_ptr, read_ptr) \in 0 .. Most
         /\ write_ptr + WriteSpace(write_ptr, read_ptr) <= Most
BY MaskIsWrap, SizeAssumption DEF WriteSpace, RingTypeOK, Wrap, Slots, Most

(* The vector that the two functions hand out. *)
LEMMA VectorFacts ==
  ASSUME NEW p \in Slots, NEW n \in 1 .. Most, p + n <= Most
  PROVE  /\ Vector(p, n) \in Vectors
         /\ GoodVector(Vector(p, n))
         /\ Vector(p, n).at = p
         /\ Total(Vector(p, n)) = n
BY MaskIsWrap, SizeAssumption
   DEF Vector, Vectors, GoodVector, Total, Slots, Wrap, Most

(* What is left of a vector is a vector again, from the masked pointer on. *)
LEMMA RestFacts ==
  ASSUME NEW v \in Vectors, GoodVector(v), NEW k \in 1 .. Total(v)
  PROVE  /\ Rest(v, k) \in Vectors
         /\ k < Total(v) => /\ GoodVector(Rest(v, k))
                            /\ Rest(v, k).at = Wrap(v.at + k)
                            /\ Total(Rest(v, k)) = Total(v) - k
BY SizeAssumption DEF Rest, Vectors, GoodVector, Total, Slots, Wrap

(* The d-th slot of a vector. *)
LEMMA SlotFacts ==
  ASSUME NEW v \in Vectors, GoodVector(v), NEW d \in 0 .. Total(v) - 1
  PROVE  SlotOf(v, d) = Wrap(v.at + d) /\ SlotOf(v, d) \in Slots
BY SizeAssumption DEF SlotOf, Vectors, GoodVector, Total, Slots, Wrap

-----------------------------------------------------------------------------
(***************************************************************************)
(* The initial state and the writer's steps.                               *)
(***************************************************************************)

LEMMA InitInv == RingInit => RingInv
<1> SUFFICES ASSUME RingInit PROVE RingInv
  OBVIOUS
<1>1. RingTypeOK /\ ShapeInv
  <2>1. astray \in BOOLEAN
    BY Zenon DEF RingInit
  <2>2. buf \in [Slots -> Int] /\ NoVector \in Vectors
    BY SizeAssumption DEF RingInit, Slots, Vectors, NoVector
  <2> QED BY <2>1, <2>2, SizeAssumption
          DEF RingInit, RingTypeOK, ShapeInv, Slots, Phases, Most
<1>2. PtrInv /\ WriterInv /\ ReaderInv
  BY SizeAssumption DEF RingInit, PtrInv, WriterInv, ReaderInv, Count, Wrap
<1>3. ContentInv
  BY SizeAssumption DEF RingInit, ContentInv, Count, Dist, Wrap, Slots
<1> QED BY <1>1, <1>2, <1>3 DEF RingInv, InStep

(* A vector of at most cnt bytes, and at least one, of m possible ones. *)
LEMMA LeastFacts ==
  ASSUME NEW cnt \in Nat, NEW m \in 0 .. Most, Least(cnt, m) > 0
  PROVE  Least(cnt, m) \in 1 .. Most /\ Least(cnt, m) <= m
BY SizeAssumption DEF Least, Most

LEMMA GetWriteVectorInv ==
  ASSUME RingInv, NEW cnt \in Nat, GetWriteVector(cnt)
  PROVE  RingInv'
<1> DEFINE n == Least(cnt, WriteSpace(write_ptr, read_ptr))
<1>1. /\ wpc \in {"idle", "have"} /\ n > 0 /\ wpc' = "have"
      /\ wvec' = Vector(write_ptr, n)
      /\ astray' = (astray \/ read_ptr - write_ptr > Size)
      /\ UNCHANGED <<buf, write_ptr, wn, wr, read_ptr, rpc, rvec, rn, dest, rd,
                     last>>
  BY DEF GetWriteVector, readerVars
<1>2. /\ n \in 1 .. Most /\ n <= WriteSpace(write_ptr, read_ptr)
      /\ write_ptr + n <= Most /\ write_ptr \in Slots
  <2>1. /\ WriteSpace(write_ptr, read_ptr) \in 0 .. Most
        /\ write_ptr + WriteSpace(write_ptr, read_ptr) <= Most
    BY <1>1, WriteSpaceBound DEF RingInv
  <2>2. n \in 1 .. Most /\ n <= WriteSpace(write_ptr, read_ptr)
    BY <1>1, <2>1, LeastFacts
  <2>3. write_ptr \in Slots
    BY <1>1 DEF RingInv, RingTypeOK
  <2> HIDE DEF n
  <2> QED BY <2>1, <2>2, <2>3, SizeAssumption DEF Slots, Most
<1> HIDE DEF n
<1>3. /\ wvec' \in Vectors /\ GoodVector(wvec') /\ wvec'.at = write_ptr
      /\ Total(wvec') = n
  BY <1>1, <1>2, VectorFacts
<1>4. RingTypeOK' /\ ShapeInv'
  BY <1>1, <1>2, <1>3 DEF RingInv, RingTypeOK, ShapeInv, Phases, Gone, Slots
<1>5. ASSUME ~astray' PROVE InStep'
  <2>1. InStep /\ ~(read_ptr - write_ptr > Size) /\ RingTypeOK
    BY <1>1, <1>5 DEF RingInv
  <2>2. read_ptr - write_ptr <= Size
    BY <2>1, SizeAssumption DEF RingTypeOK, Most
  <2>3. WriteSpace(write_ptr, read_ptr) = Size - 1 - Count
    BY <1>1, <2>1, <2>2, WriteSpaceIsRest DEF InStep
  <2>4. PtrInv' /\ ContentInv' /\ ReaderInv'
    BY <1>1, <2>1 DEF InStep, PtrInv, ContentInv, ReaderInv, Count, Dist, Gone
  <2>5. WriterInv'
    <3>1. Count' = Count /\ Total(wvec') - 0 <= Size - 1 - Count
      BY <1>1, <1>2, <1>3, <2>3 DEF Count, Most
    <3> QED BY <1>1, <3>1 DEF WriterInv, Gone
  <2> QED BY <2>4, <2>5 DEF InStep
<1> QED BY <1>4, <1>5 DEF RingInv

(* How far the slots behind the write pointer lie behind the oldest byte. *)
LEMMA Ahead ==
  ASSUME NEW r \in Slots, NEW w \in Slots, NEW n \in 0 .. Size - 1,
         n = IF w >= r THEN w - r ELSE w - r + Size,
         NEW s \in Slots
  PROVE  LET x == IF s >= r THEN s - r ELSE s - r + Size IN
         /\ (w <= s /\ s - w < Size - n) => x = n + (s - w)
         /\ (x >= n /\ w <= s) => x = n + (s - w)
         /\ x \in 0 .. Size - 1
         /\ (x >= n /\ s < w) => x = n + (s - w) + Size
BY SizeAssumption DEF Slots

LEMMA DistAhead ==
  ASSUME RingInv, ~astray, wpc # "added", NEW s \in Slots
  PROVE  /\ Dist(s) \in 0 .. Size - 1
         /\ (write_ptr <= s /\ s - write_ptr < Size - Count)
                => Dist(s) = Count + (s - write_ptr)
         /\ (Dist(s) >= Count /\ write_ptr <= s)
                => Dist(s) = Count + (s - write_ptr)
         /\ (Dist(s) >= Count /\ s < write_ptr)
                => Dist(s) = Count + (s - write_ptr) + Size
<1>1. /\ write_ptr \in Slots /\ read_ptr \in 0 .. Most
      /\ Count \in 0 .. Size - 1
      /\ Count = IF Wrap(write_ptr) >= Wrap(read_ptr)
                 THEN Wrap(write_ptr) - Wrap(read_ptr)
                 ELSE Wrap(write_ptr) - Wrap(read_ptr) + Size
  BY DEF RingInv, RingTypeOK, InStep, PtrInv
<1>2. Wrap(write_ptr) = write_ptr /\ Wrap(read_ptr) \in Slots
  BY <1>1, SizeAssumption DEF Wrap, Slots, Most
<1> QED BY <1>1, <1>2, Ahead DEF Dist

(* The numbers behind the writer's part of the invariant. *)
LEMMA WriterShape ==
  ASSUME RingInv, wpc \in {"have", "copied"}
  PROVE  /\ wvec \in Vectors /\ GoodVector(wvec)
         /\ wvec.at = write_ptr /\ write_ptr \in Slots
         /\ wvec.len0 \in 1 .. Size /\ wvec.len1 \in 0 .. Size
         /\ wvec.at + wvec.len0 <= Size
         /\ wpc = "copied" => wn \in 1 .. wvec.len0
<1>1. wvec \in Vectors /\ write_ptr \in Slots
  BY DEF RingInv, RingTypeOK
<1>2. /\ GoodVector(wvec) /\ write_ptr = wvec.at + 0
      /\ wpc = "copied" => wn \in 1 .. wvec.len0
  BY DEF RingInv, ShapeInv, Gone
<1>3. /\ wvec.at \in Slots /\ wvec.len0 \in 0 .. Size
      /\ wvec.len1 \in 0 .. Size
  BY <1>1 DEF Vectors
<1> QED BY <1>1, <1>2, <1>3, SizeAssumption DEF GoodVector, Slots

LEMMA WriterNumbers ==
  ASSUME RingInv, ~astray, wpc \in {"have", "copied"}
  PROVE  /\ Count \in 0 .. Size - 1
         /\ wvec.len0 + wvec.len1 <= Size - 1 - Count
<1>1. InStep
  BY DEF RingInv
<1>2. Count \in 0 .. Size - 1 /\ Total(wvec) - 0 <= Size - 1 - Count
  BY <1>1 DEF InStep, PtrInv, WriterInv, Gone
<1> QED BY <1>2, WriterShape, SizeAssumption DEF Total

LEMMA FillInv ==
  ASSUME RingInv, NEW k \in 1 .. Size, Fill(k)
  PROVE  RingInv'
<1>1. /\ wpc = "have" /\ k \in 1 .. wvec.len0
      /\ buf' = [s \in Slots |-> IF s \in wvec.at .. (wvec.at + k - 1)
                                 THEN wr + (s - wvec.at) ELSE buf[s]]
      /\ wn' = k /\ wpc' = "copied"
      /\ UNCHANGED <<write_ptr, wvec, wr, read_ptr, rpc, rvec, rn, dest, rd,
                     last, astray>>
  BY DEF Fill, readerVars
<1>2. RingTypeOK'
  <2>1. buf' \in [Slots -> Int]
    BY <1>1, WriterShape, SizeAssumption DEF RingInv, RingTypeOK, Slots
  <2>2. k \in 0 .. Size /\ "copied" \in Phases
    BY SizeAssumption DEF Phases
  <2> QED BY <1>1, <2>1, <2>2 DEF RingInv, RingTypeOK
<1>3. ShapeInv'
  BY <1>1 DEF RingInv, ShapeInv, Gone
<1>4. ASSUME ~astray' PROVE InStep'
  <2>1. InStep /\ ~astray
    BY <1>1, <1>4 DEF RingInv
  <2>2. PtrInv' /\ ReaderInv'
    BY <1>1, <2>1 DEF InStep, PtrInv, ReaderInv, Count, Gone
  <2>3. WriterInv'
    <3>1. Total(wvec) - 0 <= Size - 1 - Count
      BY <1>1, <2>1 DEF InStep, WriterInv, Gone
    <3>2. ASSUME NEW s \in Slots, wvec.at <= s, s < wvec.at + k
          PROVE  buf'[s] = wr + (s - wvec.at)
      BY <1>1, <3>2, WriterShape, SizeAssumption DEF Slots
    <3>3. Count' = Count
      BY <1>1 DEF Count
    <3> QED BY <1>1, <3>1, <3>2, <3>3 DEF WriterInv, Gone
  <2>4. ContentInv'
    <3> SUFFICES ASSUME NEW s \in Slots, Dist(s) < Count
                 PROVE  buf'[s] = rd + Dist(s)
      BY <1>1 DEF ContentInv, Count, Dist
    <3>1. ~(s \in wvec.at .. (wvec.at + k - 1))
      <4>1. /\ wvec.at = write_ptr /\ write_ptr \in Int /\ wvec.len0 \in Int
            /\ Count \in Int /\ wvec.len1 >= 0 /\ wvec.len1 \in Int
            /\ wvec.len0 + wvec.len1 <= Size - 1 - Count
        BY <1>1, <2>1, WriterShape, WriterNumbers, SizeAssumption DEF Slots
      <4>2. (write_ptr <= s /\ s - write_ptr < Size - Count)
               => Dist(s) = Count + (s - write_ptr)
        BY <1>1, <2>1, DistAhead
      <4>3. s \in Int /\ Size \in Int
        BY SizeAssumption DEF Slots
      <4> QED BY <1>1, <4>1, <4>2, <4>3
    <3> QED BY <1>1, <2>1, <3>1 DEF InStep, ContentInv
  <2> QED BY <2>2, <2>3, <2>4 DEF InStep
<1> QED BY <1>2, <1>3, <1>4 DEF RingInv

LEMMA WriteAdvanceInv ==
  ASSUME RingInv, WriteAdvance
  PROVE  /\ RingInv'
         /\ ~astray => wn \in 1 .. Size - 1 /\ wr + wn - rd <= Size - 1
<1>1. /\ wpc = "copied"
      /\ write_ptr' = write_ptr + wn /\ wr' = wr + wn /\ wpc' = "added"
      /\ UNCHANGED <<buf, wvec, wn, read_ptr, rpc, rvec, rn, dest, rd, last,
                     astray>>
  BY DEF WriteAdvance, readerVars
<1>2. /\ wn \in 1 .. wvec.len0 /\ wvec.at = write_ptr /\ write_ptr \in Slots
      /\ GoodVector(wvec) /\ wvec.len0 \in 1 .. Size
      /\ write_ptr + wn <= Size /\ wvec.len1 \in 0 .. Size
  BY <1>1, WriterShape, SizeAssumption DEF Slots
<1>3. RingTypeOK'
  BY <1>1, <1>2, SizeAssumption DEF RingInv, RingTypeOK, Phases, Slots, Most
<1>4. ShapeInv'
  BY <1>1, <1>2, SizeAssumption DEF RingInv, ShapeInv, Gone, Slots
<1>5. ASSUME ~astray
      PROVE  InStep' /\ wn \in 1 .. Size - 1 /\ wr + wn - rd <= Size - 1
  <2>1. InStep
    BY <1>5 DEF RingInv
  <2>2. /\ wn \in 1 .. Size - 1 /\ Count + wn <= Size - 1
        /\ Count' = Count + wn /\ Count \in 0 .. Size - 1
    BY <1>1, <1>2, <1>5, WriterNumbers, SizeAssumption
       DEF RingInv, RingTypeOK, Count
  <2>3. PtrInv'
    <3>1. read_ptr \in 0 .. Most /\ write_ptr \in Slots
      BY <1>2 DEF RingInv, RingTypeOK
    <3>2. Wrap(read_ptr) \in Slots
      BY <3>1, SizeAssumption DEF Wrap, Slots, Most
    <3>3. Wrap(write_ptr) = write_ptr
      BY <3>1, SizeAssumption DEF Wrap, Slots
    <3>4. Wrap(write_ptr + wn) = IF write_ptr + wn = Size THEN 0
                                 ELSE write_ptr + wn
      BY <1>2, <2>2, <3>1, SizeAssumption DEF Wrap, Slots
    <3>5. /\ Wrap(read_ptr)' = Wrap(read_ptr)
          /\ Wrap(write_ptr)' = Wrap(write_ptr + wn)
      BY <1>1 DEF Wrap
    <3>6. Count = IF write_ptr >= Wrap(read_ptr)
                  THEN write_ptr - Wrap(read_ptr)
                  ELSE write_ptr - Wrap(read_ptr) + Size
      BY <2>1, <3>3 DEF InStep, PtrInv
    <3> HIDE DEF Wrap
    <3> QED BY <1>2, <2>2, <3>1, <3>2, <3>4, <3>5, <3>6, SizeAssumption
            DEF PtrInv, Slots
  <2>4. ReaderInv'
    <3>1. Total(rvec) \in Int /\ rn \in Int /\ Count \in Int
      BY <2>2, SizeAssumption DEF RingInv, RingTypeOK, Total, Vectors, Most
    <3>2. Gone(rpc, rn) \in Int
      BY <3>1 DEF Gone
    <3> QED BY <1>1, <2>1, <2>2, <3>1, <3>2 DEF InStep, ReaderInv, Gone
  <2>5. WriterInv'
    <3>1. Total(wvec) <= Size - 1 - Count /\ Total(wvec) \in Int
      BY <1>1, <1>2, <1>5, WriterNumbers, SizeAssumption DEF Total
    <3> QED BY <1>1, <2>2, <3>1, SizeAssumption DEF WriterInv, Gone
  <2>6. ContentInv'
    <3> SUFFICES ASSUME NEW s \in Slots, Dist(s) < Count + wn
                 PROVE  buf[s] = rd + Dist(s)
      BY <1>1, <2>2 DEF ContentInv, Dist
    <3>1. CASE Dist(s) < Count
      BY <2>1, <3>1 DEF InStep, ContentInv
    <3>2. CASE Dist(s) >= Count
      <4>1. /\ wvec.at <= s /\ s < wvec.at + wn
            /\ Dist(s) = Count + (s - wvec.at)
        <5>1. /\ write_ptr \in Int /\ Count \in Int
              /\ write_ptr < Size /\ write_ptr >= 0
          BY <1>2, <2>2, SizeAssumption DEF Slots
        <5>2. s \in Int /\ Size \in Int /\ s >= 0 /\ wn \in Int
          BY <2>2, SizeAssumption DEF Slots
        <5>3. /\ write_ptr <= s => Dist(s) = Count + (s - write_ptr)
              /\ s < write_ptr => Dist(s) = Count + (s - write_ptr) + Size
          BY <1>1, <1>5, <3>2, DistAhead
        <5> QED BY <1>2, <5>1, <5>2, <5>3
      <4>2. buf[s] = wr + (s - wvec.at)
        BY <1>1, <2>1, <4>1 DEF InStep, WriterInv
      <4> QED BY <1>2, <4>1, <4>2 DEF Count, RingInv, RingTypeOK, Slots
    <3> QED BY <1>1, <1>5, <2>2, <3>1, <3>2, DistAhead
  <2> QED BY <2>1, <2>2, <2>3, <2>4, <2>5, <2>6
          DEF InStep, RingInv, RingTypeOK, Count
<1> QED BY <1>1, <1>3, <1>4, <1>5 DEF RingInv

LEMMA WriteMaskInv ==
  ASSUME RingInv, WriteMask
  PROVE  RingInv'
<1>1. /\ wpc = "added"
      /\ write_ptr' = Mask(write_ptr) /\ wvec' = Rest(wvec, wn) /\ wn' = 0
      /\ wpc' = IF wvec.len0 + wvec.len1 = wn THEN "idle" ELSE "have"
      /\ UNCHANGED <<buf, wr, read_ptr, rpc, rvec, rn, dest, rd, last, astray>>
  BY DEF WriteMask, readerVars
<1>2. write_ptr' = Wrap(write_ptr)
  BY <1>1, MaskIsWrap DEF RingInv, RingTypeOK
<1>3. /\ wvec \in Vectors /\ GoodVector(wvec) /\ wn \in 1 .. Total(wvec)
      /\ write_ptr = wvec.at + wn
  BY <1>1 DEF RingInv, RingTypeOK, ShapeInv, Gone, Total, Vectors
<1>4. /\ wvec' \in Vectors
      /\ wpc' # "idle" => /\ GoodVector(wvec') /\ wvec'.at = write_ptr'
                          /\ Total(wvec') = Total(wvec) - wn
  BY <1>1, <1>2, <1>3, RestFacts, SizeAssumption DEF Total, Vectors
<1>5. RingTypeOK'
  BY <1>1, <1>2, <1>4, SizeAssumption
     DEF RingInv, RingTypeOK, Phases, Slots, Wrap, Most
<1>6. ShapeInv'
  <2>1. wvec'.at \in Int
    BY <1>4, SizeAssumption DEF Vectors, Slots
  <2> QED BY <1>1, <1>4, <2>1 DEF RingInv, ShapeInv, Gone
<1>7. ASSUME ~astray' PROVE InStep'
  <2>1. InStep
    BY <1>1, <1>7 DEF RingInv
  <2>2. PtrInv'
    <3>1. Wrap(write_ptr') = Wrap(write_ptr)
      BY <1>2, SizeAssumption DEF RingInv, RingTypeOK, Wrap, Most
    <3> QED BY <1>1, <2>1, <3>1 DEF InStep, PtrInv, Count, Wrap
  <2>3. ReaderInv' /\ ContentInv'
    BY <1>1, <2>1 DEF InStep, ReaderInv, ContentInv, Count, Dist, Gone
  <2>4. WriterInv'
    <3>1. Total(wvec) \in Int /\ wn \in Int /\ Count \in Int
      BY <1>3, <2>1, SizeAssumption
         DEF Total, Vectors, InStep, PtrInv
    <3>2. Total(wvec) - wn <= Size - 1 - Count /\ Count' = Count
      BY <1>1, <2>1 DEF InStep, WriterInv, Gone, Count
    <3> QED BY <1>1, <1>4, <3>1, <3>2, SizeAssumption DEF WriterInv, Gone
  <2> QED BY <2>2, <2>3, <2>4 DEF InStep
<1> QED BY <1>5, <1>6, <1>7 DEF RingInv

-----------------------------------------------------------------------------
(***************************************************************************)
(* The reader's steps and the reset.                                       *)
(***************************************************************************)

LEMMA GetReadVectorInv ==
  ASSUME RingInv, NEW cnt \in Nat, GetReadVector(cnt)
  PROVE  RingInv'
<1> DEFINE n == Least(cnt, ReadSpace(write_ptr, read_ptr))
<1>1. /\ rpc \in {"idle", "have"} /\ n > 0 /\ rpc' = "have"
      /\ rvec' = Vector(read_ptr, n)
      /\ astray' = (astray \/ write_ptr - read_ptr >= Size)
      /\ UNCHANGED <<buf, read_ptr, rn, dest, rd, last, write_ptr, wpc, wvec,
                     wn, wr>>
  BY DEF GetReadVector, writerVars
<1>2. /\ n \in 1 .. Most /\ n <= ReadSpace(write_ptr, read_ptr)
      /\ read_ptr + n <= Most /\ read_ptr \in Slots
  <2>1. /\ ReadSpace(write_ptr, read_ptr) \in 0 .. Most
        /\ read_ptr + ReadSpace(write_ptr, read_ptr) <= Most
    BY <1>1, ReadSpaceBound DEF RingInv
  <2>2. n \in 1 .. Most /\ n <= ReadSpace(write_ptr, read_ptr)
    BY <1>1, <2>1, LeastFacts
  <2>3. read_ptr \in Slots
    BY <1>1 DEF RingInv, RingTypeOK
  <2> HIDE DEF n
  <2> QED BY <2>1, <2>2, <2>3, SizeAssumption DEF Slots, Most
<1> HIDE DEF n
<1>3. /\ rvec' \in Vectors /\ GoodVector(rvec') /\ rvec'.at = read_ptr
      /\ Total(rvec') = n
  BY <1>1, <1>2, VectorFacts
<1>4. RingTypeOK' /\ ShapeInv'
  BY <1>1, <1>2, <1>3 DEF RingInv, RingTypeOK, ShapeInv, Phases, Gone, Slots
<1>5. ASSUME ~astray' PROVE InStep'
  <2>1. InStep /\ ~(write_ptr - read_ptr >= Size) /\ RingTypeOK
    BY <1>1, <1>5 DEF RingInv
  <2>2. write_ptr - read_ptr < Size
    BY <2>1, SizeAssumption DEF RingTypeOK, Most
  <2>3. ReadSpace(write_ptr, read_ptr) = Count
    BY <1>1, <2>1, <2>2, ReadSpaceIsCount DEF InStep
  <2>4. PtrInv' /\ ContentInv' /\ WriterInv'
    BY <1>1, <2>1 DEF InStep, PtrInv, ContentInv, WriterInv, Count, Dist, Gone
  <2>5. ReaderInv'
    <3>1. Count' = Count /\ Total(rvec') - 0 <= Count
      BY <1>1, <1>2, <1>3, <2>3 DEF Count, Most
    <3> QED BY <1>1, <3>1 DEF ReaderInv, Gone
  <2> QED BY <2>4, <2>5 DEF InStep
<1> QED BY <1>4, <1>5 DEF RingInv

(* The numbers behind the reader's part of the invariant. *)
LEMMA ReaderShape ==
  ASSUME RingInv, rpc \in {"have", "copied"}
  PROVE  /\ rvec \in Vectors /\ GoodVector(rvec)
         /\ rvec.at = read_ptr /\ read_ptr \in Slots
         /\ rvec.len0 \in 1 .. Size /\ rvec.len1 \in 0 .. Size
         /\ Total(rvec) = rvec.len0 + rvec.len1
         /\ Total(rvec) \in 1 .. Most
         /\ read_ptr + Total(rvec) <= Most
         /\ rpc = "copied" => rn \in 1 .. Total(rvec)
<1>1. rvec \in Vectors /\ read_ptr \in Slots
  BY DEF RingInv, RingTypeOK
<1>2. /\ GoodVector(rvec) /\ read_ptr = rvec.at + 0
      /\ rpc = "copied" => rn \in 1 .. Total(rvec)
  BY DEF RingInv, ShapeInv, Gone
<1>3. /\ rvec.at \in Slots /\ rvec.len0 \in 0 .. Size
      /\ rvec.len1 \in 0 .. Size
  BY <1>1 DEF Vectors
<1>4. Total(rvec) = rvec.len0 + rvec.len1
  BY DEF Total
<1> QED BY <1>1, <1>2, <1>3, <1>4, SizeAssumption DEF GoodVector, Slots, Most

LEMMA ReaderNumbers ==
  ASSUME RingInv, ~astray, rpc \in {"have", "copied"}
  PROVE  Count \in 0 .. Size - 1 /\ Total(rvec) <= Count
<1>1. InStep
  BY DEF RingInv
<1>2. Count \in 0 .. Size - 1 /\ Total(rvec) - 0 <= Count
  BY <1>1 DEF InStep, PtrInv, ReaderInv, Gone
<1> QED BY <1>2, ReaderShape, SizeAssumption

(* What the reader copies are numbers, and the oldest ones if it was not    *)
(* misled.                                                                  *)
LEMMA TakeInv ==
  ASSUME RingInv, NEW k \in Nat, Take(k)
  PROVE  /\ RingInv'
         /\ \A i \in rd .. (rd + k - 1) : dest'[i] \in Int
<1>1. /\ rpc = "have" /\ k \in 1 .. Total(rvec)
      /\ dest' = [i \in rd .. (rd + k - 1) |-> buf[SlotOf(rvec, i - rd)]]
      /\ rn' = k /\ rpc' = "copied"
      /\ UNCHANGED <<buf, read_ptr, rvec, rd, last, write_ptr, wpc, wvec, wn,
                     wr, astray>>
  BY DEF Take, writerVars, Total
<1>2. RingTypeOK'
  BY <1>1, ReaderShape, SizeAssumption DEF RingInv, RingTypeOK, Phases, Most
<1>3. ShapeInv'
  BY <1>1 DEF RingInv, ShapeInv, Gone
<1>4. ASSUME NEW i \in rd .. (rd + k - 1)
      PROVE  /\ i - rd \in 0 .. Total(rvec) - 1 /\ rd + (i - rd) = i
             /\ SlotOf(rvec, i - rd) = Wrap(read_ptr + (i - rd))
             /\ SlotOf(rvec, i - rd) \in Slots
  <2>1. i - rd \in 0 .. Total(rvec) - 1 /\ rd + (i - rd) = i
    BY <1>1, ReaderShape, SizeAssumption DEF RingInv, RingTypeOK, Most
  <2> QED BY <1>1, <2>1, ReaderShape, SlotFacts
<1>5. ASSUME ~astray' PROVE InStep'
  <2>1. InStep /\ ~astray
    BY <1>1, <1>5 DEF RingInv
  <2>2. PtrInv' /\ WriterInv' /\ ContentInv'
    BY <1>1, <2>1 DEF InStep, PtrInv, WriterInv, ContentInv, Count, Dist, Gone
  <2>3. ReaderInv'
    <3>1. ASSUME NEW i \in rd .. (rd + k - 1)
          PROVE  buf[SlotOf(rvec, i - rd)] = i
      <4> DEFINE d == i - rd
      <4>1. /\ d \in 0 .. Total(rvec) - 1 /\ rd + d = i
            /\ SlotOf(rvec, d) = Wrap(read_ptr + d)
            /\ SlotOf(rvec, d) \in Slots
        BY <1>4
      <4> HIDE DEF d
      <4>2. d < Count /\ d \in 0 .. Size - 1
        BY <1>1, <2>1, <4>1, ReaderShape, ReaderNumbers, SizeAssumption
           DEF Most
      <4>3. Dist(SlotOf(rvec, d)) = d
        BY <1>1, <4>1, <4>2, ReaderShape, SizeAssumption DEF Dist, Wrap, Slots
      <4> QED BY <2>1, <4>1, <4>2, <4>3 DEF InStep, ContentInv, d
    <3>2. dest' = [i \in rd .. (rd + k - 1) |-> i]
      BY <1>1, <3>1
    <3>3. Count' = Count /\ Total(rvec) - 0 <= Count
      BY <1>1, <2>1 DEF Count, InStep, ReaderInv, Gone
    <3> QED BY <1>1, <3>2, <3>3 DEF ReaderInv, Gone
  <2> QED BY <2>2, <2>3 DEF InStep
<1>6. ASSUME NEW i \in rd .. (rd + k - 1) PROVE dest'[i] \in Int
  BY <1>1, <1>4 DEF RingInv, RingTypeOK
<1> QED BY <1>2, <1>3, <1>5, <1>6 DEF RingInv

LEMMA ReadAdvanceInv ==
  ASSUME RingInv, ReadAdvance
  PROVE  /\ RingInv'
         /\ ~astray => /\ rn \in 1 .. Size - 1 /\ rd + rn <= wr
                       /\ dest = [i \in rd .. (rd + rn - 1) |-> i]
<1>1. /\ rpc = "copied"
      /\ read_ptr' = read_ptr + rn /\ rd' = rd + rn /\ rpc' = "added"
      /\ UNCHANGED <<buf, rvec, rn, dest, write_ptr, wpc, wvec, wn, wr, astray>>
  BY DEF ReadAdvance, writerVars
<1>2. /\ rn \in 1 .. Total(rvec) /\ rn \in 1 .. Most /\ GoodVector(rvec)
      /\ rvec.at = read_ptr /\ read_ptr \in Slots /\ read_ptr + rn <= Most
      /\ Total(rvec) \in 1 .. Most
  BY <1>1, ReaderShape, SizeAssumption DEF Slots, Most
<1>3. RingTypeOK'
  BY <1>1, <1>2, SizeAssumption DEF RingInv, RingTypeOK, Phases, Slots, Most
<1>4. ShapeInv'
  BY <1>1, <1>2, SizeAssumption DEF RingInv, ShapeInv, Gone, Slots
<1>5. ASSUME ~astray
      PROVE  /\ InStep' /\ rn \in 1 .. Size - 1 /\ rd + rn <= wr
             /\ dest = [i \in rd .. (rd + rn - 1) |-> i]
  <2>1. InStep
    BY <1>5 DEF RingInv
  <2>2. dest = [i \in rd .. (rd + rn - 1) |-> i]
    BY <1>1, <2>1 DEF InStep, ReaderInv
  <2>3. /\ rn \in 1 .. Size - 1 /\ rn <= Count /\ Count' = Count - rn
        /\ Count \in 0 .. Size - 1 /\ Total(rvec) <= Count
    BY <1>1, <1>2, <1>5, ReaderNumbers, SizeAssumption
       DEF Count, RingInv, RingTypeOK, Most
  <2>4. /\ Wrap(read_ptr) = read_ptr /\ Wrap(read_ptr)' = Wrap(read_ptr + rn)
        /\ Wrap(read_ptr + rn) = IF read_ptr + rn < Size THEN read_ptr + rn
                                 ELSE read_ptr + rn - Size
    BY <1>1, <1>2, <2>3, SizeAssumption DEF Wrap, Slots
  <2>5. PtrInv'
    <3>1. Wrap(write_ptr) \in Slots /\ Wrap(write_ptr)' = Wrap(write_ptr)
      BY <1>1, SizeAssumption DEF RingInv, RingTypeOK, Wrap, Slots, Most
    <3>2. Count = IF Wrap(write_ptr) >= read_ptr
                  THEN Wrap(write_ptr) - read_ptr
                  ELSE Wrap(write_ptr) - read_ptr + Size
      BY <2>1, <2>4 DEF InStep, PtrInv
    <3> HIDE DEF Wrap
    <3> QED BY <1>2, <2>3, <2>4, <3>1, <3>2, SizeAssumption DEF PtrInv, Slots
  <2>6. WriterInv'
    <3>1. Total(wvec) \in Int /\ wn \in Int /\ Gone(wpc, wn) \in Int
      BY SizeAssumption DEF RingInv, RingTypeOK, Total, Vectors, Gone
    <3> QED BY <1>1, <2>1, <2>3, <3>1, SizeAssumption
            DEF InStep, WriterInv, Gone
  <2>7. ReaderInv'
    BY <1>1, <1>2, <2>3 DEF ReaderInv, Gone, Most
  <2>8. ContentInv'
    <3> SUFFICES ASSUME NEW s \in Slots, Dist(s)' < Count - rn
                 PROVE  buf[s] = rd + rn + Dist(s)'
      BY <1>1, <2>3 DEF ContentInv
    <3>1. Dist(s) = Dist(s)' + rn /\ Dist(s)' \in Int
      BY <1>1, <1>2, <2>3, <2>4, SizeAssumption DEF Dist, Slots
    <3>2. Dist(s) < Count
      BY <2>3, <3>1
    <3> QED BY <2>1, <2>3, <3>1, <3>2
            DEF RingInv, InStep, ContentInv, RingTypeOK
  <2>9. rd + rn <= wr
    BY <2>3 DEF Count, RingInv, RingTypeOK
  <2> QED BY <2>2, <2>3, <2>5, <2>6, <2>7, <2>8, <2>9 DEF InStep
<1> QED BY <1>1, <1>3, <1>4, <1>5 DEF RingInv

LEMMA ReadMaskInv ==
  ASSUME RingInv, ReadMask
  PROVE  RingInv'
<1>1. /\ rpc = "added"
      /\ read_ptr' = Mask(read_ptr) /\ rvec' = Rest(rvec, rn) /\ rn' = 0
      /\ rpc' = IF rvec.len0 + rvec.len1 = rn THEN "idle" ELSE "have"
      /\ UNCHANGED <<buf, rd, last, write_ptr, wpc, wvec, wn, wr, astray>>
  BY DEF ReadMask, writerVars
<1>2. read_ptr' = Wrap(read_ptr)
  BY <1>1, MaskIsWrap DEF RingInv, RingTypeOK
<1>3. /\ rvec \in Vectors /\ GoodVector(rvec) /\ rn \in 1 .. Total(rvec)
      /\ read_ptr = rvec.at + rn
  BY <1>1 DEF RingInv, RingTypeOK, ShapeInv, Gone
<1>4. /\ rvec' \in Vectors
      /\ rpc' # "idle" => /\ GoodVector(rvec') /\ rvec'.at = read_ptr'
                          /\ Total(rvec') = Total(rvec) - rn
  <2>1. rpc' # "idle" => rn < Total(rvec)
    BY <1>1, <1>3, SizeAssumption DEF Total, Vectors
  <2> QED BY <1>1, <1>2, <1>3, <2>1, RestFacts
<1>5. RingTypeOK'
  BY <1>1, <1>2, <1>4, SizeAssumption
     DEF RingInv, RingTypeOK, Phases, Slots, Wrap, Most
<1>6. ShapeInv'
  <2>1. rvec'.at \in Int
    BY <1>4, SizeAssumption DEF Vectors, Slots
  <2> QED BY <1>1, <1>4, <2>1 DEF RingInv, ShapeInv, Gone
<1>7. ASSUME ~astray' PROVE InStep'
  <2>1. InStep
    BY <1>1, <1>7 DEF RingInv
  <2>2. Wrap(read_ptr') = Wrap(read_ptr) /\ Count' = Count
    BY <1>1, <1>2, SizeAssumption DEF RingInv, RingTypeOK, Wrap, Most, Count
  <2>3. PtrInv'
    BY <1>1, <2>1, <2>2 DEF InStep, PtrInv, Wrap
  <2>4. WriterInv'
    BY <1>1, <2>1 DEF InStep, WriterInv, Count, Gone
  <2>5. ContentInv'
    BY <1>1, <2>1, <2>2 DEF InStep, ContentInv, Dist
  <2>6. ReaderInv'
    <3>1. Total(rvec) \in Int /\ rn \in Int /\ Count \in Int
      BY <1>3, <2>1, SizeAssumption DEF Total, Vectors, InStep, PtrInv
    <3>2. Total(rvec) - rn <= Count
      BY <1>1, <2>1 DEF InStep, ReaderInv, Gone
    <3> QED BY <1>1, <1>4, <2>2, <3>1, <3>2 DEF ReaderInv, Gone
  <2> QED BY <2>3, <2>4, <2>5, <2>6 DEF InStep
<1> QED BY <1>5, <1>6, <1>7 DEF RingInv

LEMMA ResetInv ==
  ASSUME RingInv, Reset \/ Recreate
  PROVE  RingInv'
<1>1. /\ read_ptr' = 0 /\ write_ptr' = 0 /\ wpc' = "idle" /\ rpc' = "idle"
      /\ wvec' = NoVector /\ rvec' = NoVector /\ rd' = wr
      /\ wn' = 0 /\ rn' = 0 /\ wr' = wr /\ astray' = FALSE
      /\ buf' = buf \/ buf' = [s \in Slots |-> -1]
  BY DEF Reset, Recreate, Emptied
<1>2. RingTypeOK' /\ ShapeInv'
  <2>1. astray' \in BOOLEAN
    BY <1>1, Zenon
  <2>2. buf' \in [Slots -> Int] /\ NoVector \in Vectors
    BY <1>1, SizeAssumption DEF RingInv, RingTypeOK, Slots, Vectors, NoVector
  <2> QED BY <1>1, <2>1, <2>2, SizeAssumption
          DEF RingInv, RingTypeOK, ShapeInv, Phases, Slots, Most
<1>3. Count' = 0
  BY <1>1 DEF Count, RingInv, RingTypeOK
<1>4. PtrInv' /\ WriterInv' /\ ReaderInv'
  BY <1>1, <1>3, SizeAssumption DEF PtrInv, WriterInv, ReaderInv, Wrap
<1>5. ContentInv'
  BY <1>1, <1>3, SizeAssumption DEF ContentInv, Dist, Wrap, Slots
<1> QED BY <1>2, <1>4, <1>5 DEF RingInv, InStep

-----------------------------------------------------------------------------
(***************************************************************************)
(* The theorems.                                                           *)
(***************************************************************************)

LEMMA RingNextInv ==
  ASSUME RingInv, [RingNext]_ringVars
  PROVE  RingInv'
<1> \A k \in 1 .. Most : k \in Nat
  BY SizeAssumption DEF Most
<1>1. CASE Writer
  BY <1>1, GetWriteVectorInv, FillInv, WriteAdvanceInv, WriteMaskInv DEF Writer
<1>2. CASE Reader
  BY <1>2, GetReadVectorInv, TakeInv, ReadAdvanceInv, ReadMaskInv DEF Reader
<1>3. CASE Reset \/ Recreate
  BY <1>3, ResetInv
<1>4. CASE UNCHANGED ringVars
  <2>1. RingTypeOK' /\ ShapeInv'
    BY <1>4 DEF ringVars, RingInv, RingTypeOK, ShapeInv, Gone
  <2>2. ~astray' => InStep'
    BY <1>4 DEF ringVars, RingInv, InStep, PtrInv, WriterInv, ReaderInv,
       ContentInv, Count, Dist, Gone
  <2> QED BY <2>1, <2>2 DEF RingInv
<1> QED BY <1>1, <1>2, <1>3, <1>4 DEF RingNext

(* A slot with an unread byte is less than Count behind the oldest one. *)
LEMMA UnreadSlots ==
  ASSUME RingInv, ~astray, NEW s \in Unread
  PROVE  s \in Slots /\ Dist(s) < Count
<1>1. PICK d \in 0 .. (wr - rd - 1) : s = Mask(Mask(read_ptr) + d)
  BY DEF Unread
<1>2. Mask(read_ptr) = Wrap(read_ptr) /\ Wrap(read_ptr) \in Slots
  BY MaskIsWrap, SizeAssumption DEF RingInv, RingTypeOK, Wrap, Slots, Most
<1>3. d \in 0 .. Size - 2 /\ d < Count
  BY SizeAssumption DEF RingInv, RingTypeOK, InStep, PtrInv, Count
<1>4. s = Wrap(Wrap(read_ptr) + d)
  BY <1>1, <1>2, <1>3, MaskIsWrap, SizeAssumption DEF Slots, Most
<1> HIDE <1>1
<1> QED BY <1>2, <1>3, <1>4, SizeAssumption DEF Dist, Wrap, Slots

(* The invariant is what keeps the two threads apart. *)
LEMMA InvNoSharedSlot == RingInv => NoSharedSlot
<1> SUFFICES ASSUME RingInv, ~astray PROVE Apart
  BY DEF NoSharedSlot
<1> InStep
  BY DEF RingInv
<1>1. ASSUME NEW s \in Held(wpc, wvec, wn), s \in Unread PROVE FALSE
  <2>1. /\ wpc # "idle" /\ wvec \in Vectors /\ GoodVector(wvec)
        /\ write_ptr = wvec.at + Gone(wpc, wn)
        /\ Total(wvec) - Gone(wpc, wn) <= Size - 1 - Count
        /\ wpc # "have" => wn \in 1 .. wvec.len0
    BY <1>1 DEF RingInv, RingTypeOK, ShapeInv, InStep, WriterInv, Held
  <2>2. PICK d \in Gone(wpc, wn) .. (Total(wvec) - 1) : s = SlotOf(wvec, d)
    BY <1>1, <2>1 DEF Held
  <2>3. /\ Total(wvec) \in Int /\ wvec.at \in Slots /\ Gone(wpc, wn) \in 0 .. Size
        /\ Count \in 0 .. Size - 1
    BY <2>1, SizeAssumption
       DEF Total, Vectors, Gone, RingInv, RingTypeOK, InStep, PtrInv,
           GoodVector, Most
  <2>4. d \in 0 .. Total(wvec) - 1 /\ s = Wrap(wvec.at + d) /\ s \in Slots
    BY <2>1, <2>2, <2>3, SlotFacts, SizeAssumption
  <2>5. d - Gone(wpc, wn) < Size - 1 - Count
    BY <2>1, <2>2, <2>3, SizeAssumption
  <2>6. /\ write_ptr \in 0 .. Most /\ read_ptr \in 0 .. Most
        /\ Count = IF Wrap(write_ptr) >= Wrap(read_ptr)
                   THEN Wrap(write_ptr) - Wrap(read_ptr)
                   ELSE Wrap(write_ptr) - Wrap(read_ptr) + Size
    BY DEF RingInv, RingTypeOK, InStep, PtrInv
  <2>7. s = Wrap(write_ptr + (d - Gone(wpc, wn)))
    BY <2>1, <2>2, <2>3, <2>4 DEF Slots
  <2>8. Dist(s) = Count + (d - Gone(wpc, wn))
    <3> DEFINE e == d - Gone(wpc, wn)
    <3>1. e \in Nat /\ e < Size - 1 - Count
      BY <2>2, <2>3, <2>5
    <3> HIDE DEF e
    <3>2. s = Wrap(write_ptr + e)
      BY <2>7 DEF e
    <3>3. Dist(s) = Count + e
      BY <2>3, <2>4, <2>6, <3>1, <3>2, SizeAssumption
         DEF Dist, Wrap, Slots, Most
    <3> QED BY <3>3 DEF e
  <2> QED BY <1>1, <2>2, <2>3, <2>8, UnreadSlots
<1>2. ASSUME NEW s \in Held(rpc, rvec, rn) PROVE s \in Unread
  <2>1. /\ rpc # "idle" /\ rvec \in Vectors /\ GoodVector(rvec)
        /\ read_ptr = rvec.at + Gone(rpc, rn)
        /\ Total(rvec) - Gone(rpc, rn) <= Count
        /\ rpc # "have" => rn \in 1 .. Total(rvec)
    BY <1>2 DEF RingInv, RingTypeOK, ShapeInv, InStep, ReaderInv, Held
  <2>2. PICK d \in Gone(rpc, rn) .. (Total(rvec) - 1) : s = SlotOf(rvec, d)
    BY <1>2, <2>1 DEF Held
  <2>3. /\ Total(rvec) \in Int /\ rvec.at \in Slots /\ Gone(rpc, rn) \in 0 .. Most
        /\ Count \in 0 .. Size - 1
    BY <2>1, SizeAssumption
       DEF Total, Vectors, Gone, RingInv, RingTypeOK, InStep, PtrInv,
           GoodVector, Most
  <2>4. d \in 0 .. Total(rvec) - 1 /\ s = Wrap(rvec.at + d)
    BY <2>1, <2>2, <2>3, SlotFacts, SizeAssumption
  <2> DEFINE e == d - Gone(rpc, rn)
  <2>5. e \in 0 .. Count - 1 /\ e \in 0 .. Size - 1
    BY <2>1, <2>2, <2>3, SizeAssumption
  <2>6. rvec.at + d = read_ptr + e
    BY <2>1, <2>2, <2>3 DEF Slots
  <2>8. read_ptr \in 0 .. Most /\ rvec.at + d <= Most
    <3>1. rvec.at \in Int /\ rvec.len0 \in Int /\ rvec.len1 \in Int
      BY <2>1, SizeAssumption DEF Vectors, Slots
    <3>2. /\ rvec.at + rvec.len0 <= Size /\ rvec.len1 < Size
          /\ Total(rvec) = rvec.len0 + rvec.len1
      BY <2>1 DEF GoodVector, Total
    <3>3. d < rvec.len0 + rvec.len1 /\ d \in Int
      BY <2>3, <2>4, <3>1, <3>2
    <3>4. read_ptr \in 0 .. Most
      BY DEF RingInv, RingTypeOK
    <3> QED BY <3>1, <3>2, <3>3, <3>4, SizeAssumption DEF Most
  <2> HIDE DEF e
  <2>9. s = Wrap(Wrap(read_ptr) + e) /\ Wrap(read_ptr) \in Slots
    BY <2>3, <2>4, <2>5, <2>6, <2>8, SizeAssumption DEF Wrap, Slots, Most
  <2>10. s = Mask(Mask(read_ptr) + e)
    BY <2>5, <2>8, <2>9, MaskIsWrap, SizeAssumption DEF Slots, Most
  <2> QED BY <2>5, <2>10 DEF Unread, Count
<1> QED BY <1>1, <1>2 DEF Apart

(* Type correctness, for every interleaving: a pointer leaves the buffer    *)
(* only between its two stores (ringbuffer.c:215-227) and no vector reaches *)
(* out of it, even for a thread that was misled.                            *)
THEOREM RingTypeCorrect == RingSpec => []RingTypeOK
<1>1. RingInv /\ [RingNext]_ringVars => RingInv'
  BY RingNextInv
<1>2. RingInv => RingTypeOK
  BY DEF RingInv
<1> QED BY InitInv, <1>1, <1>2, PTL DEF RingSpec

(* ringbuffer.c:20 for every size and every number of bytes: until a thread *)
(* is misled, the slots the two threads may touch are disjoint.             *)
THEOREM RingNoSharedSlot == RingSpec => []NoSharedSlot
<1>1. RingInv /\ [RingNext]_ringVars => RingInv'
  BY RingNextInv
<1> QED BY InitInv, <1>1, InvNoSharedSlot, PTL DEF RingSpec

(* Until a thread is misled the ring buffer implements the FIFO: every step *)
(* of the two threads is a put, a get of the oldest bytes, the reset, or    *)
(* invisible.                                                               *)
THEOREM RingImplementsFifo == RingSpec => FifoUntilAstray
<1>1. RingInv /\ [RingNext]_ringVars => RingInv'
  BY RingNextInv
<1>2. RingInit => Buffer!Init
  BY DEF RingInit, Buffer!Init, NoBytes
<1>3. RingInv /\ [RingNext]_ringVars
         => [astray \/ Buffer!Next]_(Buffer!fifoVars)
  <2> SUFFICES ASSUME RingInv, [RingNext]_ringVars, ~astray
               PROVE  Buffer!Next \/ UNCHANGED <<wr, rd, last>>
    BY DEF Buffer!fifoVars
  <2>1. CASE WriteAdvance
    <3>1. wn \in 1 .. Size - 1 /\ wr + wn - rd <= Size - 1
      BY <2>1, WriteAdvanceInv
    <3>2. Buffer!Put(wn)
      BY <2>1, <3>1 DEF WriteAdvance, readerVars, Buffer!Put
    <3> QED BY <3>1, <3>2 DEF Buffer!Next
  <2>2. CASE ReadAdvance
    <3>1. /\ rn \in 1 .. Size - 1 /\ rd + rn <= wr
          /\ dest = [i \in rd .. (rd + rn - 1) |-> i]
      BY <2>2, ReadAdvanceInv
    <3>2. Buffer!Get(rn)
      BY <2>2, <3>1 DEF ReadAdvance, writerVars, Buffer!Get
    <3> QED BY <3>1, <3>2 DEF Buffer!Next
  <2>3. CASE Reset \/ Recreate
    BY <2>3 DEF Reset, Recreate, Emptied, NoBytes, Buffer!Reset, Buffer!Next
  <2>4. ASSUME NEW cnt,
               \/ GetWriteVector(cnt) \/ Fill(cnt) \/ WriteMask
               \/ GetReadVector(cnt) \/ Take(cnt) \/ ReadMask
        PROVE  UNCHANGED <<wr, rd, last>>
    BY <2>4 DEF GetWriteVector, Fill, WriteMask, GetReadVector, Take, ReadMask,
       readerVars, writerVars
  <2>5. CASE UNCHANGED ringVars
    BY <2>5 DEF ringVars
  <2> QED BY <2>1, <2>2, <2>3, <2>4, <2>5 DEF RingNext, Writer, Reader
<1> QED BY InitInv, <1>1, <1>2, <1>3, PTL DEF RingSpec, FifoUntilAstray

=============================================================================
