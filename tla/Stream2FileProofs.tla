------------------------- MODULE Stream2FileProofs -------------------------
(***************************************************************************)
(* A recording to disk, for every size of the buffer, of the packets and   *)
(* of the files, any number of recordings and any failures: the threads    *)
(* use the ring buffer as its FIFO proof assumes, they behave for the      *)
(* caller like StreamControl, and the files hold the stream until the ring *)
(* buffer misleads one of them.                                            *)
(***************************************************************************)
EXTENDS Stream2File, RingBufferProofs, SequenceTheorems

(* The proofs about StreamControl, for the recording thread of Stream2File. *)
ControlProofs == INSTANCE StreamControlProofs WITH
                     thread <- IF dpc = "none" THEN "none" ELSE "run"

-----------------------------------------------------------------------------
(***************************************************************************)
(* The inductive invariant.                                                *)
(***************************************************************************)

DmxPlaces == {"none", "sync", "syncpoll", "syncerror", "first", "loop",
              "vector", "poll", "read", "error", "close", "join"}
FilePlaces == {"none", "loop", "open", "write", "empty", "done"}

(* Both threads live and end together, each is inside the ring buffer only  *)
(* at its own places, and the DMXThread gives up only after it has seen     *)
(* that the recording is over.                                              *)
ThreadsInv ==
    /\ dpc \in DmxPlaces /\ fpc \in FilePlaces
    /\ dpc = "none" <=> fpc = "none"
    /\ dpc = "none" => rd = wr /\ rpc = "idle"
    /\ dpc \in {"close", "join"} => ~Running
    /\ dpc \notin {"first", "read", "error"} => wpc \in {"idle", "have"}
    /\ todo \in 0 .. IN_SIZE /\ todo2 \in 0 .. IN_SIZE
    /\ dpc = "first" => todo \in 1 .. TS_SIZE

(* Bytes of the reader's advance that are in the file: before the first     *)
(* store of the advance, and before its second.                             *)
Copied == IF rpc = "copied" THEN rn ELSE 0
Written == IF rpc \in {"copied", "added"} THEN rn ELSE 0

(* The bytes of the file that is open; a FileThread without a file has a    *)
(* full one, as it were.                                                    *)
LastLen == IF files = << >> THEN splitsize ELSE Len(files[Len(files)])

(* What the FileThread knows of its file: remfile is the room in it, except *)
(* that the bytes of the vector in its hands are taken off only when all of *)
(* them are written.                                                        *)
RoomInv ==
    /\ remfile \in 0 .. splitsize /\ readsize \in 0 .. splitsize
    /\ fpc = "none" => remfile = 0
    /\ fpc # "write" => rpc \in {"idle", "have"}
    /\ fpc \in {"loop", "empty", "open"} => remfile = splitsize - LastLen
    /\ fpc \in {"loop", "empty"} => rpc = "idle"
    /\ fpc = "open" => remfile = 0 /\ rpc = "have" /\ readsize = Total(rvec)
    /\ fpc = "write" =>
          /\ files # << >>
          /\ rpc # "idle"
          /\ readsize <= remfile
          /\ LastLen = splitsize - remfile + (readsize - Total(rvec) + Written)

(* The first byte of a file, and the byte that the FileThread writes next.  *)
FirstOf(f) == base + (f - 1) * splitsize
PositionInv ==
    fpc \in {"loop", "empty", "open", "write"} =>
        rd + Copied = IF files = << >> THEN base
                      ELSE FirstOf(Len(files)) + LastLen

FilesInv ==
    /\ files \in Seq(Seq(Int)) /\ base \in Int
    /\ FilesHoldTheStream

StreamInv ==
    /\ RingInv
    /\ Control!ControlTypeOK /\ Control!OneRecording
    /\ ThreadsInv /\ RoomInv /\ PositionInv /\ FilesInv

-----------------------------------------------------------------------------
(***************************************************************************)
(* The constants.                                                          *)
(***************************************************************************)

LEMMA SplitFacts == splitsize \in Nat /\ splitsize >= 1
<1> DEFINE q == Limit \div TS_SIZE
<1>1. /\ TS_SIZE \in Nat /\ TS_SIZE > 0 /\ Limit \in Nat /\ Limit >= TS_SIZE
  BY StreamAssumption
<1>2. q \in Int /\ q >= 1
  BY <1>1
<1> HIDE DEF q
<1>3. q * TS_SIZE \in Int /\ q * TS_SIZE >= 1
  BY <1>1, <1>2
<1> QED BY <1>3 DEF splitsize, q

LEMMA Sizes ==
  /\ TS_SIZE \in Nat /\ IN_SIZE \in Nat /\ Size \in Nat
  /\ 0 < TS_SIZE /\ TS_SIZE < IN_SIZE /\ IN_SIZE < Size
BY StreamAssumption, SizeAssumption

-----------------------------------------------------------------------------
(***************************************************************************)
(* The threads use the ring buffer as one writer and one reader: each step *)
(* is a step of RingBuffer or leaves the buffer alone.                     *)
(***************************************************************************)

(* A vector of more bytes than the buffer has is one of all bytes. *)
LEMMA AnyReadVector ==
  ASSUME RingInv, NEW cnt \in Nat, cnt > 0, GetReadVector(cnt)
  PROVE  \E c \in 1 .. Most : GetReadVector(c)
<1>1. ReadSpace(write_ptr, read_ptr) \in 0 .. Most
  BY ReadSpaceBound DEF GetReadVector, RingInv
<1>2. Most \in Nat /\ Most > 0
  BY SizeAssumption DEF Most
<1>3. CASE cnt <= Most
  BY <1>2, <1>3
<1>4. CASE cnt > Most
  <2>1. Least(cnt, ReadSpace(write_ptr, read_ptr))
          = Least(Most, ReadSpace(write_ptr, read_ptr))
    BY <1>1, <1>2, <1>4 DEF Least
  <2>2. GetReadVector(Most)
    BY <2>1 DEF GetReadVector
  <2> QED BY <1>2, <2>2
<1> QED BY <1>2, <1>3, <1>4

LEMMA DmxRingStep ==
  ASSUME StreamInv, DmxThread
  PROVE  RingNext \/ UNCHANGED ringVars
<1>1. CASE DmxFirst
  <2>1. todo \in 1 .. Most
    BY <1>1, Sizes DEF DmxFirst, StreamInv, ThreadsInv, Most
  <2> QED BY <1>1, <2>1 DEF DmxFirst, RingNext, Writer
<1>2. CASE DmxFirstFill
  <2>1. todo \in 1 .. Size
    BY <1>2, Sizes DEF DmxFirstFill, StreamInv, ThreadsInv
  <2> QED BY <1>2, <2>1 DEF DmxFirstFill, RingNext, Writer
<1>3. CASE DmxRead
  <2>1. PICK r \in 1 .. todo : Fill(r)
    BY <1>3 DEF DmxRead
  <2>2. r \in 1 .. Size
    BY Sizes DEF StreamInv, ThreadsInv
  <2> QED BY <2>1, <2>2 DEF RingNext, Writer
<1>4. CASE DmxVector
  <2>1. Most \in 1 .. Most
    BY Sizes DEF Most
  <2> QED BY <1>4, <2>1 DEF DmxVector, RingNext, Writer
<1>5. CASE DmxAdvance \/ DmxFirstMask \/ DmxMask
  BY <1>5 DEF DmxAdvance, DmxFirstMask, DmxMask, RingNext, Writer
<1>6. CASE DmxEnd
  BY <1>6 DEF DmxEnd, RingNext
<1>7. CASE \/ DmxSyncCheck \/ DmxSynced \/ DmxNotSynced \/ DmxSyncError
           \/ DmxLoopCheck \/ DmxPollCheck \/ DmxReadError
           \/ DmxReadNothing \/ DmxTimeout \/ DmxClose
  BY <1>7 DEF DmxSyncCheck, DmxSynced, DmxNotSynced, DmxSyncError,
     DmxLoopCheck, DmxPollCheck, DmxReadError, DmxReadNothing, DmxTimeout,
     DmxClose
<1> QED BY <1>1, <1>2, <1>3, <1>4, <1>5, <1>6, <1>7 DEF DmxThread

LEMMA FileRingStep ==
  ASSUME StreamInv, FileThread
  PROVE  RingNext \/ UNCHANGED ringVars
<1>1. CASE FileVector
  <2> DEFINE room == IF remfile = 0 THEN splitsize ELSE remfile
  <2>1. room \in Nat /\ room > 0
    BY SplitFacts DEF StreamInv, RoomInv
  <2>2. GetReadVector(room)
    BY <1>1 DEF FileVector
  <2> HIDE DEF room
  <2>3. \E c \in 1 .. Most : GetReadVector(c)
    BY <2>1, <2>2, AnyReadVector DEF StreamInv
  <2> QED BY <2>3 DEF RingNext, Reader
<1>2. CASE FileWrite
  <2>1. PICK k \in 1 .. rvec.len0 : Take(k)
    BY <1>2 DEF FileWrite
  <2>2. k \in 1 .. Most
    BY Sizes DEF StreamInv, RingInv, RingTypeOK, Vectors, Most
  <2> QED BY <2>1, <2>2 DEF RingNext, Reader
<1>3. CASE FileAdvance \/ FileMask
  BY <1>3 DEF FileAdvance, FileMask, RingNext, Reader
<1>4. CASE FileOpen \/ FileOpenFails \/ FileWriteFails \/ FileEmpty
           \/ FileEmptyCheck
  BY <1>4 DEF FileOpen, FileOpenFails, FileWriteFails, FileEmpty,
     FileEmptyCheck
<1> QED BY <1>1, <1>2, <1>3, <1>4 DEF FileThread

LEMMA RingStep ==
  ASSUME StreamInv, [Next]_vars
  PROVE  [RingNext]_ringVars
<1>1. CASE Main \/ DmxTail
  BY <1>1 DEF Main, Call, CallProceeds, CallStarts, Stop, Receive, DmxTail
<1>2. CASE UNCHANGED vars
  BY <1>2 DEF vars, ringVars
<1> QED BY <1>1, <1>2, DmxRingStep, FileRingStep DEF Next

-----------------------------------------------------------------------------
(***************************************************************************)
(* For the caller the threads are the recording thread of StreamControl:   *)
(* each step is one of its steps or invisible.                             *)
(***************************************************************************)

LEMMA MainControlStep ==
  ASSUME StreamInv, Main \/ DmxTail
  PROVE  Control!ControlNext
<1>1. CASE Call
  BY <1>1 DEF Call, Control!ControlNext
<1>2. CASE CallProceeds
  BY <1>2 DEF CallProceeds, Control!ControlNext, Control!CallStep
<1>3. CASE CallStarts
  BY <1>3 DEF CallStarts, Control!ControlNext, Control!CallStep
<1>4. CASE Stop \/ Receive
  BY <1>4 DEF Stop, Receive, Control!ControlNext
<1>5. CASE DmxTail
  BY <1>5 DEF DmxTail, Control!ControlNext, Control!ThreadStep
<1> QED BY <1>1, <1>2, <1>3, <1>4, <1>5 DEF Main

(* A status written by one of the threads. *)
LEMMA FailureStep ==
  ASSUME dpc # "none", dpc' # "none", NEW s \in Control!Failures,
         exit_flag' = s,
         UNCHANGED <<busy_count, myfilename, tail, status, queue, spc, sname,
                     answer>>
  PROVE  Control!ControlNext
<1>1. Control!ThreadFails(s)
  BY DEF Control!ThreadFails, Control!callVars
<1> QED BY <1>1 DEF Control!ControlNext, Control!ThreadStep

(* A step that only moves a thread. *)
LEMMA QuietControlStep ==
  ASSUME dpc # "none" <=> dpc' # "none",
         UNCHANGED <<exit_flag, busy_count, myfilename, tail, status, queue,
                     spc, sname, answer>>
  PROVE  UNCHANGED Control!controlVars
BY DEF Control!controlVars

LEMMA DmxControlStep ==
  ASSUME StreamInv, DmxThread
  PROVE  [Control!ControlNext]_(Control!controlVars)
<1>1. CASE DmxSyncError \/ DmxReadError \/ DmxTimeout
  BY <1>1, FailureStep
     DEF DmxSyncError, DmxReadError, DmxTimeout, DmxGoto, mainVars,
         Control!Failures
<1>2. CASE DmxVector
  <2>1. /\ dpc = "vector" /\ dpc' = "poll"
        /\ UNCHANGED <<busy_count, myfilename, tail, status, queue, spc,
                       sname, answer>>
        /\ exit_flag' = exit_flag \/ exit_flag' = "BUFFER_OVERFLOW"
    BY <1>2 DEF DmxVector, DmxGoto, DmxDivide, mainVars
  <2> QED BY <2>1, FailureStep, QuietControlStep DEF Control!Failures
<1>3. CASE DmxEnd
  <2>1. Control!ThreadEnds
    BY <1>3 DEF DmxEnd, DmxGoto, Control!ThreadEnds, Control!callVars,
       StreamInv, ThreadsInv, Running
  <2> QED BY <2>1 DEF Control!ControlNext, Control!ThreadStep
<1>4. CASE \/ DmxSyncCheck \/ DmxSynced \/ DmxNotSynced
           \/ DmxFirst \/ DmxFirstFill \/ DmxAdvance \/ DmxFirstMask
           \/ DmxLoopCheck \/ DmxPollCheck \/ DmxRead \/ DmxMask
           \/ DmxReadNothing \/ DmxClose
  <2>1. /\ dpc # "none" /\ dpc' # "none"
        /\ UNCHANGED <<exit_flag, busy_count, myfilename, tail, status, queue,
                       spc, sname, answer>>
    BY <1>4 DEF DmxSyncCheck, DmxSynced, DmxNotSynced, DmxFirst, DmxFirstFill,
       DmxAdvance, DmxFirstMask, DmxLoopCheck, DmxPollCheck, DmxRead, DmxMask,
       DmxReadNothing, DmxClose, DmxGoto, dmxVars, mainVars
  <2> QED BY <2>1, QuietControlStep
<1> QED BY <1>1, <1>2, <1>3, <1>4 DEF DmxThread

LEMMA FileControlStep ==
  ASSUME StreamInv, FileThread
  PROVE  [Control!ControlNext]_(Control!controlVars)
<1>1. CASE FileOpenFails \/ FileWriteFails
  <2>1. dpc # "none" /\ dpc' = dpc
    BY <1>1 DEF FileOpenFails, FileWriteFails, FileGoto, dmxVars, StreamInv,
       ThreadsInv
  <2> QED BY <1>1, <2>1, FailureStep
          DEF FileOpenFails, FileWriteFails, mainVars, Control!Failures
<1>2. CASE \/ FileVector \/ FileOpen \/ FileWrite \/ FileAdvance
           \/ FileMask \/ FileEmpty \/ FileEmptyCheck
  <2>1. UNCHANGED <<exit_flag, busy_count, myfilename, dpc, tail, status,
                    queue, spc, sname, answer>>
    BY <1>2 DEF FileVector, FileOpen, FileWrite, FileAdvance, FileMask,
       FileEmpty, FileEmptyCheck, dmxVars, mainVars
  <2> QED BY <2>1, QuietControlStep
<1> QED BY <1>1, <1>2 DEF FileThread

LEMMA ControlStep ==
  ASSUME StreamInv, [Next]_vars
  PROVE  [Control!ControlNext]_(Control!controlVars)
<1>1. CASE UNCHANGED vars
  BY <1>1, QuietControlStep DEF vars, mainVars, dmxVars
<1> QED BY <1>1, MainControlStep, DmxControlStep, FileControlStep DEF Next

(* So the invariant of StreamControl holds for the detailed threads; its    *)
(* proof is the one of StreamControlProofs.                                 *)
LEMMA SameState ==
  ControlProofs!ControlInv
     <=> Control!ControlTypeOK /\ Control!OneRecording
BY DEF ControlProofs!ControlInv,
       Control!ControlTypeOK, ControlProofs!ControlTypeOK,
       Control!OneRecording, ControlProofs!OneRecording, Control!Status,
       ControlProofs!Status, Control!Failures, ControlProofs!Failures,
       Control!Answers, ControlProofs!Answers

LEMMA SameSteps ==
  [Control!ControlNext]_(Control!controlVars)
     => [ControlProofs!ControlNext]_(ControlProofs!controlVars)
BY DEF Control!StartRecording, ControlProofs!StartRecording,
       Control!Return, ControlProofs!Return, Control!StartBusy,
       ControlProofs!StartBusy, Control!StartSleep,
       ControlProofs!StartSleep, Control!StartGiveUp,
       ControlProofs!StartGiveUp, Control!StartOpen,
       ControlProofs!StartOpen, Control!StartFailed,
       ControlProofs!StartFailed, Control!StartRunning,
       ControlProofs!StartRunning, Control!StartNoThread,
       ControlProofs!StartNoThread, Control!StartOK, ControlProofs!StartOK,
       Control!StopRecording, ControlProofs!StopRecording,
       Control!StopIdle, ControlProofs!StopIdle, Control!ThreadFails,
       ControlProofs!ThreadFails, Control!ThreadEnds,
       ControlProofs!ThreadEnds, Control!TailReads,
       ControlProofs!TailReads, Control!TailSends, ControlProofs!TailSends,
       Control!ThreadStep, ControlProofs!ThreadStep, Control!CallStep,
       ControlProofs!CallStep, Control!Receive, ControlProofs!Receive,
       Control!ControlNext, ControlProofs!ControlNext, Control!controlVars,
       ControlProofs!controlVars, Control!callVars, ControlProofs!callVars,
       Control!Ended, ControlProofs!Ended, Control!Failures,
       ControlProofs!Failures

LEMMA ControlInvKept ==
  ASSUME StreamInv, [Next]_vars
  PROVE  (Control!ControlTypeOK /\ Control!OneRecording)'
<1>1. ControlProofs!ControlInv
  BY SameState DEF StreamInv
<1>2. [ControlProofs!ControlNext]_(ControlProofs!controlVars)
  BY ControlStep, SameSteps
<1>3. ControlProofs!ControlInv'
  BY <1>1, <1>2, ControlProofs!ControlNextInv
<1>4. ControlProofs!ControlInv'
         <=> (Control!ControlTypeOK /\ Control!OneRecording)'
  BY SameState, PTL
<1> QED BY <1>3, <1>4

-----------------------------------------------------------------------------
(***************************************************************************)
(* The threads' own state.                                                 *)
(***************************************************************************)

LEMMA MainThreadsInv ==
  ASSUME StreamInv, Main \/ DmxTail
  PROVE  ThreadsInv'
<1>1. CASE CallStarts
  <2>1. dpc = "none" /\ spc = "create"
    BY <1>1 DEF CallStarts, Control!StartOK, StreamInv, Control!OneRecording
  <2>2. /\ dpc' = "sync" /\ fpc' = "loop"
        /\ UNCHANGED <<todo, todo2, wpc>>
    BY <1>1 DEF CallStarts, ringVars
  <2> QED BY <2>1, <2>2 DEF StreamInv, ThreadsInv, DmxPlaces, FilePlaces
<1>2. CASE \/ Call \/ CallProceeds \/ Stop \/ Receive \/ DmxTail
  <2>1. UNCHANGED <<dpc, todo, todo2, fpc, wpc, rpc, rd, wr>>
    BY <1>2 DEF Call, CallProceeds, Stop, Receive, DmxTail, ringVars, dmxVars,
       fileVars
  <2>2. exit_flag' = "RUNNING" => exit_flag = "RUNNING" \/ dpc = "none"
    BY <1>2
       DEF StreamInv, Control!OneRecording, Control!StartRunning,
           Call, CallProceeds, Stop, Receive, DmxTail,
           Control!StartRecording, Control!StartBusy, Control!StartSleep,
           Control!StartGiveUp, Control!StartOpen, Control!StartFailed,
           Control!StartNoThread, Control!StopRecording, Control!StopIdle,
           Control!Receive, Control!TailReads, Control!TailSends
  <2> QED BY <2>1, <2>2 DEF StreamInv, ThreadsInv, Running
<1> QED BY <1>1, <1>2 DEF Main

(* The DMXThread outside the ring buffer. *)
LEMMA DmxMovesInv ==
  ASSUME StreamInv,
         \/ DmxSyncCheck \/ DmxSynced \/ DmxNotSynced \/ DmxSyncError
         \/ DmxLoopCheck \/ DmxPollCheck \/ DmxReadError
         \/ DmxReadNothing \/ DmxTimeout \/ DmxClose
  PROVE  ThreadsInv'
<1> USE Sizes DEF StreamInv, ThreadsInv, DmxPlaces, DmxGoto, Running, ringVars,
      fileVars
<1>1. CASE DmxSyncCheck \/ DmxNotSynced \/ DmxSyncError
  BY <1>1 DEF DmxSyncCheck, DmxNotSynced, DmxSyncError
<1>2. CASE DmxSynced
  BY <1>2 DEF DmxSynced
<1>3. CASE DmxLoopCheck \/ DmxPollCheck
  BY <1>3 DEF DmxLoopCheck, DmxPollCheck
<1>4. CASE DmxReadError \/ DmxReadNothing \/ DmxTimeout \/ DmxClose
  BY <1>4 DEF DmxReadError, DmxReadNothing, DmxTimeout, DmxClose
<1> QED BY <1>1, <1>2, <1>3, <1>4

LEMMA DmxThreadsInv ==
  ASSUME StreamInv, DmxThread
  PROVE  ThreadsInv'
<1> USE Sizes DEF StreamInv, ThreadsInv, DmxPlaces, DmxGoto, Running, ringVars,
      fileVars, dmxVars, readerVars
<1>1. CASE DmxFirst
  BY <1>1 DEF DmxFirst, GetWriteVector
<1>2. CASE DmxFirstFill \/ DmxRead
  <2>1. /\ dpc \in {"first", "read", "error"} /\ wpc' = "copied"
        /\ UNCHANGED <<dpc, todo, todo2, fpc, rpc, rd, wr, exit_flag>>
    BY <1>2 DEF DmxFirstFill, DmxRead, Fill
  <2> QED BY <2>1
<1>3. CASE DmxAdvance
  BY <1>3 DEF DmxAdvance, WriteAdvance
<1>4. CASE DmxFirstMask
  BY <1>4 DEF DmxFirstMask, WriteMask
<1>5. CASE DmxVector
  <2>1. /\ dpc = "vector" /\ dpc' = "poll" /\ wpc' \in {"idle", "have"}
        /\ UNCHANGED <<fpc, rpc, rd, wr>>
    BY <1>5 DEF DmxVector, GetWriteVector
  <2>2. todo' \in 0 .. IN_SIZE /\ todo2' \in 0 .. IN_SIZE
    <3>1. ASSUME NEW v \in Vectors, DmxDivide(v)
          PROVE  todo' \in 0 .. IN_SIZE /\ todo2' \in 0 .. IN_SIZE
      <4>1. v.len0 \in 0 .. Size
        BY DEF Vectors
      <4> QED BY <3>1, <4>1 DEF DmxDivide, Least
    <3>2. NoVector \in Vectors
      BY DEF NoVector, Vectors, Slots
    <3>3. GetWriteVector(Most) => wvec' \in Vectors
      <4>1. Most \in Nat
        BY DEF Most
      <4> QED BY <4>1, GetWriteVectorInv DEF RingInv, RingTypeOK
    <3> QED BY <1>5, <3>1, <3>2, <3>3 DEF DmxVector
  <2> QED BY <2>1, <2>2
<1>6. CASE DmxMask
  <2>1. /\ dpc \in {"read", "error"} /\ dpc' \in {"poll", "loop"}
        /\ wpc' \in {"idle", "have"}
        /\ UNCHANGED <<fpc, rpc, rd, wr, exit_flag>>
    BY <1>6 DEF DmxMask, WriteMask
  <2>2. wn \in Nat
    BY DEF RingInv, RingTypeOK
  <2>3. todo' \in 0 .. IN_SIZE /\ todo2' \in 0 .. IN_SIZE
    BY <1>6, <2>2 DEF DmxMask
  <2> QED BY <2>1, <2>3
<1>7. CASE DmxEnd
  BY <1>7 DEF DmxEnd, Recreate, Emptied, FilePlaces
<1> QED BY <1>1, <1>2, <1>3, <1>4, <1>5, <1>6, <1>7, DmxMovesInv
        DEF DmxThread

LEMMA FileThreadsInv ==
  ASSUME StreamInv, FileThread
  PROVE  ThreadsInv'
<1> DEFINE Moves == /\ fpc # "none" /\ fpc' # "none" /\ fpc' \in FilePlaces
                   /\ UNCHANGED <<dpc, todo, todo2, wpc>>
<1> USE DEF FileGoto, FilePlaces, dmxVars, fileVars, ringVars, writerVars
<1>1. Moves
  <2>1. CASE FileVector
    BY <2>1 DEF FileVector, GetReadVector
  <2>2. CASE FileWrite
    BY <2>2 DEF FileWrite, Take
  <2>3. CASE FileAdvance
    BY <2>3 DEF FileAdvance, ReadAdvance
  <2>4. CASE FileMask
    BY <2>4 DEF FileMask, ReadMask
  <2>5. CASE FileOpen \/ FileOpenFails \/ FileWriteFails
    BY <2>5 DEF FileOpen, FileOpenFails, FileWriteFails
  <2>6. CASE FileEmpty \/ FileEmptyCheck
    BY <2>6 DEF FileEmpty, FileEmptyCheck
  <2> QED BY <2>1, <2>2, <2>3, <2>4, <2>5, <2>6 DEF FileThread
<1>2. exit_flag' = "RUNNING" => exit_flag = "RUNNING"
  BY DEF FileThread, FileVector, FileOpen, FileOpenFails, FileWrite,
     FileAdvance, FileMask, FileWriteFails, FileEmpty, FileEmptyCheck
<1> QED BY <1>1, <1>2 DEF StreamInv, ThreadsInv, Running

-----------------------------------------------------------------------------
(***************************************************************************)
(* The files.                                                              *)
(***************************************************************************)

(* A new file at the end. *)
LEMMA NewFile ==
  ASSUME NEW fs \in Seq(Seq(Int)), NEW gs, gs = Append(fs, << >>)
  PROVE  /\ gs \in Seq(Seq(Int)) /\ gs # << >> /\ Len(gs) = Len(fs) + 1
         /\ \A f \in 1 .. Len(fs) : gs[f] = fs[f]
         /\ gs[Len(gs)] = << >>
<1>1. << >> \in Seq(Int)
  OBVIOUS
<1> QED BY <1>1, AppendProperties

(* More bytes at the end of the last file. *)
LEMMA LongerFile ==
  ASSUME NEW fs \in Seq(Seq(Int)), fs # << >>, NEW t \in Seq(Int), NEW gs,
         gs = [fs EXCEPT ![Len(fs)] = @ \o t]
  PROVE  /\ gs \in Seq(Seq(Int)) /\ gs # << >> /\ Len(gs) = Len(fs)
         /\ \A f \in 1 .. Len(fs) - 1 : gs[f] = fs[f]
         /\ fs[Len(fs)] \in Seq(Int)
         /\ gs[Len(fs)] = fs[Len(fs)] \o t
<1>1. Len(fs) \in Nat /\ Len(fs) > 0 /\ DOMAIN fs = 1 .. Len(fs)
  BY LenProperties, EmptySeq
<1>2. fs[Len(fs)] \in Seq(Int)
  BY <1>1, ElementOfSeq
<1>3. fs[Len(fs)] \o t \in Seq(Int)
  BY <1>2, ConcatProperties
<1>4. gs \in Seq(Seq(Int)) /\ Len(gs) = Len(fs)
  BY <1>1, <1>3, ExceptSeq
<1>5. gs[Len(fs)] = fs[Len(fs)] \o t
  BY <1>1
<1>6. ASSUME NEW f \in 1 .. Len(fs) - 1 PROVE gs[f] = fs[f]
  <2>1. \A n \in Nat : \A i \in 1 .. n - 1 : i \in 1 .. n /\ i # n
    OBVIOUS
  <2>2. f \in DOMAIN fs /\ f # Len(fs)
    BY <1>1, <2>1
  <2> QED BY <2>2
<1>7. gs # << >>
  BY <1>1, <1>4, EmptySeq
<1> QED BY <1>1, <1>2, <1>4, <1>5, <1>6, <1>7

(* The length of the last file. *)
LEMMA LastLenFacts ==
  ASSUME FilesInv
  PROVE  /\ LastLen \in 0 .. splitsize
         /\ Len(files) \in Nat
         /\ files # << >> => /\ Len(files) \in 1 .. Len(files)
                             /\ files[Len(files)] \in Seq(Int)
                             /\ LastLen = Len(files[Len(files)])
<1>1. Len(files) \in Nat /\ DOMAIN files = 1 .. Len(files)
  BY LenProperties DEF FilesInv
<1>2. CASE files = << >>
  BY <1>1, <1>2, SplitFacts DEF LastLen
<1>3. CASE files # << >>
  <2>1. Len(files) > 0
    BY <1>1, <1>3, EmptySeq DEF FilesInv
  <2>2. files[Len(files)] \in Seq(Int)
    BY <1>1, <2>1, ElementOfSeq DEF FilesInv
  <2>3. Len(files[Len(files)]) \in Nat
    BY <2>2, LenProperties
  <2>4. Len(files[Len(files)]) <= splitsize
    BY <1>1, <2>1 DEF FilesInv, FilesHoldTheStream
  <2> QED BY <1>1, <1>3, <2>1, <2>2, <2>3, <2>4, SplitFacts DEF LastLen
<1> QED BY <1>2, <1>3

(* A file is followed by the next one. *)
LEMMA FirstOfFacts ==
  ASSUME base \in Int
  PROVE  /\ FirstOf(1) = base
         /\ \A n \in Nat : /\ FirstOf(n) \in Int
                           /\ FirstOf(n + 1) = FirstOf(n) + splitsize
<1>1. FirstOf(1) = base
  BY SplitFacts DEF FirstOf
<1>2. ASSUME NEW n \in Nat
      PROVE  FirstOf(n) \in Int /\ FirstOf(n + 1) = FirstOf(n) + splitsize
  <2>1. \A x \in Int, y \in Int : x * y \in Int /\ (x + 1) * y = x * y + y
    OBVIOUS
  <2>2. (n + 1) - 1 = (n - 1) + 1 /\ n - 1 \in Int /\ splitsize \in Int
    BY SplitFacts
  <2>3. /\ (n - 1) * splitsize \in Int
        /\ ((n - 1) + 1) * splitsize = (n - 1) * splitsize + splitsize
    BY <2>1, <2>2
  <2> QED BY <2>2, <2>3 DEF FirstOf
<1> QED BY <1>1, <1>2

(* The parts of the invariant about the files. *)
FileParts == RoomInv /\ PositionInv /\ FilesInv

(* What the files hold is not disturbed by a step that leaves them alone,   *)
(* starts no recording and does not make a misled reader forget it.         *)
LEMMA FilesAlone ==
  ASSUME FilesInv, UNCHANGED <<files, base>>,
         dpc' # "none" => dpc # "none" /\ (~astray' => ~astray)
  PROVE  FilesInv'
BY DEF FilesInv, FilesHoldTheStream

(* A step that touches neither the files nor the reader's side. *)
LEMMA FilesAside ==
  ASSUME StreamInv, dpc' # "none" => dpc # "none", ~astray' => ~astray,
         UNCHANGED <<fpc, remfile, readsize, files, base, rpc, rvec, rn, rd>>
  PROVE  FileParts'
<1>1. RoomInv' /\ PositionInv'
  BY DEF StreamInv, RoomInv, PositionInv, LastLen, Written, Copied, FirstOf,
     Total
<1>2. FilesInv'
  BY FilesAlone DEF StreamInv
<1> QED BY <1>1, <1>2 DEF FileParts

(* The writer's steps do not touch the reader's side. *)
LEMMA WriterAside ==
  ASSUME StreamInv, \/ Call \/ CallProceeds \/ Stop \/ Receive \/ DmxTail
                    \/ DmxThread /\ ~DmxEnd
  PROVE  FileParts'
<1>1. CASE Call \/ CallProceeds \/ Stop \/ Receive \/ DmxTail
  BY <1>1, FilesAside
     DEF Call, CallProceeds, Stop, Receive, DmxTail, ringVars, fileVars, dmxVars
<1>2. CASE DmxFirst \/ DmxVector
  BY <1>2, FilesAside
     DEF DmxFirst, DmxVector, DmxGoto, GetWriteVector, readerVars, ringVars,
         fileVars
<1>3. CASE DmxFirstFill \/ DmxRead
  BY <1>3, FilesAside
     DEF DmxFirstFill, DmxRead, Fill, readerVars, fileVars, dmxVars
<1>4. CASE DmxAdvance \/ DmxFirstMask \/ DmxMask
  BY <1>4, FilesAside
     DEF DmxAdvance, DmxFirstMask, DmxMask, DmxGoto, WriteAdvance, WriteMask,
         readerVars, fileVars, dmxVars
<1>5. CASE \/ DmxSyncCheck \/ DmxSynced \/ DmxNotSynced \/ DmxSyncError
           \/ DmxLoopCheck \/ DmxPollCheck \/ DmxReadError
           \/ DmxReadNothing \/ DmxTimeout \/ DmxClose
  BY <1>5, FilesAside
     DEF DmxSyncCheck, DmxSynced, DmxNotSynced, DmxSyncError, DmxLoopCheck,
         DmxPollCheck, DmxReadError, DmxReadNothing, DmxTimeout, DmxClose,
         DmxGoto, ringVars, fileVars
<1> QED BY <1>1, <1>2, <1>3, <1>4, <1>5 DEF DmxThread

(* A recording starts with an empty buffer and no file, and ends with its   *)
(* files as they are.                                                       *)
LEMMA StartEndFiles ==
  ASSUME StreamInv, CallStarts \/ DmxEnd
  PROVE  FileParts'
<1>1. CASE CallStarts
  <2>1. dpc = "none"
    BY <1>1 DEF CallStarts, Control!StartOK, StreamInv, Control!OneRecording
  <2>2. rd = wr /\ rpc = "idle" /\ remfile = 0 /\ wr \in Nat
    BY <2>1 DEF StreamInv, ThreadsInv, RoomInv, RingInv, RingTypeOK
  <2>3. /\ fpc' = "loop" /\ files' = << >> /\ base' = wr
        /\ UNCHANGED <<rd, rpc, rn, rvec, remfile, readsize>>
    BY <1>1 DEF CallStarts, ringVars
  <2>4. LastLen' = splitsize
    BY <2>3 DEF LastLen
  <2>5. RoomInv'
    BY <2>2, <2>3, <2>4, SplitFacts DEF StreamInv, RoomInv
  <2>6. PositionInv'
    BY <2>2, <2>3 DEF PositionInv, Copied
  <2>7. FilesInv'
    <3>1. files' \in Seq(Seq(Int)) /\ Len(files') = 0
      BY <2>3
    <3> QED BY <2>2, <2>3, <3>1 DEF FilesInv, FilesHoldTheStream
  <2> QED BY <2>5, <2>6, <2>7 DEF FileParts
<1>2. CASE DmxEnd
  <2>1. /\ fpc' = "none" /\ remfile' = 0 /\ readsize' = 0 /\ rpc' = "idle"
        /\ UNCHANGED <<files, base>> /\ dpc' = "none"
    BY <1>2 DEF DmxEnd, DmxGoto, Recreate, Emptied
  <2>2. RoomInv' /\ PositionInv'
    BY <2>1, SplitFacts DEF RoomInv, PositionInv
  <2>3. FilesInv'
    BY <2>1, FilesAlone DEF StreamInv
  <2> QED BY <2>2, <2>3 DEF FileParts
<1> QED BY <1>1, <1>2

(* The numbers behind the FileThread's part of the invariant. *)
LEMMA FileNumbers ==
  ASSUME StreamInv
  PROVE  /\ splitsize \in Nat /\ splitsize >= 1
         /\ remfile \in 0 .. splitsize /\ readsize \in 0 .. splitsize
         /\ LastLen \in 0 .. splitsize /\ Total(rvec) \in Int
         /\ rn \in Int /\ rd \in Int /\ base \in Int
         /\ rpc \in {"idle", "have", "copied", "added"}
         /\ rpc \in {"copied", "added"} => rn \in 1 .. Total(rvec)
BY SplitFacts, Sizes, LastLenFacts
   DEF StreamInv, RoomInv, FilesInv, RingInv, RingTypeOK, ShapeInv, Vectors,
       Total, Phases, Most

LEMMA FileVectorParts ==
  ASSUME StreamInv, FileVector
  PROVE  FileParts'
<1> DEFINE room == IF remfile = 0 THEN splitsize ELSE remfile
           n == Least(room, ReadSpace(write_ptr, read_ptr))
<1>1. /\ fpc = "loop" /\ fpc' = IF remfile = 0 THEN "open" ELSE "write"
      /\ GetReadVector(room) /\ readsize' = Total(rvec')
      /\ UNCHANGED <<remfile, files, base>>
  BY DEF FileVector, FileGoto, Total
<1>2. /\ n > 0 /\ rvec' = Vector(read_ptr, n) /\ rpc' = "have"
      /\ UNCHANGED <<rn, rd, dpc>> /\ (~astray' => ~astray)
  BY <1>1 DEF FileVector, GetReadVector, dmxVars
<1>3. rpc = "idle" /\ remfile = splitsize - LastLen
  BY <1>1 DEF StreamInv, RoomInv
<1>4. room \in 1 .. splitsize
  BY FileNumbers
<1>5. n \in 1 .. Most /\ n <= room /\ read_ptr + n <= Most
  <2>1. /\ ReadSpace(write_ptr, read_ptr) \in 0 .. Most
        /\ read_ptr + ReadSpace(write_ptr, read_ptr) <= Most
    BY <1>3, ReadSpaceBound DEF StreamInv, RingInv
  <2>2. n \in 1 .. Most /\ n <= ReadSpace(write_ptr, read_ptr)
    BY <1>2, <1>4, <2>1, LeastFacts, FileNumbers
  <2>3. n <= room
    BY <1>4, <2>1, FileNumbers, Sizes DEF Least, Most
  <2>4. read_ptr \in 0 .. Most /\ Most \in Nat
    BY Sizes DEF StreamInv, RingInv, RingTypeOK, Most
  <2> HIDE DEF n
  <2> QED BY <2>1, <2>2, <2>3, <2>4
<1> HIDE DEF n
<1>6. Total(rvec') = n /\ n \in Nat
  BY <1>2, <1>3, <1>5, VectorFacts, Sizes
     DEF StreamInv, RingInv, RingTypeOK, Most
<1>7. LastLen' = LastLen /\ (FirstOf(Len(files)))' = FirstOf(Len(files))
  BY <1>1 DEF LastLen, FirstOf
<1>8. PositionInv'
  BY <1>1, <1>2, <1>3, <1>7 DEF StreamInv, PositionInv, Copied
<1>9. FilesInv'
  BY <1>1, <1>2, FilesAlone DEF StreamInv
<1>10. RoomInv'
  <2>1. CASE remfile = 0
    BY <1>1, <1>2, <1>3, <1>4, <1>5, <1>6, <1>7, <2>1, FileNumbers DEF RoomInv
  <2>2. CASE remfile # 0
    <3>1. files # << >>
      BY <1>3, <2>2, FileNumbers DEF LastLen
    <3>2. Written' = 0
      BY <1>2 DEF Written
    <3> QED BY <1>1, <1>2, <1>3, <1>4, <1>5, <1>6, <1>7, <2>2, <3>1, <3>2,
               FileNumbers DEF RoomInv
  <2> QED BY <2>1, <2>2
<1> QED BY <1>8, <1>9, <1>10 DEF FileParts

LEMMA FileOpenParts ==
  ASSUME StreamInv, FileOpen
  PROVE  FileParts'
<1>1. /\ fpc = "open" /\ fpc' = "write"
      /\ files' = Append(files, << >>) /\ remfile' = splitsize
      /\ UNCHANGED <<rpc, rvec, rn, rd, readsize, base, dpc, astray>>
  BY DEF FileOpen, FileGoto, ringVars, dmxVars
<1>2. /\ rpc = "have" /\ readsize = Total(rvec) /\ LastLen = splitsize
  BY <1>1, FileNumbers DEF StreamInv, RoomInv
<1>3. /\ files' \in Seq(Seq(Int)) /\ files' # << >>
      /\ Len(files') = Len(files) + 1
      /\ \A f \in 1 .. Len(files) : files'[f] = files[f]
      /\ files'[Len(files')] = << >>
  BY <1>1, NewFile DEF StreamInv, FilesInv
<1>4. LastLen' = 0
  BY <1>3 DEF LastLen
<1>5. RoomInv'
  <2>1. Written' = 0
    BY <1>1, <1>2 DEF Written
  <2> QED BY <1>1, <1>2, <1>3, <1>4, <2>1, FileNumbers DEF RoomInv
<1>6. /\ Len(files) \in Nat
      /\ files # << >> => LastLen = Len(files[Len(files)])
      /\ files = << >> => Len(files) = 0
  BY LastLenFacts DEF StreamInv
<1>7. FirstOf(Len(files) + 1) = rd
  <2>1. rd = IF files = << >> THEN base ELSE FirstOf(Len(files)) + LastLen
    BY <1>1, <1>2, FileNumbers DEF StreamInv, PositionInv, Copied
  <2> QED BY <1>2, <1>6, <2>1, FirstOfFacts, FileNumbers
<1>8. PositionInv'
  <2>1. (FirstOf(Len(files)))' = FirstOf(Len(files) + 1)
    BY <1>1, <1>3 DEF FirstOf
  <2> QED BY <1>1, <1>2, <1>3, <1>4, <1>7, <2>1, FileNumbers
          DEF PositionInv, Copied
<1>9. FilesHoldTheStream'
  <2> SUFFICES ASSUME NEW f \in 1 .. Len(files')
               PROVE  /\ Len(files'[f]) <= splitsize
                      /\ f < Len(files') => Len(files'[f]) = splitsize
                      /\ (dpc # "none" /\ ~astray) =>
                            \A j \in 1 .. Len(files'[f]) :
                                files'[f][j]
                                   = base + (f - 1) * splitsize + (j - 1)
    BY <1>1 DEF FilesHoldTheStream
  <2>1. CASE f = Len(files')
    <3>1. Len(files'[f]) = 0
      BY <1>3, <2>1
    <3> QED BY <2>1, <3>1, FileNumbers
  <2>2. CASE f # Len(files')
    <3>1. f \in 1 .. Len(files) /\ files'[f] = files[f]
      BY <1>3, <1>6, <2>2
    <3>2. Len(files[f]) = splitsize
      <4>1. CASE f = Len(files)
        BY <1>2, <1>6, <3>1, <4>1
      <4>2. CASE f < Len(files)
        BY <3>1, <4>2 DEF StreamInv, FilesInv, FilesHoldTheStream
      <4> QED BY <1>6, <3>1, <4>1, <4>2
    <3>3. (dpc # "none" /\ ~astray) =>
             \A j \in 1 .. Len(files[f]) :
                 files[f][j] = base + (f - 1) * splitsize + (j - 1)
      BY <3>1 DEF StreamInv, FilesInv, FilesHoldTheStream
    <3> QED BY <3>1, <3>2, <3>3, FileNumbers
  <2> QED BY <2>1, <2>2
<1> QED BY <1>1, <1>3, <1>5, <1>8, <1>9 DEF FileParts, FilesInv, StreamInv

(* The bytes that write() takes are the next ones of the stream. *)
LEMMA FileWriteParts ==
  ASSUME StreamInv, FileWrite
  PROVE  FileParts'
<1> DEFINE L == Len(files)
           S == files[L]
<1>1. PICK k \in 1 .. rvec.len0 :
          /\ Take(k)
          /\ files' = [files EXCEPT ![Len(files)] =
                          @ \o [j \in 1 .. k |-> dest'[rd + j - 1]]]
  BY DEF FileWrite
<1> DEFINE t == [j \in 1 .. k |-> dest'[rd + j - 1]]
<1>2. /\ fpc = "write" /\ UNCHANGED <<fpc, remfile, readsize, base>>
      /\ rpc = "have" /\ rpc' = "copied" /\ rn' = k /\ UNCHANGED <<rvec, rd>>
      /\ k \in 1 .. Total(rvec) /\ UNCHANGED <<dpc, astray>>
  BY <1>1 DEF FileWrite, Take, Total, dmxVars
<1>3. k \in 1 .. Size /\ k \in Nat
  BY Sizes DEF StreamInv, RingInv, RingTypeOK, Vectors
<1>4. /\ \A i \in rd .. (rd + k - 1) : dest'[i] \in Int
      /\ ~astray => dest' = [i \in rd .. (rd + k - 1) |-> i]
  <2>1. RingInv' /\ \A i \in rd .. (rd + k - 1) : dest'[i] \in Int
    BY <1>1, <1>3, TakeInv DEF StreamInv
  <2>2. ~astray => dest' = [i \in rd .. (rd + k - 1) |-> i]
    BY <1>2, <2>1 DEF RingInv, InStep, ReaderInv
  <2> QED BY <2>1, <2>2
<1>5. ASSUME NEW j \in 1 .. k
      PROVE  dest'[rd + j - 1] \in Int /\ (~astray => t[j] = rd + j - 1)
  <2>1. rd + j - 1 \in rd .. (rd + k - 1)
    BY <1>3, FileNumbers
  <2> QED BY <1>4, <2>1
<1>6. t \in Seq(Int) /\ Len(t) = k
  BY <1>3, <1>5
<1>7. files # << >> /\ files \in Seq(Seq(Int))
  BY <1>2 DEF StreamInv, RoomInv, FilesInv
<1>8. files' = [files EXCEPT ![Len(files)] = @ \o t]
  BY <1>1
<1>9. /\ files' \in Seq(Seq(Int)) /\ files' # << >> /\ Len(files') = L
      /\ \A f \in 1 .. L - 1 : files'[f] = files[f]
      /\ S \in Seq(Int) /\ files'[L] = S \o t
  BY <1>6, <1>7, <1>8, LongerFile
<1>10. /\ L \in Nat /\ L \in 1 .. L /\ LastLen = Len(S)
       /\ LastLen \in 0 .. splitsize
  BY <1>7, LastLenFacts DEF StreamInv
<1>11. /\ Len(S \o t) = LastLen + k
       /\ \A j \in 1 .. LastLen + k :
             (S \o t)[j] = IF j <= LastLen THEN S[j] ELSE t[j - LastLen]
  BY <1>6, <1>9, <1>10, ConcatProperties
<1>12. LastLen' = LastLen + k
  BY <1>9, <1>11 DEF LastLen
<1>13. rd = FirstOf(L) + LastLen
  BY <1>2, <1>7, FileNumbers DEF StreamInv, PositionInv, Copied
<1>14. LastLen + k <= splitsize
  BY <1>2, FileNumbers DEF StreamInv, RoomInv, Written
<1>15. RoomInv'
  BY <1>2, <1>9, <1>12, FileNumbers DEF StreamInv, RoomInv, Written
<1>16. PositionInv'
  <2>1. (FirstOf(Len(files)))' = FirstOf(L) /\ FirstOf(L) \in Int
    BY <1>2, <1>9, <1>10, FirstOfFacts, FileNumbers DEF FirstOf
  <2>2. Copied' = k
    BY <1>2 DEF Copied
  <2> QED BY <1>2, <1>9, <1>10, <1>12, <1>13, <2>1, <2>2 DEF PositionInv
<1>17. FilesHoldTheStream'
  <2> HIDE DEF S, L, t
  <2> SUFFICES ASSUME NEW f \in 1 .. L
               PROVE  /\ Len(files'[f]) <= splitsize
                      /\ f < L => Len(files'[f]) = splitsize
                      /\ (dpc # "none" /\ ~astray) =>
                            \A j \in 1 .. Len(files'[f]) :
                                files'[f][j]
                                   = base + (f - 1) * splitsize + (j - 1)
    BY <1>2, <1>9 DEF FilesHoldTheStream
  <2>1. CASE f = L
    <3>1. files'[f] = S \o t /\ Len(files'[f]) = LastLen + k
      BY <1>9, <1>11, <2>1
    <3>2. ASSUME dpc # "none", ~astray, NEW j \in 1 .. LastLen + k
          PROVE  (S \o t)[j] = FirstOf(L) + (j - 1)
      <4>1. FirstOf(L) \in Int
        BY <1>10, FirstOfFacts, FileNumbers
      <4>2. CASE j <= LastLen
        <5>1. j \in 1 .. Len(files[L])
          BY <1>10, <4>2 DEF S
        <5>2. files[L][j] = base + (L - 1) * splitsize + (j - 1)
          BY <1>10, <3>2, <5>1 DEF StreamInv, FilesInv, FilesHoldTheStream, L
        <5> QED BY <1>11, <4>2, <5>2 DEF FirstOf, S
      <4>3. CASE j > LastLen
        <5>1. j - LastLen \in 1 .. k
          BY <1>10, <4>3, <1>3
        <5>2. (S \o t)[j] = rd + (j - LastLen) - 1
          BY <1>5, <1>10, <1>11, <3>2, <4>3, <5>1
        <5> QED BY <1>10, <1>13, <4>1, <5>2
      <4>4. j \in Int /\ LastLen \in Int
        BY <1>3, <3>2, FileNumbers
      <4>5. j <= LastLen \/ j > LastLen
        BY <4>4
      <4> QED BY <4>2, <4>3, <4>5
    <3> QED BY <1>14, <2>1, <3>1, <3>2, <1>10 DEF FirstOf
  <2>2. CASE f # L
    <3>1. f \in 1 .. L - 1 /\ files'[f] = files[f] /\ f < L
      BY <1>9, <1>10, <2>2
    <3>2. f \in 1 .. L
      OBVIOUS
    <3>3. /\ Len(files[f]) <= splitsize
          /\ f < L => Len(files[f]) = splitsize
          /\ (dpc # "none" /\ ~astray) =>
                \A j \in 1 .. Len(files[f]) :
                    files[f][j] = base + (f - 1) * splitsize + (j - 1)
      BY <3>2 DEF StreamInv, FilesInv, FilesHoldTheStream, L
    <3> QED BY <3>1, <3>3
  <2> QED BY <2>1, <2>2
<1> QED BY <1>2, <1>9, <1>15, <1>16, <1>17 DEF FileParts, FilesInv, StreamInv

LEMMA FileAdvanceParts ==
  ASSUME StreamInv, FileAdvance
  PROVE  FileParts'
<1>1. /\ fpc = "write" /\ rpc = "copied" /\ rpc' = "added" /\ rd' = rd + rn
      /\ UNCHANGED <<fpc, remfile, readsize, files, base, rvec, rn, dpc,
                     astray>>
  BY DEF FileAdvance, ReadAdvance, fileVars, dmxVars
<1>2. /\ LastLen' = LastLen /\ Written' = Written /\ Copied' = 0 /\ Copied = rn
      /\ (FirstOf(Len(files)))' = FirstOf(Len(files))
  BY <1>1 DEF LastLen, Written, Copied, FirstOf
<1>3. RoomInv'
  BY <1>1, <1>2 DEF StreamInv, RoomInv
<1>4. PositionInv'
  BY <1>1, <1>2, FileNumbers DEF StreamInv, PositionInv
<1>5. FilesInv'
  BY <1>1, FilesAlone DEF StreamInv
<1> QED BY <1>3, <1>4, <1>5 DEF FileParts

(* remfile is brought up to date when the vector is written completely. *)
LEMMA FileMaskParts ==
  ASSUME StreamInv, FileMask
  PROVE  FileParts'
<1>1. /\ fpc = "write" /\ rpc = "added" /\ rvec' = Rest(rvec, rn)
      /\ rpc' = IF Total(rvec) = rn THEN "idle" ELSE "have"
      /\ IF rpc' = "idle" THEN fpc' = "loop" /\ remfile' = remfile - readsize
         ELSE UNCHANGED <<fpc, remfile>>
      /\ UNCHANGED <<readsize, files, base, rd, dpc, astray>>
  BY DEF FileMask, ReadMask, Total, dmxVars
<1>2. rvec \in Vectors /\ GoodVector(rvec) /\ rn \in 1 .. Total(rvec)
  BY <1>1 DEF StreamInv, RingInv, RingTypeOK, ShapeInv
<1>3. rpc' = "have" => Total(rvec') = Total(rvec) - rn
  BY <1>1, <1>2, RestFacts, FileNumbers
<1>4. /\ LastLen' = LastLen /\ Written' = 0 /\ Written = rn
      /\ Copied' = Copied /\ (FirstOf(Len(files)))' = FirstOf(Len(files))
  BY <1>1 DEF LastLen, Written, Copied, FirstOf
<1>5. /\ readsize <= remfile
      /\ LastLen = splitsize - remfile + (readsize - Total(rvec) + rn)
      /\ files # << >>
  BY <1>1, <1>4 DEF StreamInv, RoomInv
<1>6. RoomInv'
  <2>1. CASE Total(rvec) = rn
    BY <1>1, <1>4, <1>5, <2>1, FileNumbers DEF RoomInv
  <2>2. CASE Total(rvec) # rn
    BY <1>1, <1>3, <1>4, <1>5, <2>2, FileNumbers DEF RoomInv
  <2> QED BY <2>1, <2>2
<1>7. PositionInv'
  BY <1>1, <1>4 DEF StreamInv, PositionInv
<1>8. FilesInv'
  BY <1>1, FilesAlone DEF StreamInv
<1> QED BY <1>6, <1>7, <1>8 DEF FileParts

(* The steps that only move the FileThread. *)
LEMMA FileMovesParts ==
  ASSUME StreamInv,
         FileOpenFails \/ FileWriteFails \/ FileEmpty \/ FileEmptyCheck
  PROVE  FileParts'
<1>1. UNCHANGED <<remfile, readsize, files, base, rpc, rvec, rn, rd, dpc,
                  astray>>
  BY DEF FileOpenFails, FileWriteFails, FileEmpty, FileEmptyCheck, ringVars,
     dmxVars
<1>2. \/ fpc = "open" /\ fpc' = "done"
      \/ fpc = "write" /\ rpc = "have" /\ fpc' = "done"
      \/ fpc = "loop" /\ fpc' = "empty"
      \/ fpc = "empty" /\ fpc' \in {"loop", "done"}
  BY DEF FileOpenFails, FileWriteFails, FileEmpty, FileEmptyCheck, FileGoto
<1>3. /\ LastLen' = LastLen /\ Copied' = Copied
      /\ (FirstOf(Len(files)))' = FirstOf(Len(files))
  BY <1>1 DEF LastLen, Copied, FirstOf
<1>4. RoomInv'
  BY <1>1, <1>2, <1>3 DEF StreamInv, RoomInv
<1>5. PositionInv'
  BY <1>1, <1>2, <1>3 DEF StreamInv, PositionInv
<1>6. FilesInv'
  BY <1>1, FilesAlone DEF StreamInv
<1> QED BY <1>4, <1>5, <1>6 DEF FileParts

-----------------------------------------------------------------------------
(***************************************************************************)
(* The theorems.                                                           *)
(***************************************************************************)

LEMMA StreamInitInv == Init => StreamInv
<1> SUFFICES ASSUME Init PROVE StreamInv
  OBVIOUS
<1>1. RingInv
  BY InitInv DEF Init
<1>2. Control!ControlTypeOK /\ Control!OneRecording
  BY DEF Init, Control!ControlInit, Control!ControlTypeOK,
     Control!OneRecording, Control!Status, Control!Answers
<1>3. ThreadsInv
  BY Sizes DEF Init, RingInit, ThreadsInv, DmxPlaces, FilePlaces
<1>4. RoomInv /\ PositionInv
  BY SplitFacts DEF Init, RingInit, RoomInv, PositionInv
<1>5. FilesInv
  <2>1. files \in Seq(Seq(Int)) /\ Len(files) = 0 /\ base = 0
    BY DEF Init
  <2> QED BY <2>1 DEF FilesInv, FilesHoldTheStream
<1> QED BY <1>1, <1>2, <1>3, <1>4, <1>5 DEF StreamInv

LEMMA StreamNextInv ==
  ASSUME StreamInv, [Next]_vars
  PROVE  StreamInv'
<1>1. RingInv'
  BY RingStep, RingNextInv DEF StreamInv
<1>2. (Control!ControlTypeOK /\ Control!OneRecording)'
  BY ControlInvKept
<1>3. ThreadsInv'
  <2>1. CASE UNCHANGED vars
    BY <2>1 DEF vars, ringVars, dmxVars, fileVars, StreamInv, ThreadsInv,
       Running
  <2> QED BY <2>1, MainThreadsInv, DmxThreadsInv, FileThreadsInv DEF Next
<1>4. FileParts'
  <2>1. CASE Main \/ DmxTail \/ DmxThread
    BY <2>1, WriterAside, StartEndFiles DEF Main, DmxThread
  <2>2. CASE FileThread
    BY <2>2, FileVectorParts, FileOpenParts, FileWriteParts, FileAdvanceParts,
       FileMaskParts, FileMovesParts DEF FileThread
  <2>3. CASE UNCHANGED vars
    BY <2>3, FilesAside DEF vars, ringVars, fileVars, dmxVars
  <2> QED BY <2>1, <2>2, <2>3 DEF Next
<1> QED BY <1>1, <1>2, <1>3, <1>4 DEF StreamInv, FileParts

(* The variables of the three threads have their types: in particular       *)
(* remfile never falls below zero (stream2file.cpp:330).                    *)
THEOREM StreamTypeCorrect ==
  Spec => []TypeOK
<1>1. StreamInv /\ [Next]_vars => StreamInv'
  BY StreamNextInv
<1>2. StreamInv => TypeOK
  BY DEF StreamInv, RingInv, ThreadsInv, RoomInv, TypeOK, DmxPlaces, FilePlaces
<1> QED BY StreamInitInv, <1>1, <1>2, PTL DEF Spec

(* stream2file.cpp:280: the files hold the stream from its first byte on,   *)
(* and all but the last one exactly splitsize bytes of it, for every size   *)
(* of the buffer, the packets and the files and however read() and write()  *)
(* divide the stream; after the ring buffer has misled a thread, the sizes  *)
(* still hold.                                                              *)
THEOREM StreamIsKept ==
  Spec => []FilesHoldTheStream
<1>1. StreamInv /\ [Next]_vars => StreamInv'
  BY StreamNextInv
<1>2. StreamInv => FilesHoldTheStream
  BY DEF StreamInv, FilesInv
<1> QED BY StreamInitInv, <1>1, <1>2, PTL DEF Spec

(* The DMXThread and the FileThread are one writer and one reader in the    *)
(* sense of ringbuffer.c:20, so they share no slot until one is misled ...  *)
THEOREM StreamNoSharedSlot ==
  Spec => []NoSharedSlot
<1>1. StreamInv /\ [Next]_vars => StreamInv'
  BY StreamNextInv
<1>2. StreamInv => NoSharedSlot
  BY InvNoSharedSlot DEF StreamInv
<1> QED BY StreamInitInv, <1>1, <1>2, PTL DEF Spec

(* ... and until then the buffer between them is a FIFO; a new recording    *)
(* starts with a new one.                                                   *)
THEOREM StreamImplementsFifo ==
  Spec => FifoUntilAstray
<1>1. StreamInv /\ [Next]_vars => StreamInv'
  BY StreamNextInv
<1>2. Init => RingInit
  BY DEF Init
<1>3. StreamInv /\ [Next]_vars => [RingNext]_ringVars
  BY RingStep
<1>4. Spec => RingSpec
  BY StreamInitInv, <1>1, <1>2, <1>3, PTL DEF Spec, RingSpec
<1> QED BY <1>4, RingImplementsFifo

(* The two threads behave, for neutrino, like the recording service that    *)
(* StreamControl describes: busy_count falls once, when both are through    *)
(* and after exit_flag has left RUNNING (stream2file.cpp:533).              *)
THEOREM StreamImplementsControl ==
  Spec => ControlSpec
<1>1. StreamInv /\ [Next]_vars => StreamInv'
  BY StreamNextInv
<1>2. Init => Control!ControlInit
  BY DEF Init
<1>3. StreamInv /\ [Next]_vars => [Control!ControlNext]_(Control!controlVars)
  BY ControlStep
<1> QED BY StreamInitInv, <1>1, <1>2, <1>3, PTL
        DEF Spec, ControlSpec, Control!ControlSpec

(* stream2file.cpp:524-527 frees the buffer after pthread_join: the thread  *)
(* that is joined and the one that joins are out of it, so the guard        *)
(* Outside of Recreate never holds DmxEnd up.                               *)
THEOREM FreedBufferUnused ==
  Spec => [](dpc = "join" /\ fpc = "done" => Outside)
<1>1. StreamInv /\ [Next]_vars => StreamInv'
  BY StreamNextInv
<1>2. StreamInv => (dpc = "join" /\ fpc = "done" => Outside)
  BY DEF StreamInv, ThreadsInv, RoomInv, Outside
<1> QED BY StreamInitInv, <1>1, <1>2, PTL DEF Spec

=============================================================================
