---------------------------- MODULE Stream2File ----------------------------
(***************************************************************************)
(* driver/stream2file.cpp: a recording to disk.  The DMXThread fills a     *)
(* ring buffer from the demux device, the FileThread empties it into files *)
(* of limited size, and neutrino's thread starts and stops the recording.  *)
(* The ring buffer is the one of RingBuffer, with its unlocked pointers;   *)
(* the byte numbers of RingBuffer are the positions in the stream.         *)
(***************************************************************************)
EXTENDS RingBuffer, Sequences

CONSTANTS
    Names,      \* names of recordings
    TS_SIZE,    \* bytes of a transport stream packet
    IN_SIZE,    \* bytes asked for in one round of the DMXThread
    Limit,      \* the wanted size of a file
    MaxStarts   \* bound on the calls of start_recording

ASSUME StreamAssumption ==
    /\ TS_SIZE \in Nat \ {0} /\ TS_SIZE < IN_SIZE
    /\ IN_SIZE \in Nat /\ IN_SIZE < Size
    /\ Limit \in Nat /\ Limit >= TS_SIZE
    /\ MaxStarts \in Nat

VARIABLES
    exit_flag, busy_count, myfilename, tail, status, queue, spc, sname, answer,
    starts,         \* calls of start_recording so far
    dpc,            \* where the DMXThread is
    todo, todo2,    \* its bytes to read into vec[0] and into vec[1]
    fpc,            \* where the FileThread is
    remfile,        \* bytes that still fit into its file
    readsize,       \* bytes of the vector it is writing
    files,          \* the files of the recording: sequences of bytes
    base            \* history: the first byte of the recording

dmxVars == <<dpc, todo, todo2>>
fileVars == <<fpc, remfile, readsize, files>>
mainVars == <<busy_count, myfilename, queue, spc, sname, answer, starts>>
vars == <<ringVars, exit_flag, mainVars, tail, status, dmxVars, fileVars, base>>

(* The recording thread as the caller of stream2file sees it. *)
Control == INSTANCE StreamControl WITH
               thread <- IF dpc = "none" THEN "none" ELSE "run"

splitsize == (Limit \div TS_SIZE) * TS_SIZE

Running == exit_flag = "RUNNING"

Init ==
    /\ RingInit
    /\ dpc = "none" /\ todo = 0 /\ todo2 = 0
    /\ fpc = "none" /\ remfile = 0 /\ readsize = 0
    /\ files = << >>
    /\ base = 0
    /\ starts = 0
    /\ Control!ControlInit

-----------------------------------------------------------------------------
(***************************************************************************)
(* neutrino's thread.  A new recording has a new ring buffer, empty, and   *)
(* two new threads.                                                        *)
(***************************************************************************)
Call ==
    /\ starts < MaxStarts
    /\ starts' = starts + 1
    /\ UNCHANGED <<ringVars, dmxVars, fileVars, base>>
    /\ \E name \in Names : Control!StartRecording(name)

CallProceeds ==
    /\ UNCHANGED <<ringVars, dmxVars, fileVars, base, starts>>
    /\ \/ Control!StartBusy \/ Control!StartSleep \/ Control!StartGiveUp
       \/ Control!StartOpen \/ Control!StartFailed \/ Control!StartRunning
       \/ Control!StartNoThread

CallStarts ==
    /\ dpc' = "sync"
    /\ fpc' = "loop"
    /\ files' = << >>
    /\ base' = wr
    /\ UNCHANGED <<ringVars, todo, todo2, remfile, readsize, starts>>
    /\ Control!StartOK

Stop ==
    /\ UNCHANGED <<ringVars, dmxVars, fileVars, base, starts>>
    /\ Control!StopRecording \/ Control!StopIdle

Receive ==
    /\ UNCHANGED <<ringVars, dmxVars, fileVars, base, starts>>
    /\ Control!Receive

-----------------------------------------------------------------------------
(***************************************************************************)
(* DMXThread.                                                              *)
(***************************************************************************)
DmxGoto(from, to) ==
    /\ dpc = from
    /\ dpc' = to

(* The head of the loop that looks for a first packet. *)
DmxSyncCheck ==
    /\ DmxGoto("sync", IF Running THEN "syncpoll" ELSE "close")
    /\ UNCHANGED <<ringVars, exit_flag, mainVars, tail, status, todo, todo2,
                   fileVars, base>>

(* A packet with a sync byte in it: todo is the number of bytes from the    *)
(* sync byte on, r - offset.                                                *)
DmxSynced ==
    /\ dpc \in {"syncpoll", "syncerror"}
    /\ dpc' = "first"
    /\ todo' \in 1 .. TS_SIZE
    /\ wr + todo' <= MaxBytes
    /\ UNCHANGED <<ringVars, exit_flag, mainVars, tail, status, todo2,
                   fileVars, base>>

(* A packet without sync byte, no data, or 15 seconds without any. *)
DmxNotSynced ==
    /\ dpc \in {"syncpoll", "syncerror"}
    /\ dpc' = "sync"
    /\ UNCHANGED <<ringVars, exit_flag, mainVars, tail, status, todo, todo2,
                   fileVars, base>>

(* poll() reports an error; the device is read all the same. *)
DmxSyncError ==
    /\ DmxGoto("syncpoll", "syncerror")
    /\ exit_flag' = "READ_FAILURE"
    /\ UNCHANGED <<ringVars, mainVars, tail, status, todo, todo2,
                   fileVars, base>>

(* ringbuffer_write of what the first packet had.  The buffer is empty and  *)
(* larger than a packet, so that all of it is written.                      *)
DmxFirst ==
    /\ dpc = "first"
    /\ wpc = "idle"
    /\ IF Running
       THEN /\ GetWriteVector(todo)
            /\ UNCHANGED dpc
       ELSE /\ dpc' = "close"
            /\ UNCHANGED ringVars
    /\ UNCHANGED <<exit_flag, mainVars, tail, status, todo, todo2,
                   fileVars, base>>

DmxFirstFill ==
    /\ dpc = "first"
    /\ Fill(todo)
    /\ UNCHANGED <<exit_flag, mainVars, tail, status, dmxVars, fileVars, base>>

(* Any ringbuffer_write_advance, its first store ... *)
DmxAdvance ==
    /\ dpc \in {"first", "read", "error"}
    /\ WriteAdvance
    /\ UNCHANGED <<exit_flag, mainVars, tail, status, dmxVars, fileVars, base>>

(* ... and its second, for the first packet. *)
DmxFirstMask ==
    /\ DmxGoto("first", "loop")
    /\ WriteMask
    /\ todo' = IN_SIZE - todo
    /\ UNCHANGED <<exit_flag, mainVars, tail, status, todo2, fileVars, base>>

(* The head of the main loop. *)
DmxLoopCheck ==
    /\ DmxGoto("loop", IF Running THEN "vector" ELSE "close")
    /\ UNCHANGED <<ringVars, exit_flag, mainVars, tail, status, todo, todo2,
                   fileVars, base>>

(* todo is divided between the two parts of the vector; what does not fit   *)
(* is an overflow.                                                          *)
DmxDivide(v) ==
    /\ todo' = Least(todo, v.len0)
    /\ todo2' = IF todo < v.len0 THEN 0 ELSE todo - v.len0
    /\ exit_flag' = IF todo2' > v.len1 THEN "BUFFER_OVERFLOW" ELSE exit_flag

DmxVector ==
    /\ DmxGoto("vector", "poll")
    /\ IF WriteSpace(write_ptr, read_ptr) > 0
       THEN GetWriteVector(Most) /\ DmxDivide(wvec')
       ELSE UNCHANGED ringVars /\ DmxDivide(NoVector)
    /\ UNCHANGED <<mainVars, tail, status, fileVars, base>>

(* The head of the inner loop; leaving it sets todo for the next round. *)
DmxPollCheck ==
    /\ DmxGoto("poll", IF Running THEN "read" ELSE "loop")
    /\ todo' = IF Running THEN todo ELSE IN_SIZE
    /\ UNCHANGED <<ringVars, exit_flag, mainVars, tail, status, todo2,
                   fileVars, base>>

(* poll() reports an error; the device is read all the same. *)
DmxReadError ==
    /\ DmxGoto("read", "error")
    /\ wpc \in {"idle", "have"}
    /\ exit_flag' = "READ_FAILURE"
    /\ UNCHANGED <<ringVars, mainVars, tail, status, todo, todo2,
                   fileVars, base>>

(* read() puts some of the bytes asked for into the buffer. *)
DmxRead ==
    /\ dpc \in {"read", "error"}
    /\ \E r \in 1 .. todo : Fill(r)
    /\ UNCHANGED <<exit_flag, mainVars, tail, status, dmxVars, fileVars, base>>

DmxMask ==
    /\ dpc \in {"read", "error"}
    /\ WriteMask
    /\ IF wn < todo
       THEN dpc' = "poll" /\ todo' = todo - wn /\ UNCHANGED todo2
       ELSE IF todo2 = 0
            THEN dpc' = "loop" /\ todo' = IN_SIZE /\ UNCHANGED todo2
            ELSE dpc' = "poll" /\ todo' = todo2 /\ todo2' = 0
    /\ UNCHANGED <<exit_flag, mainVars, tail, status, fileVars, base>>

(* read() has nothing, or poll() was interrupted. *)
DmxReadNothing ==
    /\ dpc \in {"read", "error"}
    /\ dpc' = "poll"
    /\ wpc \in {"idle", "have"}
    /\ UNCHANGED <<ringVars, exit_flag, mainVars, tail, status, todo, todo2,
                   fileVars, base>>

(* 5 seconds without data. *)
DmxTimeout ==
    /\ DmxGoto("read", "poll")
    /\ wpc \in {"idle", "have"}
    /\ exit_flag' = "READ_FAILURE"
    /\ UNCHANGED <<ringVars, mainVars, tail, status, todo, todo2,
                   fileVars, base>>

\* A DMXThread that is no longer busy before it waits for the FileThread.
DmxCloseNotBusy ==
    /\ DmxGoto("close", "join")
    /\ busy_count' = busy_count - 1
    /\ UNCHANGED <<ringVars, exit_flag, myfilename, queue, spc, sname, answer,
                   starts, tail, status, todo, todo2, fileVars, base>>

DmxClose ==
    /\ DmxGoto("close", "join")
    /\ UNCHANGED <<ringVars, exit_flag, mainVars, tail, status, todo, todo2,
                   fileVars, base>>

(* The FileThread is joined, the buffer freed, busy_count decremented; the  *)
(* local variables of both threads are gone.                                *)
DmxEnd ==
    /\ DmxGoto("join", "none")
    /\ fpc = "done"
    /\ tail = "none"
    /\ fpc' = "none"
    /\ Recreate
    /\ todo' = 0 /\ todo2' = 0 /\ remfile' = 0 /\ readsize' = 0
    /\ busy_count' = busy_count - 1
    /\ tail' = "dec"
    /\ UNCHANGED <<exit_flag, myfilename, queue, spc, sname, answer, starts,
                   status, files, base>>

(* The event: status and name are read from the shared variables. *)
DmxTail ==
    /\ UNCHANGED <<ringVars, dmxVars, fileVars, base, starts>>
    /\ Control!TailReads \/ Control!TailSends

-----------------------------------------------------------------------------
(***************************************************************************)
(* FileThread.                                                             *)
(***************************************************************************)
FileGoto(from, to) ==
    /\ fpc = from
    /\ fpc' = to

\* A FileThread that looks at its file only when that is full.
FileVectorUncut ==
    /\ FileGoto("loop", IF remfile = 0 THEN "open" ELSE "write")
    /\ GetReadVector(Size)
    /\ readsize' = Least(IF remfile = 0 THEN splitsize ELSE remfile,
                         rvec'.len0 + rvec'.len1)
    /\ UNCHANGED <<exit_flag, mainVars, tail, status, dmxVars, remfile, files,
                   base>>

(* There is something to write: at most as much of it as still fits into    *)
(* the file, or into a new one.                                             *)
FileVector ==
    LET room == IF remfile = 0 THEN splitsize ELSE remfile IN
    /\ FileGoto("loop", IF remfile = 0 THEN "open" ELSE "write")
    /\ GetReadVector(room)
    /\ readsize' = rvec'.len0 + rvec'.len1
    /\ UNCHANGED <<exit_flag, mainVars, tail, status, dmxVars, remfile, files,
                   base>>

FileOpen ==
    /\ FileGoto("open", "write")
    /\ files' = Append(files, << >>)
    /\ remfile' = splitsize
    /\ UNCHANGED <<ringVars, exit_flag, mainVars, tail, status, dmxVars,
                   readsize, base>>

FileOpenFails ==
    /\ FileGoto("open", "done")
    /\ exit_flag' = "WRITE_OPEN_FAILURE"
    /\ UNCHANGED <<ringVars, mainVars, tail, status, dmxVars, remfile,
                   readsize, files, base>>

(* write() takes some bytes of the first part of the vector. *)
FileWrite ==
    /\ fpc = "write"
    /\ \E k \in 1 .. rvec.len0 :
          /\ Take(k)
          /\ files' = [files EXCEPT ![Len(files)] =
                          @ \o [j \in 1 .. k |-> dest'[rd + j - 1]]]
    /\ UNCHANGED <<exit_flag, mainVars, tail, status, dmxVars, fpc, remfile,
                   readsize, base>>

FileAdvance ==
    /\ fpc = "write"
    /\ ReadAdvance
    /\ UNCHANGED <<exit_flag, mainVars, tail, status, dmxVars, fileVars, base>>

(* All bytes written: remfile is reduced by the bytes of the whole vector. *)
FileMask ==
    /\ fpc = "write"
    /\ ReadMask
    /\ IF rpc' = "idle"
       THEN fpc' = "loop" /\ remfile' = remfile - readsize
       ELSE UNCHANGED <<fpc, remfile>>
    /\ UNCHANGED <<exit_flag, mainVars, tail, status, dmxVars, readsize, files,
                   base>>

FileWriteFails ==
    /\ FileGoto("write", "done")
    /\ rpc = "have"
    /\ exit_flag' = "WRITE_FAILURE"
    /\ UNCHANGED <<ringVars, mainVars, tail, status, dmxVars, remfile,
                   readsize, files, base>>

(* Nothing to write ... *)
FileEmpty ==
    /\ FileGoto("loop", "empty")
    /\ ReadSpace(write_ptr, read_ptr) = 0
    /\ UNCHANGED <<ringVars, exit_flag, mainVars, tail, status, dmxVars,
                   remfile, readsize, files, base>>

\* A FileThread that waits for data whatever the state of the recording.
FileEmptyWaits ==
    /\ FileGoto("empty", "loop")
    /\ UNCHANGED <<ringVars, exit_flag, mainVars, tail, status, dmxVars,
                   remfile, readsize, files, base>>

(* ... and that is the end if the recording is over by now. *)
FileEmptyCheck ==
    /\ FileGoto("empty", IF Running THEN "loop" ELSE "done")
    /\ UNCHANGED <<ringVars, exit_flag, mainVars, tail, status, dmxVars,
                   remfile, readsize, files, base>>

-----------------------------------------------------------------------------
Main == Call \/ CallProceeds \/ CallStarts \/ Stop \/ Receive

DmxThread ==
    \/ DmxSyncCheck \/ DmxSynced \/ DmxNotSynced \/ DmxSyncError
    \/ DmxFirst \/ DmxFirstFill \/ DmxAdvance \/ DmxFirstMask
    \/ DmxLoopCheck \/ DmxVector \/ DmxPollCheck \/ DmxReadError
    \/ DmxRead \/ DmxMask \/ DmxReadNothing \/ DmxTimeout \/ DmxClose \/ DmxEnd

FileThread ==
    \/ FileVector \/ FileOpen \/ FileOpenFails \/ FileWrite \/ FileAdvance
    \/ FileMask \/ FileWriteFails \/ FileEmpty \/ FileEmptyCheck

Next == Main \/ DmxThread \/ DmxTail \/ FileThread

Spec == Init /\ [][Next]_vars

(* The kernel runs every thread; poll() and read() return within their      *)
(* timeouts and write() takes data or fails in the end.  DmxTail is the     *)
(* DMXThread of the recording before, no longer counted by busy_count.      *)
FairSpec ==
    Spec /\ WF_vars(DmxThread) /\ WF_vars(FileThread) /\ WF_vars(DmxTail)

-----------------------------------------------------------------------------
(***************************************************************************)
(* Properties.                                                             *)
(***************************************************************************)

(* The variables have their types. *)
TypeOK ==
    /\ RingTypeOK
    /\ Control!ControlTypeOK
    /\ dpc \in {"none", "sync", "syncpoll", "syncerror", "first", "loop",
                "vector", "poll", "read", "error", "close", "join"}
    /\ todo \in 0 .. IN_SIZE /\ todo2 \in 0 .. IN_SIZE
    /\ fpc \in {"none", "loop", "open", "write", "empty", "done"}
    /\ remfile \in 0 .. splitsize /\ readsize \in 0 .. splitsize

(* stream2file.cpp:280 "make sure file contains complete TS-packets and is  *)
(* <= splitsize": the files hold the received stream from its first byte on *)
(* without gap, repetition or reordering, whatever parts read() and write() *)
(* handle, as long as the ring buffer has misled neither thread; no file    *)
(* ever has more than splitsize bytes, and every file but the last has      *)
(* exactly that many.                                                       *)
FilesHoldTheStream ==
    \A f \in 1 .. Len(files) :
        /\ Len(files[f]) <= splitsize
        /\ f < Len(files) => Len(files[f]) = splitsize
        /\ (dpc # "none" /\ ~astray) =>
              \A j \in 1 .. Len(files[f]) :
                  files[f][j] = base + (f - 1) * splitsize + (j - 1)

(* The detailed threads behave, for neutrino, like the recording service of *)
(* StreamControl: in particular busy_count falls only once both threads are *)
(* out of the shared state, and exit_flag is not RUNNING by then.           *)
ControlSpec == Control!ControlSpec

(* A recording that is stopped or has failed comes to its end and reports   *)
(* it: neither thread waits for the other or for data that does not come.   *)
EndsAndReports ==
    /\ (dpc # "none" /\ ~Running) ~> (tail = "dec")
    /\ (tail = "dec") ~> (tail = "none")

=============================================================================
