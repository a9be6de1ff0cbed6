--------------------------- MODULE StreamControl ---------------------------
(***************************************************************************)
(* What driver/stream2file.cpp promises the user interface, without the    *)
(* stream itself: start_recording and stop_recording, called by neutrino's *)
(* thread, and the life of the recording thread (DMXThread, which starts   *)
(* and joins the FileThread).  They share exit_flag, busy_count and        *)
(* myfilename without a lock.                                              *)
(*                                                                         *)
(* The recording is one transport stream (write_ts).  The thread counts as *)
(* "run" up to its DEC_BUSY_COUNT; what it does afterwards, reading the    *)
(* shared variables and sending EVT_RECORDING_ENDED, is its `tail', during *)
(* which the next recording may already start.  The bound is one tail at a *)
(* time.                                                                   *)
(***************************************************************************)
EXTENDS Integers, Sequences

CONSTANT Names      \* names of recordings

VARIABLES
    exit_flag,      \* the status; RUNNING tells the threads to go on
    busy_count,     \* recordings that are not over yet
    myfilename,     \* the name of the latest recording
    thread,         \* the recording thread: "none" or "run"
    tail,           \* a thread after its DEC_BUSY_COUNT: "none", "dec" before
                    \*   and "read" after it has read exit_flag
    status,         \* the status it has read
    queue,          \* messages on their way to neutrino's loop
    spc,            \* where start_recording is: "out" (no call), "check",
                    \*   "sleep", "open", "create"; "stop": inside
                    \*   stop_recording
    sname,          \* the argument filename of start_recording
    answer          \* its latest result

callVars == <<spc, sname, answer>>
controlVars == <<exit_flag, busy_count, myfilename, thread, tail, status,
                 queue, spc, sname, answer>>

(* What the threads may write into exit_flag when something goes wrong. *)
Failures == {"BUFFER_OVERFLOW", "WRITE_OPEN_FAILURE", "WRITE_FAILURE",
             "READ_FAILURE"}
Status == Failures \cup {"RUNNING", "IDLE", "RECORDING_THREADS_FAILED"}
Answers == {"none", "OK", "BUSY", "FAILED"}

(* EVT_RECORDING_ENDED with its status and the name of the file. *)
Ended(s, name) == [msg |-> "RECORDING_ENDED", status |-> s, id |-> name]

ControlInit ==
    /\ exit_flag = "IDLE"
    /\ busy_count = 0
    /\ myfilename \in Names
    /\ thread = "none"
    /\ tail = "none"
    /\ status = "IDLE"
    /\ queue = << >>
    /\ spc = "out"
    /\ sname = myfilename
    /\ answer = "none"

-----------------------------------------------------------------------------
(***************************************************************************)
(* start_recording and stop_recording.                                     *)
(***************************************************************************)

StartRecording(name) ==
    /\ spc = "out"
    /\ spc' = "check"
    /\ sname' = name
    /\ answer' = "none"
    /\ UNCHANGED <<exit_flag, busy_count, myfilename, thread, tail, status,
                   queue>>

Return(a) == spc' = "out" /\ answer' = a /\ UNCHANGED sname

(* A recording is running. *)
StartBusy ==
    /\ spc = "check"
    /\ busy_count # 0
    /\ exit_flag = "RUNNING"
    /\ Return("BUSY")
    /\ UNCHANGED <<exit_flag, busy_count, myfilename, thread, tail, status,
                   queue>>

(* One is about to end: "give threads a second to exit". *)
StartSleep ==
    /\ spc = "check"
    /\ busy_count # 0
    /\ exit_flag # "RUNNING"
    /\ spc' = "sleep"
    /\ UNCHANGED <<exit_flag, busy_count, myfilename, thread, tail, status,
                   queue, sname, answer>>

(* It has not ended within the second. *)
StartGiveUp ==
    /\ spc = "sleep"
    /\ busy_count # 0
    /\ Return("BUSY")
    /\ UNCHANGED <<exit_flag, busy_count, myfilename, thread, tail, status,
                   queue>>

\* A second attempt that does not look at busy_count again.
StartOpenAnyway ==
    /\ \/ spc = "check" /\ busy_count = 0
       \/ spc = "sleep"
    /\ busy_count' = busy_count + 1
    /\ myfilename' = sname
    /\ spc' = "open"
    /\ UNCHANGED <<exit_flag, thread, tail, status, queue, sname, answer>>

StartOpen ==
    /\ spc \in {"check", "sleep"}
    /\ busy_count = 0
    /\ busy_count' = busy_count + 1
    /\ myfilename' = sname
    /\ spc' = "open"
    /\ UNCHANGED <<exit_flag, thread, tail, status, queue, sname, answer>>

\* An error path that decrements busy_count twice.
StartFailedTwice ==
    /\ spc = "open"
    /\ busy_count' = busy_count - 2
    /\ Return("FAILED")
    /\ UNCHANGED <<exit_flag, myfilename, thread, tail, status, queue>>

(* The info file, a pid filter or the device cannot be opened. *)
StartFailed ==
    /\ spc = "open"
    /\ busy_count' = busy_count - 1
    /\ Return("FAILED")
    /\ UNCHANGED <<exit_flag, myfilename, thread, tail, status, queue>>

(* Everything is open: the status is set before there is a thread ... *)
StartRunning ==
    /\ spc = "open"
    /\ exit_flag' = "RUNNING"
    /\ spc' = "create"
    /\ UNCHANGED <<busy_count, myfilename, thread, tail, status, queue, sname,
                   answer>>

(* ... which cannot be created.  Only the caller reads busy_count, so that  *)
(* the order in which the two variables are set back does not show. *)
StartNoThread ==
    /\ spc = "create"
    /\ busy_count' = busy_count - 1
    /\ exit_flag' = "RECORDING_THREADS_FAILED"
    /\ Return("FAILED")
    /\ UNCHANGED <<myfilename, thread, tail, status, queue>>

StartOK ==
    /\ spc = "create"
    /\ thread' = "run"
    /\ Return("OK")
    /\ UNCHANGED <<exit_flag, busy_count, myfilename, tail, status, queue>>

(* stop_recording looks at the status and then, before it changes it, loads *)
(* and saves the movie info on the disk.                                    *)
StopRecording ==
    /\ spc = "out"
    /\ exit_flag = "RUNNING"
    /\ spc' = "stop"
    /\ UNCHANGED <<exit_flag, busy_count, myfilename, thread, tail, status,
                   queue, sname, answer>>

StopIdle ==
    /\ spc = "stop"
    /\ exit_flag' = "IDLE"
    /\ spc' = "out"
    /\ UNCHANGED <<busy_count, myfilename, thread, tail, status, queue,
                   sname, answer>>

-----------------------------------------------------------------------------
(***************************************************************************)
(* The recording thread.                                                   *)
(***************************************************************************)

(* Something goes wrong: demux, disk or buffer.  exit_flag is written       *)
(* without a look at what it is by then.                                    *)
ThreadFails(s) ==
    /\ thread = "run"
    /\ exit_flag' = s
    /\ UNCHANGED <<busy_count, myfilename, thread, tail, status, queue,
                   callVars>>

(* It has left its loop, closed the device and joined the FileThread.       *)
ThreadEnds ==
    /\ thread = "run"
    /\ exit_flag # "RUNNING"
    /\ tail = "none"
    /\ thread' = "none"
    /\ tail' = "dec"
    /\ busy_count' = busy_count - 1
    /\ UNCHANGED <<exit_flag, myfilename, status, queue, callVars>>

(* s.status = exit_flag *)
TailReads ==
    /\ tail = "dec"
    /\ status' = exit_flag
    /\ tail' = "read"
    /\ UNCHANGED <<exit_flag, busy_count, myfilename, thread, queue, callVars>>

(* The name is taken from myfilename and the event is sent. *)
TailSends ==
    /\ tail = "read"
    /\ queue' = Append(queue, Ended(status, myfilename))
    /\ tail' = "none"
    /\ UNCHANGED <<exit_flag, busy_count, myfilename, thread, status, callVars>>

ThreadStep ==
    \/ \E s \in Failures : ThreadFails(s)
    \/ ThreadEnds
    \/ TailReads
    \/ TailSends

CallStep ==
    \/ StartBusy \/ StartSleep \/ StartGiveUp
    \/ StartOpen \/ StartFailed \/ StartRunning \/ StartNoThread \/ StartOK

(* neutrino's loop takes the next message. *)
Receive ==
    /\ queue # << >>
    /\ queue' = Tail(queue)
    /\ UNCHANGED <<exit_flag, busy_count, myfilename, thread, tail, status,
                   callVars>>

ControlNext ==
    \/ \E n \in Names : StartRecording(n)
    \/ StopRecording \/ StopIdle
    \/ CallStep
    \/ ThreadStep
    \/ Receive

ControlSpec == ControlInit /\ [][ControlNext]_controlVars

-----------------------------------------------------------------------------
ControlTypeOK ==
    /\ exit_flag \in Status
    /\ busy_count \in Nat
    /\ myfilename \in Names /\ sname \in Names
    /\ thread \in {"none", "run"}
    /\ tail \in {"none", "dec", "read"}
    /\ status \in Status
    /\ spc \in {"out", "check", "sleep", "open", "create", "stop"}
    /\ answer \in Answers

(* busy_count is what keeps two recordings apart, and nothing but its two   *)
(* unlocked reads does: it counts the recording thread or the call that is  *)
(* about to create it, never both, and a status RUNNING has a thread that   *)
(* a stop will end, or one that is just being created.                      *)
OneRecording ==
    /\ busy_count = (IF thread = "run" THEN 1 ELSE 0)
                    + (IF spc \in {"open", "create"} THEN 1 ELSE 0)
    /\ spc \in {"open", "create"} => thread = "none"
    /\ exit_flag = "RUNNING" => thread = "run" \/ spc = "create"

=============================================================================
