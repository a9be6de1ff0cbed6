------------------------------ MODULE Recorder ------------------------------
(***************************************************************************)
(* The recordings of neutrino: the main loop (neutrino.cpp) with the file  *)
(* device (vcrcontrol.cpp), on top of start_recording and stop_recording   *)
(* of StreamControl, between three other actors that are not synchronised  *)
(* with it: timerd, which sends RECORD_START and RECORD_STOP, zapit, which *)
(* executes setRecordMode and reports it back, and the recording thread,   *)
(* which reports its end.  All their messages go through one socket, the   *)
(* queue of StreamControl.                                                 *)
(*                                                                         *)
(* Neutrino has one thread, but its handlers are not atomic: every message *)
(* box runs a loop of its own that handles messages (CMessageBox::exec),   *)
(* and the handler that opened it goes on afterwards.  `stack' holds the   *)
(* handlers that are under way, the innermost one last.                    *)
(***************************************************************************)
EXTENDS StreamControl

CONSTANTS
    Ids,            \* ids of timers
    NoId,           \* no timer
    MaxKeys,        \* bound on the actions of the user and the sleep timer
    MaxFaults,      \* bound on the failures of disk, device and thread
    MaxDepth,       \* bound on the handlers under way
    MaxQueue        \* bound on the messages waiting when a timer sends one

ASSUME RecorderAssumption ==
    /\ NoId \notin Ids
    /\ MaxKeys \in Nat /\ MaxFaults \in Nat /\ MaxDepth \in Nat
    /\ MaxQueue \in Nat

VARIABLES
    recordingstatus,    \* 0 or 1; also the value of the menu item
    recording_id,       \* the timer of the latest recording
    next,               \* eventID of nextRecordingInfo, NoId if NULL
    deviceState,        \* of the file device: "STOP" or "RECORD"
    mode,               \* "tv" or "standby"
    standbyAfterRecord,
    npc,                \* "loop": taking messages; "sync" and "call": inside
                        \*   CFileDevice::Record, before and in
                        \*   start_recording; "stop": in stop_recording;
                        \*   "cancel": a cancel_all message closes the box
                        \*   of the innermost handler
    stack,              \* handlers under way
    timer,              \* timerd: id -> "idle", "running", "over"
    zq,                 \* zapit: commands it has not executed yet
    recordmode,         \*   RECORD_MODE of its currentMode
    zstandby,           \*   its standby
    save_power,         \* standby_save_power of g_settings
    first_id,           \* history: what recording_id was before it was set
    keys, faults        \* bounds: user's actions and failures so far

guiVars == <<recordingstatus, recording_id, next, deviceState, mode,
             standbyAfterRecord, npc, stack>>
zapitVars == <<zq, recordmode, zstandby>>
rigidVars == <<save_power, first_id>>
recorderVars == <<controlVars, guiVars, timer, zapitVars, keys, faults,
                  rigidVars>>

(* The variables of StreamControl but for the queue. *)
streamVars == <<exit_flag, busy_count, myfilename, thread, tail, status, spc,
                sname, answer>>

(* A handler under way: startNextRecording called by RECORD_START ("start") *)
(* or by others ("next"), doGuiRecord from the menu ("menu") or to restart  *)
(* a recording ("restart"), all inside Record or the message box of a       *)
(* failed one; and the message boxes of EVT_RECORDING_ENDED ("ended" if the *)
(* restart comes after it, else "box") and of STANDBY_ON ("standby").       *)
Frames == {"start", "next", "menu", "restart", "ended", "box", "standby"}

Push(f) == Len(stack) < MaxDepth /\ stack' = Append(stack, f)
Top == stack[Len(stack)]
Pop == stack' = SubSeq(stack, 1, Len(stack) - 1)

RecordMode(on) == [msg |-> "RECORDMODE", on |-> on]
TimerMsg(m, id) == [msg |-> m, id |-> id]

RecorderInit ==
    /\ ControlInit
    /\ recordingstatus = 0
    /\ recording_id \in Ids \cup {NoId}      \* not initialised
    /\ first_id = recording_id
    /\ next = NoId
    /\ deviceState = "STOP"
    /\ mode \in {"tv", "standby"}            \* STARTMODE_STANDBY
    /\ standbyAfterRecord = FALSE
    /\ npc = "loop"
    /\ stack = << >>
    /\ timer = [id \in Ids |-> "idle"]
    /\ zq = << >> /\ recordmode = FALSE
    /\ save_power \in BOOLEAN
    /\ zstandby = (save_power /\ mode = "standby")
    /\ keys = 0 /\ faults = 0

-----------------------------------------------------------------------------
(***************************************************************************)
(* timerd, external to neutrino: a recording timer starts and later stops, *)
(* at its stop time or after stopTimerEvent.                               *)
(***************************************************************************)
TimerStarts(id) ==
    /\ timer[id] = "idle"
    /\ Len(queue) < MaxQueue
    /\ timer' = [timer EXCEPT ![id] = "running"]
    /\ queue' = Append(queue, TimerMsg("RECORD_START", id))
    /\ UNCHANGED <<streamVars, guiVars, zapitVars, keys, faults, rigidVars>>

TimerStops(id) ==
    /\ timer[id] = "running"
    /\ Len(queue) < MaxQueue
    /\ timer' = [timer EXCEPT ![id] = "over"]
    /\ queue' = Append(queue, TimerMsg("RECORD_STOP", id))
    /\ UNCHANGED <<streamVars, guiVars, zapitVars, keys, faults, rigidVars>>

(***************************************************************************)
(* zapit executes its next command; in standby it refuses all but the one  *)
(* that ends it.                                                           *)
(***************************************************************************)
Refused(cmd) == zstandby /\ cmd \notin {"enter", "leave"}

(* setRecordMode and unsetRecordMode, with their event. *)
SetRecordMode(on) ==
    /\ recordmode' = on
    /\ queue' = Append(queue, RecordMode(on))
    /\ UNCHANGED zstandby

(* enterStandby and leaveStandby. *)
SetStandby(on) ==
    /\ zstandby' = on
    /\ UNCHANGED <<recordmode, queue>>

ZapitStep ==
    /\ zq # << >>
    /\ zq' = Tail(zq)
    /\ LET cmd == Head(zq) IN
       \/ Refused(cmd) /\ UNCHANGED <<recordmode, zstandby, queue>>
       \/ /\ ~Refused(cmd) /\ cmd \in {"on", "off"}
          /\ SetRecordMode(cmd = "on")
       \/ cmd \in {"enter", "leave"} /\ SetStandby(cmd = "enter")
    /\ UNCHANGED <<streamVars, guiVars, timer, keys, faults, rigidVars>>

-----------------------------------------------------------------------------
(***************************************************************************)
(* Parts of neutrino's handlers.                                           *)
(***************************************************************************)

(* standbyMode, with setStandby under standby_save_power; `before' are the  *)
(* commands sent before.  setStandby waits for zapit's answer: see Ready.   *)
StandbyMode(on, before) ==
    /\ mode' = IF on THEN "standby" ELSE "tv"
    /\ zq' = before \o (IF save_power
                        THEN <<IF on THEN "enter" ELSE "leave">> ELSE << >>)

(* Neutrino takes messages: from the main loop or from the loop of a box,   *)
(* and not while setStandby waits for zapit.                                *)
Ready ==
    /\ npc = "loop"
    /\ zstandby = (save_power /\ mode = "standby")

Message(m) ==
    /\ Ready
    /\ queue # << >>
    /\ Head(queue).msg = m
    /\ queue' = Tail(queue)

(* CFileDevice::Record up to the point where it has zapit's answers:        *)
(* CutBackNeutrino turns the record mode on.  The caller goes on later.     *)
BeginRecord(caller, cmds) ==
    /\ zq' = Append(cmds, "on")
    /\ npc' = "sync"
    /\ Push(caller)

(* A handler that ends here, without a call of Record. *)
Done(cancel) ==
    /\ npc' = IF cancel /\ stack # << >> THEN "cancel" ELSE "loop"
    /\ UNCHANGED stack

(* startNextRecording with the values that the handler has set before. *)
StartNext(rs, nxt, caller, cmds) ==
    IF rs = 0 /\ nxt # NoId
    THEN /\ recording_id' = nxt
         /\ BeginRecord(caller, cmds)
    ELSE /\ UNCHANGED recording_id
         /\ zq' = cmds
         /\ Done(caller = "start")

-----------------------------------------------------------------------------
(***************************************************************************)
(* The handlers.                                                           *)
(***************************************************************************)

RecordStart ==
    /\ Message("RECORD_START")
    /\ LET wake == save_power /\ mode = "standby" IN
       /\ standbyAfterRecord' = (wake \/ standbyAfterRecord)
       /\ mode' = IF wake THEN "tv" ELSE mode
       /\ next' = Head(queue).id
       /\ StartNext(recordingstatus, Head(queue).id, "start",
                    IF wake THEN Append(zq, "leave") ELSE zq)
    /\ UNCHANGED <<streamVars, recordingstatus, deviceState, timer,
                   recordmode, zstandby, keys, faults, rigidVars>>

(* The stop of the recording: CFileDevice::Stop calls stop_recording ...    *)
RecordStop ==
    /\ Message("RECORD_STOP")
    /\ Head(queue).id = recording_id
    /\ deviceState = "RECORD" /\ exit_flag = "RUNNING"
    /\ npc' = "stop"
    /\ spc' = "stop"
    /\ UNCHANGED <<exit_flag, busy_count, myfilename, thread, tail, status,
                   sname, answer, recordingstatus, recording_id, next,
                   deviceState, mode, standbyAfterRecord, stack, timer,
                   zapitVars, keys, faults, rigidVars>>

(* ... which ends with the status IDLE; then RestoreNeutrino turns the      *)
(* record mode off and the next recording is looked for.                    *)
RecordStopEnds ==
    /\ npc = "stop"
    /\ StopIdle
    /\ deviceState' = "STOP"
    /\ recordingstatus' = 0
    /\ StartNext(0, next, "next", Append(zq, "off"))
    /\ UNCHANGED <<next, mode, standbyAfterRecord, timer, recordmode,
                   zstandby, keys, faults, rigidVars>>

(* The stop of a recording that is over already, or of none. *)
RecordStopLate ==
    /\ Message("RECORD_STOP")
    /\ Head(queue).id = recording_id
    /\ ~(deviceState = "RECORD" /\ exit_flag = "RUNNING")
    /\ LET stop == deviceState = "RECORD" IN
       /\ deviceState' = "STOP"
       /\ recordingstatus' = IF stop THEN 0 ELSE recordingstatus
       /\ StartNext(recordingstatus', next, "next",
                    IF stop THEN Append(zq, "off") ELSE zq)
    /\ UNCHANGED <<streamVars, next, mode, standbyAfterRecord, timer,
                   recordmode, zstandby, keys, faults, rigidVars>>

\* A RECORD_STOP that is only compared with the running recording.
RecordStopNotPending ==
    /\ Message("RECORD_STOP")
    /\ Head(queue).id # recording_id
    /\ UNCHANGED <<streamVars, guiVars, timer, zapitVars, keys, faults,
                   rigidVars>>

(* The stop of another recording, perhaps of the one that is to be next. *)
RecordStopOther ==
    /\ Message("RECORD_STOP")
    /\ Head(queue).id # recording_id
    /\ next' = IF next = Head(queue).id THEN NoId ELSE next
    /\ UNCHANGED <<streamVars, recordingstatus, recording_id, deviceState,
                   mode, standbyAfterRecord, npc, stack, timer, zapitVars,
                   keys, faults, rigidVars>>

(* EVT_RECORDMODE, zapit's report. *)
RecordModeChanged ==
    /\ Message("RECORDMODE")
    /\ LET on == Head(queue).on IN
       /\ recordingstatus' = IF on THEN 1 ELSE 0
       /\ IF ~on /\ standbyAfterRecord
          THEN StandbyMode(TRUE, zq) /\ standbyAfterRecord' = FALSE
          ELSE UNCHANGED <<mode, zq, standbyAfterRecord>>
    /\ UNCHANGED <<streamVars, recording_id, next, deviceState, npc, stack,
                   timer, recordmode, zstandby, keys, faults, rigidVars>>

(* doGuiRecord, called with the given recordingstatus.  The chooser of a    *)
(* directory and the box of a failed mount, which the menu may open before  *)
(* Record (recording_choose_direct_rec_dir), are left out.                  *)
DoGuiRecord(rs, caller) ==
    IF rs = 1
    THEN /\ BeginRecord(caller, zq)
         /\ UNCHANGED recording_id
    ELSE StartNext(rs, next, "next", zq)

(* A regular end has a message box and nothing more; a failure is followed  *)
(* by a restart, some after a message box.                                  *)
RecordingEnded ==
    /\ Message("RECORDING_ENDED")
    /\ CASE Head(queue).status \in {"IDLE", "RECORDING_THREADS_FAILED"} ->
              Push("box") /\ UNCHANGED <<recording_id, npc, zq>>
         [] Head(queue).status \in {"READ_FAILURE", "RUNNING"} ->
              DoGuiRecord(recordingstatus, "restart")
         [] OTHER ->
              Push("ended") /\ UNCHANGED <<recording_id, npc, zq>>
    /\ UNCHANGED <<streamVars, recordingstatus, next, deviceState, mode,
                   standbyAfterRecord, timer, recordmode, zstandby, keys,
                   faults, rigidVars>>

-----------------------------------------------------------------------------
(***************************************************************************)
(* CFileDevice::Record, and what its callers do after it.                  *)
(***************************************************************************)

(* zapit has answered; the file is called. *)
RecordCalls ==
    /\ npc = "sync"
    /\ zq = << >>
    /\ npc' = "call"
    /\ \E n \in Names : StartRecording(n)
    /\ UNCHANGED <<recordingstatus, recording_id, next, deviceState, mode,
                   standbyAfterRecord, stack, timer, zapitVars, keys, faults,
                   rigidVars>>

(* createRecordingDir fails: the error without a call. *)
RecordNoDirectory ==
    /\ npc = "sync"
    /\ zq = << >>
    /\ faults < MaxFaults /\ faults' = faults + 1
    /\ zq' = <<"off">>
    /\ npc' = "loop"
    /\ UNCHANGED <<controlVars, recordingstatus, recording_id, next,
                   deviceState, mode, standbyAfterRecord, stack, timer,
                   recordmode, zstandby, keys, rigidVars>>

StreamFault == StartFailed \/ StartNoThread

CallGoesOn ==
    /\ npc = "call"
    /\ \/ /\ \/ StartBusy \/ StartSleep \/ StartGiveUp \/ StartOpen
             \/ StartRunning \/ StartOK
          /\ UNCHANGED faults
       \/ StreamFault /\ faults < MaxFaults /\ faults' = faults + 1
    /\ UNCHANGED <<guiVars, timer, zapitVars, keys, rigidVars>>

(* After the handler of a box below the innermost one: RECORD_START returns *)
(* cancel_all, which closes the box it was taken from.                      *)
Resume(caller) ==
    /\ Pop
    /\ npc' = IF caller = "start" /\ Len(stack) > 1 THEN "cancel" ELSE "loop"

RecordReturnsOK ==
    /\ npc = "call" /\ spc = "out" /\ answer = "OK"
    /\ deviceState' = "RECORD"
    /\ Resume(Top)
    /\ CASE Top \in {"start", "next"} ->
              /\ recordingstatus' = 1
              /\ next' = NoId
              /\ UNCHANGED <<recording_id, timer>>
         [] Top = "menu" ->         \* addImmediateRecordTimerEvent
              /\ \E id \in Ids :
                    /\ timer[id] = "idle"
                    /\ timer' = [timer EXCEPT ![id] = "running"]
                    /\ recording_id' = id
              /\ UNCHANGED <<recordingstatus, next>>
         [] Top = "restart" ->
              UNCHANGED <<recordingstatus, next, recording_id, timer>>
    /\ UNCHANGED <<controlVars, mode, standbyAfterRecord, zapitVars, keys,
                   faults, rigidVars>>

\* An error path that leaves zapit in record mode.
RecordReturnsErrorOn ==
    /\ npc = "call" /\ spc = "out" /\ answer \in {"BUSY", "FAILED"}
    /\ npc' = "loop"
    /\ UNCHANGED <<controlVars, recordingstatus, recording_id, next,
                   deviceState, mode, standbyAfterRecord, stack, timer, zq,
                   recordmode, zstandby, keys, faults, rigidVars>>

\* An error path that takes the device for stopped.
RecordReturnsErrorStop ==
    /\ npc = "call" /\ spc = "out" /\ answer \in {"BUSY", "FAILED"}
    /\ zq' = Append(zq, "off")
    /\ npc' = "loop"
    /\ deviceState' = "STOP"
    /\ UNCHANGED <<controlVars, recordingstatus, recording_id, next, mode,
                   standbyAfterRecord, stack, timer, recordmode, zstandby,
                   keys, faults, rigidVars>>

(* RestoreNeutrino, then the message box: messages are handled before the   *)
(* caller goes on.                                                          *)
RecordReturnsError ==
    /\ npc = "call" /\ spc = "out" /\ answer \in {"BUSY", "FAILED"}
    /\ zq' = Append(zq, "off")
    /\ npc' = "loop"
    /\ UNCHANGED <<controlVars, recordingstatus, recording_id, next,
                   deviceState, mode, standbyAfterRecord, stack, timer,
                   recordmode, zstandby, keys, faults, rigidVars>>

(* The innermost box is closed, by a key, its timeout or cancel_all, and    *)
(* the handler that opened it ends.                                         *)
BoxCloses ==
    /\ Ready \/ npc = "cancel"
    /\ stack # << >>
    /\ \/ /\ Top \in {"start", "next", "menu", "restart"}
          /\ recordingstatus' = 0
          /\ next' = IF Top \in {"start", "next"} THEN NoId ELSE next
          /\ Resume(Top)
          /\ UNCHANGED <<recording_id, zq, standbyAfterRecord>>
       \/ /\ Top \in {"box", "standby"}
          /\ standbyAfterRecord' = (Top = "standby" \/ standbyAfterRecord)
          /\ Resume(Top)
          /\ UNCHANGED <<recordingstatus, recording_id, next, zq>>
       \/ /\ Top = "ended"         \* the restart
          /\ IF recordingstatus = 1
             THEN /\ zq' = Append(zq, "on")
                  /\ npc' = "sync"
                  /\ stack' = [stack EXCEPT ![Len(stack)] = "restart"]
                  /\ UNCHANGED recording_id
             ELSE IF next # NoId
             THEN /\ recording_id' = next
                  /\ zq' = Append(zq, "on")
                  /\ npc' = "sync"
                  /\ stack' = [stack EXCEPT ![Len(stack)] = "next"]
             ELSE Resume(Top) /\ UNCHANGED <<recording_id, zq>>
          /\ UNCHANGED <<recordingstatus, next, standbyAfterRecord>>
    /\ UNCHANGED <<controlVars, deviceState, mode, timer, recordmode,
               zstandby, keys, faults, rigidVars>>

-----------------------------------------------------------------------------
(***************************************************************************)
(* The user: the recording item of the menu, the standby key and the sleep *)
(* timer.                                                                  *)
(***************************************************************************)
Key == Ready /\ keys < MaxKeys /\ keys' = keys + 1

(* The option chooser has changed recordingstatus before doGuiRecord.       *)
MenuRecord ==
    /\ Key
    /\ mode = "tv" /\ stack = << >>
    /\ recordingstatus = 0 => \E id \in Ids : timer[id] = "idle"
    /\ recordingstatus' = 1 - recordingstatus
    /\ DoGuiRecord(recordingstatus', "menu")
    /\ UNCHANGED <<controlVars, next, deviceState, mode, standbyAfterRecord,
                   timer, recordmode, zstandby, faults, rigidVars>>

StandbyOn ==
    /\ Key
    /\ IF save_power /\ recordingstatus # 0
       THEN Push("standby") /\ UNCHANGED <<mode, zq, standbyAfterRecord>>
       ELSE IF mode # "standby"
       THEN /\ StandbyMode(TRUE, zq)
            /\ standbyAfterRecord' = FALSE
            /\ UNCHANGED stack
       ELSE UNCHANGED <<mode, zq, standbyAfterRecord, stack>>
    /\ UNCHANGED <<controlVars, recordingstatus, recording_id, next,
                   deviceState, npc, timer, recordmode, zstandby, faults,
                   rigidVars>>

StandbyOff ==
    /\ Key
    /\ mode = "standby"
    /\ StandbyMode(FALSE, zq)
    /\ UNCHANGED <<controlVars, recordingstatus, recording_id, next,
                   deviceState, standbyAfterRecord, npc, stack, timer,
                   recordmode, zstandby, faults, rigidVars>>

(* The sleep timer of timerd, or a toggle to standby: no look at a          *)
(* recording.                                                               *)
Sleeptimer ==
    /\ Key
    /\ StandbyMode(TRUE, zq)
    /\ standbyAfterRecord' = FALSE
    /\ UNCHANGED <<controlVars, recordingstatus, recording_id, next,
                   deviceState, npc, stack, timer, recordmode, zstandby,
                   faults, rigidVars>>

(* The recording thread.  The failures stand for those with and for those   *)
(* without a message box.                                                   *)
Thread ==
    /\ \/ \E s \in {"READ_FAILURE", "WRITE_FAILURE"} :
             faults < MaxFaults /\ faults' = faults + 1 /\ ThreadFails(s)
       \/ (ThreadEnds \/ TailReads \/ TailSends) /\ UNCHANGED faults
    /\ UNCHANGED <<guiVars, timer, zapitVars, keys, rigidVars>>

-----------------------------------------------------------------------------
Neutrino ==
    \/ RecordStart \/ RecordStop \/ RecordStopEnds \/ RecordStopLate
    \/ RecordStopOther \/ RecordModeChanged
    \/ RecordingEnded \/ RecordCalls \/ RecordNoDirectory \/ CallGoesOn
    \/ RecordReturnsOK \/ RecordReturnsError \/ BoxCloses

RecorderNext ==
    \/ \E id \in Ids : TimerStarts(id) \/ TimerStops(id)
    \/ ZapitStep
    \/ Neutrino
    \/ MenuRecord \/ StandbyOn \/ StandbyOff \/ Sleeptimer
    \/ Thread

RecorderSpec == RecorderInit /\ [][RecorderNext]_recorderVars

-----------------------------------------------------------------------------
(***************************************************************************)
(* Properties.                                                             *)
(***************************************************************************)

(* The variables have their types. *)
RecorderTypeOK ==
    /\ ControlTypeOK
    /\ recordingstatus \in {0, 1}
    /\ recording_id \in Ids \cup {NoId} /\ next \in Ids \cup {NoId}
    /\ deviceState \in {"STOP", "RECORD"}
    /\ mode \in {"tv", "standby"}
    /\ standbyAfterRecord \in BOOLEAN
    /\ npc \in {"loop", "sync", "call", "stop", "cancel"}
    /\ stack \in Seq(Frames)
    /\ timer \in [Ids -> {"idle", "running", "over"}]
    /\ zq \in Seq({"on", "off", "enter", "leave"})
    /\ recordmode \in BOOLEAN /\ zstandby \in BOOLEAN
    /\ save_power \in BOOLEAN /\ first_id \in Ids \cup {NoId}

(* Neutrino stops a recording only if the state of its device is RECORD     *)
(* (neutrino.cpp:2951): whenever it handles a message, a running recording  *)
(* has that state, whatever calls have failed, been refused or been nested  *)
(* in a message box in the meantime.                                        *)
RunningIsStoppable ==
    (exit_flag = "RUNNING" /\ npc # "call") => deviceState = "RECORD"

(* No handler is under way and zapit's reports have arrived. *)
Settled ==
    /\ npc = "loop" /\ stack = << >> /\ zq = << >>
    /\ \A i \in 1 .. Len(queue) : queue[i].msg # "RECORDMODE"

(* recordingstatus is written by the menu, by the handlers, after a message *)
(* box and by zapit's late reports, which may be about an earlier           *)
(* recording.  Once all is quiet, it does not claim a recording that zapit  *)
(* is not in record mode for, and zapit is left in record mode, with its    *)
(* restricted channel list, only while there is something to stop.  (With   *)
(* standby_save_power zapit refuses commands: see StandbyAfterRecording.)   *)
RecordModeSettles ==
    (Settled /\ ~save_power) =>
        /\ recordingstatus = 1 => recordmode
        /\ recordmode => deviceState = "RECORD"

(* A recording that waits for the end of another one is forgotten at its    *)
(* own RECORD_STOP (neutrino.cpp:2972): nextRecordingInfo is that of a      *)
(* timer whose stop is still to come, also while message boxes handle       *)
(* messages.  The one exception is a start that is under way: recording_id  *)
(* is set before Record (neutrino.cpp:4001) and nextRecordingInfo is kept   *)
(* until after the box of a failed one (:4087), so that a RECORD_STOP which *)
(* that box handles is taken for that of the running recording and starts   *)
(* the recording again when its time is over.  recording_id is not          *)
(* initialised; the statement is about the timers whose id is not by        *)
(* accident its first value.                                                *)
PendingNotStopped ==
    next \notin {NoId, first_id} =>
        \/ timer[next] = "running"
        \/ \E i \in 1 .. Len(queue) : queue[i] = TimerMsg("RECORD_STOP", next)
        \/ /\ next = recording_id
           /\ \E i \in 1 .. Len(stack) : stack[i] \in {"start", "next"}

(* neutrino.cpp:3180 "Nach Ende der Aufnahme wird in Standby geschaltet...": *)
(* with standby_save_power the standby, which takes the tuner away from the *)
(* recording, comes after the end of the recording.                         *)
StandbyAfterRecording == zstandby => exit_flag # "RUNNING"

=============================================================================
