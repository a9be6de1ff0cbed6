--------------------------- MODULE RecorderProofs ---------------------------
(***************************************************************************)
(* Proofs about Recorder: recordings are kept apart and what is running    *)
(* can be stopped, for any number of timers, keys, failures and nested     *)
(* message boxes.                                                          *)
(***************************************************************************)
EXTENDS Recorder, StreamControlProofs, SequenceTheorems

(* Neutrino's thread is inside start_recording or stop_recording exactly    *)
(* when its handler says so.                                                *)
CallInv ==
    /\ spc \in {"check", "sleep", "open", "create"} => npc = "call"
    /\ spc = "stop" <=> npc = "stop"

(* The state of the device is behind only from the point in start_recording *)
(* where exit_flag is set to the end of Record.                             *)
DeviceInv ==
    exit_flag = "RUNNING" =>
        \/ deviceState = "RECORD"
        \/ npc = "call" /\ (spc = "create" \/ (spc = "out" /\ answer = "OK"))

RecorderInv ==
    /\ ControlInv
    /\ CallInv
    /\ DeviceInv
    /\ deviceState \in {"STOP", "RECORD"}

LEMMA RecorderInitInv == RecorderInit => RecorderInv
BY ControlInitInv
   DEF RecorderInit, RecorderInv, CallInv, DeviceInv, ControlInit

-----------------------------------------------------------------------------
(***************************************************************************)
(* Steps of the main loop that leave stream2file alone.                    *)
(***************************************************************************)

LEMMA QuietStep ==
  ASSUME RecorderInv, UNCHANGED <<streamVars, deviceState>>,
         npc \notin {"call", "stop"}, npc' \notin {"call", "stop"}
  PROVE  RecorderInv'
BY DEF RecorderInv, CallInv, DeviceInv, ControlInv, ControlTypeOK,
       OneRecording, streamVars

(* Steps of the others. *)
LEMMA OtherStep ==
  ASSUME RecorderInv, UNCHANGED <<streamVars, deviceState, npc>>
  PROVE  RecorderInv'
BY DEF RecorderInv, CallInv, DeviceInv, ControlInv, ControlTypeOK,
       OneRecording, streamVars

(* What follows a handler: Record, or the loop the message was taken from. *)
LEMMA StartNextLeaves ==
  ASSUME NEW rs, NEW nxt, NEW caller, NEW cmds, StartNext(rs, nxt, caller, cmds)
  PROVE  npc' \notin {"call", "stop"}
BY DEF StartNext, BeginRecord, Done

LEMMA DoGuiRecordLeaves ==
  ASSUME NEW rs, NEW caller, DoGuiRecord(rs, caller)
  PROVE  npc' \notin {"call", "stop"}
BY StartNextLeaves DEF DoGuiRecord, BeginRecord

LEMMA MessageLoop ==
  ASSUME NEW m, Message(m)
  PROVE  npc = "loop"
BY DEF Message, Ready

-----------------------------------------------------------------------------
LEMMA HandlerInv ==
  ASSUME RecorderInv,
         \/ RecordStart \/ RecordStopOther \/ RecordModeChanged
         \/ RecordingEnded
  PROVE  RecorderInv'
<1>1. CASE RecordStart
  <2>1. npc = "loop" /\ UNCHANGED <<streamVars, deviceState>>
    BY <1>1, MessageLoop DEF RecordStart
  <2>2. npc' \notin {"call", "stop"}
    BY <1>1, StartNextLeaves DEF RecordStart
  <2> QED BY <2>1, <2>2, QuietStep
<1>2. CASE RecordStopOther
  <2>1. UNCHANGED <<streamVars, deviceState, npc>>
    BY <1>2 DEF RecordStopOther
  <2> QED BY <2>1, OtherStep
<1>3. CASE RecordModeChanged
  <2>1. UNCHANGED <<streamVars, deviceState, npc>>
    BY <1>3 DEF RecordModeChanged
  <2> QED BY <2>1, OtherStep
<1>4. CASE RecordingEnded
  <2>1. npc = "loop" /\ UNCHANGED <<streamVars, deviceState>>
    BY <1>4, MessageLoop DEF RecordingEnded
  <2>2. npc' = npc \/ npc' \notin {"call", "stop"}
    BY <1>4, DoGuiRecordLeaves DEF RecordingEnded
  <2> QED BY <2>1, <2>2, QuietStep
<1> QED BY <1>1, <1>2, <1>3, <1>4

(* A stop changes the status before the state of the device. *)
LEMMA StopInv ==
  ASSUME RecorderInv, RecordStop \/ RecordStopEnds \/ RecordStopLate
  PROVE  RecorderInv'
<1>1. CASE RecordStop
  <2>1. /\ npc = "loop" /\ npc' = "stop" /\ spc' = "stop"
        /\ UNCHANGED <<exit_flag, busy_count, myfilename, thread, tail, status,
                       sname, answer, deviceState>>
        /\ deviceState = "RECORD"
    BY <1>1, MessageLoop DEF RecordStop
  <2> QED BY <2>1 DEF RecorderInv, CallInv, DeviceInv, ControlInv,
             ControlTypeOK, OneRecording
<1>2. CASE RecordStopEnds
  <2>1. npc = "stop" /\ StopIdle /\ deviceState' = "STOP"
    BY <1>2 DEF RecordStopEnds
  <2>2. npc' \notin {"call", "stop"}
    BY <1>2, StartNextLeaves DEF RecordStopEnds
  <2>3. ControlInv'
    BY <2>1, ControlNextInv DEF ControlNext, RecorderInv
  <2>4. exit_flag' = "IDLE" /\ spc' = "out"
    BY <2>1 DEF StopIdle
  <2> QED BY <2>1, <2>2, <2>3, <2>4 DEF RecorderInv, CallInv, DeviceInv
<1>3. CASE RecordStopLate
  <2>1. /\ npc = "loop" /\ UNCHANGED streamVars /\ deviceState' = "STOP"
        /\ ~(deviceState = "RECORD" /\ exit_flag = "RUNNING")
    BY <1>3, MessageLoop DEF RecordStopLate
  <2>2. npc' \notin {"call", "stop"}
    BY <1>3, StartNextLeaves DEF RecordStopLate
  <2>3. exit_flag # "RUNNING"
    BY <2>1 DEF RecorderInv, DeviceInv
  <2> QED BY <2>1, <2>2, <2>3 DEF RecorderInv, CallInv, DeviceInv, ControlInv,
             ControlTypeOK, OneRecording, streamVars
<1> QED BY <1>1, <1>2, <1>3

(* CFileDevice::Record and the boxes. *)
LEMMA RecordInv ==
  ASSUME RecorderInv,
         \/ RecordCalls \/ RecordNoDirectory \/ CallGoesOn \/ RecordReturnsOK
         \/ RecordReturnsError \/ BoxCloses
  PROVE  RecorderInv'
<1>1. CASE RecordCalls
  <2>1. PICK n \in Names : StartRecording(n)
    BY <1>1 DEF RecordCalls
  <2>2. npc = "sync" /\ npc' = "call" /\ UNCHANGED deviceState
    BY <1>1 DEF RecordCalls
  <2>3. ControlInv'
    BY <2>1, ControlNextInv DEF ControlNext, RecorderInv
  <2>4. spc' = "check" /\ UNCHANGED exit_flag
    BY <2>1 DEF StartRecording
  <2> QED BY <2>2, <2>3, <2>4 DEF RecorderInv, CallInv, DeviceInv
<1>2. CASE RecordNoDirectory
  <2>1. /\ npc = "sync" /\ npc' = "loop"
        /\ UNCHANGED <<streamVars, deviceState>>
    BY <1>2 DEF RecordNoDirectory, controlVars, streamVars
  <2> QED BY <2>1, QuietStep
<1>3. CASE CallGoesOn
  <2>1. /\ npc = "call" /\ UNCHANGED <<npc, deviceState>> /\ CallStep
    BY <1>3 DEF CallGoesOn, StreamFault, guiVars, CallStep
  <2>2. ControlInv'
    BY <2>1, ControlNextInv DEF ControlNext, RecorderInv
  <2>3. CASE StartBusy \/ StartSleep \/ StartGiveUp \/ StartOpen
    <3>1. spc \in {"check", "sleep"} /\ spc' # "stop" /\ UNCHANGED exit_flag
      BY <2>3 DEF StartBusy, StartSleep, StartGiveUp, StartOpen, Return
    <3> QED BY <2>1, <2>2, <3>1 DEF RecorderInv, CallInv, DeviceInv
  <2>4. CASE StartFailed \/ StartNoThread
    <3>1. /\ spc' = "out"
          /\ \/ spc = "open" /\ UNCHANGED exit_flag
             \/ exit_flag' # "RUNNING"
      BY <2>4 DEF StartFailed, StartNoThread, Return
    <3> QED BY <2>1, <2>2, <3>1 DEF RecorderInv, CallInv, DeviceInv
  <2>5. CASE StartOK
    <3>1. spc' = "out" /\ answer' = "OK"
      BY <2>5 DEF StartOK, Return
    <3> QED BY <2>1, <2>2, <3>1 DEF RecorderInv, CallInv, DeviceInv
  <2>6. CASE StartRunning
    <3>1. spc' = "create"
      BY <2>6 DEF StartRunning
    <3> QED BY <2>1, <2>2, <3>1 DEF RecorderInv, CallInv, DeviceInv
  <2> QED BY <2>1, <2>3, <2>4, <2>5, <2>6 DEF CallStep
<1>4. CASE RecordReturnsOK
  <2>1. /\ npc = "call" /\ spc = "out" /\ deviceState' = "RECORD"
        /\ UNCHANGED streamVars
        /\ npc' \in {"cancel", "loop"}
    BY <1>4 DEF RecordReturnsOK, Resume, controlVars, streamVars
  <2> QED BY <2>1 DEF RecorderInv, CallInv, DeviceInv, ControlInv,
             ControlTypeOK, OneRecording, streamVars
<1>5. CASE RecordReturnsError
  <2>1. /\ npc = "call" /\ npc' = "loop" /\ spc = "out"
        /\ answer \in {"BUSY", "FAILED"}
        /\ UNCHANGED <<streamVars, deviceState>>
    BY <1>5 DEF RecordReturnsError, controlVars, streamVars
  <2> QED BY <2>1 DEF RecorderInv, CallInv, DeviceInv, ControlInv,
             ControlTypeOK, OneRecording, streamVars
<1>6. CASE BoxCloses
  <2>1. npc \in {"loop", "cancel"} /\ UNCHANGED <<streamVars, deviceState>>
    BY <1>6 DEF BoxCloses, Ready, controlVars, streamVars
  <2>2. npc' \in {"loop", "cancel", "sync"}
    BY <1>6 DEF BoxCloses, Resume
  <2> QED BY <2>1, <2>2, QuietStep
<1> QED BY <1>1, <1>2, <1>3, <1>4, <1>5, <1>6

(* The user, and the recording thread. *)
LEMMA AroundInv ==
  ASSUME RecorderInv,
         \/ MenuRecord \/ StandbyOn \/ StandbyOff \/ Sleeptimer \/ Thread
         \/ ZapitStep
         \/ \E id \in Ids : TimerStarts(id) \/ TimerStops(id)
  PROVE  RecorderInv'
<1>1. CASE MenuRecord
  <2>1. npc = "loop" /\ UNCHANGED <<streamVars, deviceState>>
    BY <1>1 DEF MenuRecord, Key, Ready, controlVars, streamVars
  <2>2. npc' \notin {"call", "stop"}
    BY <1>1, DoGuiRecordLeaves DEF MenuRecord
  <2> QED BY <2>1, <2>2, QuietStep
<1>2. CASE StandbyOn \/ StandbyOff \/ Sleeptimer
  <2>1. UNCHANGED <<streamVars, deviceState, npc>>
    BY <1>2 DEF StandbyOn, StandbyOff, Sleeptimer, controlVars, streamVars
  <2> QED BY <2>1, OtherStep
<1>3. CASE Thread
  <2>1. ThreadStep /\ UNCHANGED <<npc, deviceState>>
    BY <1>3 DEF Thread, ThreadStep, guiVars, Failures
  <2>2. ControlInv'
    BY <2>1, ControlNextInv DEF ControlNext, RecorderInv
  <2>3. /\ UNCHANGED <<spc, answer>>
        /\ exit_flag' = "RUNNING" => exit_flag = "RUNNING"
    BY <2>1 DEF ThreadStep, ThreadFails, ThreadEnds, TailReads, TailSends,
                callVars, Failures
  <2> QED BY <2>1, <2>2, <2>3 DEF RecorderInv, CallInv, DeviceInv
<1>4. CASE ZapitStep \/ \E id \in Ids : TimerStarts(id) \/ TimerStops(id)
  <2>1. UNCHANGED <<streamVars, deviceState, npc>>
    BY <1>4 DEF ZapitStep, TimerStarts, TimerStops, guiVars
  <2> QED BY <2>1, OtherStep
<1> QED BY <1>1, <1>2, <1>3, <1>4

-----------------------------------------------------------------------------
(***************************************************************************)
(* The theorems.                                                           *)
(***************************************************************************)

LEMMA RecorderNextInv ==
  ASSUME RecorderInv, [RecorderNext]_recorderVars
  PROVE  RecorderInv'
<1>1. CASE Neutrino
  BY <1>1, HandlerInv, StopInv, RecordInv DEF Neutrino
<1>2. CASE UNCHANGED recorderVars
  <2>1. UNCHANGED <<streamVars, deviceState, npc>>
    BY <1>2 DEF recorderVars, controlVars, streamVars, guiVars
  <2> QED BY <2>1, OtherStep
<1> QED BY <1>1, <1>2, AroundInv DEF RecorderNext

(* Nothing neutrino does, however its handlers are nested, makes it start a *)
(* recording beside another one (stream2file.cpp:568-583).                  *)
THEOREM RecorderOneRecording == RecorderSpec => []OneRecording
<1>1. RecorderInv => OneRecording
  BY DEF RecorderInv, ControlInv
<1> QED
  BY RecorderInitInv, RecorderNextInv, <1>1, PTL DEF RecorderSpec

(* Whenever neutrino handles a message, a running recording is one that its *)
(* RECORD_STOP handler will stop (neutrino.cpp:2951, vcrcontrol.cpp:905).   *)
THEOREM RunningCanBeStopped == RecorderSpec => []RunningIsStoppable
<1>1. RecorderInv => RunningIsStoppable
  BY DEF RecorderInv, DeviceInv, RunningIsStoppable
<1> QED
  BY RecorderInitInv, RecorderNextInv, <1>1, PTL DEF RecorderSpec

-----------------------------------------------------------------------------
(***************************************************************************)
(* The types, with those of the messages and of the handlers under way.    *)
(***************************************************************************)

Messages == [msg : {"RECORD_START", "RECORD_STOP"}, id : Ids]
            \cup [msg : {"RECORDMODE"}, on : BOOLEAN]
            \cup [msg : {"RECORDING_ENDED"}, status : Status, id : Names]

(* The callers of Record. *)
Callers == {"start", "next", "menu", "restart"}

(* Record has a caller, a box that is to be closed is there, and the menu   *)
(* is never opened from a box.                                              *)
FrameInv ==
    /\ npc \in {"sync", "call"} => stack # << >> /\ Top \in Callers
    /\ npc = "cancel" => stack # << >>
    /\ \A i \in 1 .. Len(stack) : stack[i] = "menu" => i = 1

TypeInv == RecorderTypeOK /\ queue \in Seq(Messages) /\ FrameInv

(***************************************************************************)
(* The queue, the commands and the stack are sequences.                    *)
(***************************************************************************)

LEMMA TakeFirst ==
  ASSUME NEW S, NEW q \in Seq(S), q # << >>
  PROVE  /\ Len(q) \in Nat /\ Len(q) >= 1
         /\ Head(q) = q[1] /\ Head(q) \in S
         /\ Tail(q) \in Seq(S) /\ Len(Tail(q)) = Len(q) - 1
         /\ \A i \in 1 .. Len(q) - 1 : Tail(q)[i] = q[i + 1]
<1>1. Len(q) \in Nat /\ Len(q) >= 1
  BY LenProperties, EmptySeq
<1> QED BY <1>1, HeadTailProperties

LEMMA PutLast ==
  ASSUME NEW S, NEW q \in Seq(S), NEW e \in S
  PROVE  /\ Len(q) \in Nat
         /\ Append(q, e) \in Seq(S) /\ Append(q, e) # << >>
         /\ Len(Append(q, e)) = Len(q) + 1
         /\ \A i \in 1 .. Len(q) : Append(q, e)[i] = q[i]
         /\ Append(q, e)[Len(q) + 1] = e
BY AppendProperties, LenProperties

MenuFirst == \A i \in 1 .. Len(stack) : stack[i] = "menu" => i = 1

LEMMA PushFrame ==
  ASSUME stack \in Seq(Frames), MenuFirst, NEW f \in Frames,
         f = "menu" => stack = << >>, Push(f)
  PROVE  /\ stack' \in Seq(Frames) /\ stack' # << >> /\ Top' = f
         /\ Len(stack') = Len(stack) + 1
         /\ \A i \in 1 .. Len(stack) : stack'[i] = stack[i]
         /\ MenuFirst'
<1>1. stack' = Append(stack, f)
  BY DEF Push
<1>2. /\ Len(stack) \in Nat
      /\ stack' \in Seq(Frames) /\ stack' # << >>
      /\ Len(stack') = Len(stack) + 1
      /\ \A i \in 1 .. Len(stack) : stack'[i] = stack[i]
      /\ stack'[Len(stack) + 1] = f
  BY <1>1, PutLast
<1>3. MenuFirst'
  BY <1>2 DEF MenuFirst
<1> QED BY <1>2, <1>3 DEF Top

LEMMA PopFrame ==
  ASSUME stack \in Seq(Frames), stack # << >>, MenuFirst, Pop
  PROVE  /\ Len(stack) \in Nat /\ Len(stack) >= 1
         /\ stack' \in Seq(Frames) /\ Len(stack') = Len(stack) - 1
         /\ \A i \in 1 .. Len(stack) - 1 : stack'[i] = stack[i]
         /\ Len(stack) > 1 => stack' # << >>
         /\ MenuFirst'
<1>1. stack' = SubSeq(stack, 1, Len(stack) - 1)
  BY DEF Pop
<1>2. Len(stack) \in Nat /\ Len(stack) >= 1
  BY LenProperties, EmptySeq
<1>3. /\ stack' \in Seq(Frames) /\ Len(stack') = Len(stack) - 1
      /\ \A i \in 1 .. Len(stack) - 1 : stack'[i] = stack[i]
  <2> DEFINE n == Len(stack) - 1
  <2>1. n \in Nat
    BY <1>2
  <2>2. \A i \in 1 .. n : stack[i] \in Frames
    BY <1>2, ElementOfSeq
  <2> HIDE DEF n
  <2>3. /\ SubSeq(stack, 1, n) \in Seq(Frames)
        /\ Len(SubSeq(stack, 1, n)) = IF 1 <= n THEN n - 1 + 1 ELSE 0
        /\ \A i \in 1 .. n - 1 + 1 : SubSeq(stack, 1, n)[i] = stack[1 + i - 1]
    BY <2>1, <2>2, SubSeqProperties
  <2>4. stack' = SubSeq(stack, 1, n)
    BY <1>1 DEF n
  <2>5. Len(stack') = n /\ \A i \in 1 .. n : stack'[i] = stack[i]
    BY <2>1, <2>3, <2>4
  <2> QED BY <2>3, <2>4, <2>5 DEF n
<1>4. Len(stack) > 1 => stack' # << >>
  BY <1>2, <1>3
<1>5. MenuFirst'
  BY <1>2, <1>3 DEF MenuFirst
<1> QED BY <1>2, <1>3, <1>4, <1>5

LEMMA ChangeFrame ==
  ASSUME stack \in Seq(Frames), stack # << >>, MenuFirst,
         NEW f \in Frames \ {"menu"},
         stack' = [stack EXCEPT ![Len(stack)] = f]
  PROVE  /\ stack' \in Seq(Frames) /\ stack' # << >> /\ Top' = f
         /\ Len(stack') = Len(stack)
         /\ \A i \in 1 .. Len(stack) - 1 : stack'[i] = stack[i]
         /\ MenuFirst'
<1>1. /\ Len(stack) \in Nat /\ Len(stack) >= 1
      /\ DOMAIN stack = 1 .. Len(stack)
  BY LenProperties, EmptySeq
<1>2. stack' \in Seq(Frames) /\ Len(stack') = Len(stack)
  BY <1>1, ExceptSeq
<1>3. stack'[Len(stack)] = f
  BY <1>1
<1>4. ASSUME NEW i \in 1 .. Len(stack) - 1 PROVE stack'[i] = stack[i]
  <2>1. \A n \in Nat : \A k \in 1 .. n - 1 : k \in 1 .. n /\ k # n
    OBVIOUS
  <2>2. i \in DOMAIN stack /\ i # Len(stack)
    BY <1>1, <2>1
  <2> QED BY <2>2
<1>5. MenuFirst'
  BY <1>1, <1>2, <1>3, <1>4 DEF MenuFirst
<1>6. stack' # << >>
  BY <1>1, <1>2
<1> QED BY <1>2, <1>3, <1>4, <1>5, <1>6 DEF Top

(***************************************************************************)
(* Each step keeps the types.  ControlTypeOK' is known from RecorderInv'.  *)
(***************************************************************************)

Cmds == {"on", "off", "enter", "leave"}

(* A message that is taken, and one that is sent. *)
LEMMA MessageTaken ==
  ASSUME TypeInv, NEW m, Message(m)
  PROVE  /\ Head(queue) \in Messages /\ Head(queue).msg = m
         /\ queue' \in Seq(Messages)
         /\ m \in {"RECORD_START", "RECORD_STOP"} => Head(queue).id \in Ids
         /\ m = "RECORDMODE" => Head(queue).on \in BOOLEAN
<1>1. queue # << >> /\ queue' = Tail(queue) /\ Head(queue).msg = m
  BY DEF Message
<1>2. Head(queue) \in Messages /\ queue' \in Seq(Messages)
  BY <1>1, TakeFirst DEF TypeInv
<1> QED BY <1>1, <1>2 DEF Messages

LEMMA SomeMessages ==
  /\ \A id \in Ids : /\ TimerMsg("RECORD_START", id) \in Messages
                     /\ TimerMsg("RECORD_STOP", id) \in Messages
  /\ \A on \in BOOLEAN : RecordMode(on) \in Messages
  /\ \A st \in Status, n \in Names : Ended(st, n) \in Messages
BY DEF Messages, TimerMsg, RecordMode, Ended

(* What a handler that may call Record leaves behind. *)
GuiTypes ==
    /\ recording_id \in Ids \cup {NoId}
    /\ npc \in {"loop", "sync", "call", "stop", "cancel"}
    /\ stack \in Seq(Frames)
    /\ zq \in Seq(Cmds)
    /\ FrameInv

LEMMA BeginRecordTypes ==
  ASSUME TypeInv, NEW caller \in Callers, NEW cmds \in Seq(Cmds),
         caller = "menu" => stack = << >>, BeginRecord(caller, cmds),
         recording_id' \in Ids \cup {NoId}
  PROVE  GuiTypes'
<1>1. /\ stack' \in Seq(Frames) /\ stack' # << >> /\ Top' = caller
      /\ MenuFirst'
  BY PushFrame DEF TypeInv, RecorderTypeOK, FrameInv, MenuFirst, BeginRecord,
     Callers, Frames
<1>2. zq' \in Seq(Cmds) /\ npc' = "sync"
  BY PutLast DEF BeginRecord, Cmds
<1>3. FrameInv'
  BY <1>1, <1>2 DEF FrameInv, MenuFirst
<1> QED BY <1>1, <1>2, <1>3 DEF GuiTypes

LEMMA StartNextTypes ==
  ASSUME TypeInv, NEW rs, NEW nxt \in Ids \cup {NoId},
         NEW caller \in {"start", "next"}, NEW cmds \in Seq(Cmds),
         StartNext(rs, nxt, caller, cmds)
  PROVE  GuiTypes'
<1>1. CASE rs = 0 /\ nxt # NoId
  <2>1. BeginRecord(caller, cmds) /\ recording_id' = nxt
    BY <1>1 DEF StartNext
  <2> QED BY <2>1, BeginRecordTypes DEF Callers
<1>2. CASE ~(rs = 0 /\ nxt # NoId)
  <2>1. /\ UNCHANGED <<recording_id, stack>> /\ zq' = cmds
        /\ npc' \in {"loop", "cancel"}
        /\ npc' = "cancel" => stack # << >>
    BY <1>2 DEF StartNext, Done
  <2> QED BY <2>1 DEF TypeInv, RecorderTypeOK, GuiTypes, FrameInv
<1> QED BY <1>1, <1>2

LEMMA DoGuiRecordTypes ==
  ASSUME TypeInv, NEW rs, NEW caller \in {"menu", "restart"},
         caller = "menu" => stack = << >>, DoGuiRecord(rs, caller)
  PROVE  GuiTypes'
<1>1. zq \in Seq(Cmds) /\ next \in Ids \cup {NoId}
  BY DEF TypeInv, RecorderTypeOK, Cmds
<1>2. CASE rs = 1
  <2>1. BeginRecord(caller, zq) /\ UNCHANGED recording_id
    BY <1>2 DEF DoGuiRecord
  <2> QED BY <1>1, <2>1, BeginRecordTypes
          DEF TypeInv, RecorderTypeOK, Callers
<1>3. CASE rs # 1
  BY <1>1, <1>3, StartNextTypes DEF DoGuiRecord
<1> QED BY <1>2, <1>3

(* The rest of the state, apart from the queue. *)
RestTypes ==
    /\ recordingstatus \in {0, 1}
    /\ next \in Ids \cup {NoId}
    /\ deviceState \in {"STOP", "RECORD"}
    /\ mode \in {"tv", "standby"}
    /\ standbyAfterRecord \in BOOLEAN
    /\ timer \in [Ids -> {"idle", "running", "over"}]
    /\ recordmode \in BOOLEAN /\ zstandby \in BOOLEAN
    /\ save_power \in BOOLEAN /\ first_id \in Ids \cup {NoId}

LEMMA TypeParts ==
  TypeInv <=> /\ ControlTypeOK /\ GuiTypes /\ RestTypes
              /\ queue \in Seq(Messages)
BY DEF TypeInv, RecorderTypeOK, GuiTypes, RestTypes, Cmds

LEMMA TypePartsNext ==
  ASSUME ControlTypeOK', GuiTypes', RestTypes', queue' \in Seq(Messages)
  PROVE  TypeInv'
BY DEF TypeInv, RecorderTypeOK, GuiTypes, RestTypes, Cmds

LEMMA TimerZapitTypes ==
  ASSUME TypeInv, ControlTypeOK',
         ZapitStep \/ \E id \in Ids : TimerStarts(id) \/ TimerStops(id)
  PROVE  TypeInv'
<1>1. GuiTypes /\ RestTypes /\ queue \in Seq(Messages)
  BY TypeParts
<1>2. CASE ZapitStep
  <2>1. /\ UNCHANGED <<guiVars, timer, rigidVars>>
        /\ zq # << >> /\ zq' = Tail(zq)
    BY <1>2 DEF ZapitStep
  <2>2. zq' \in Seq(Cmds)
    BY <1>1, <2>1, TakeFirst DEF GuiTypes
  <2>3. /\ recordmode' \in BOOLEAN /\ zstandby' \in BOOLEAN
        /\ \/ UNCHANGED queue
           \/ \E on \in BOOLEAN : queue' = Append(queue, RecordMode(on))
    BY <1>1, <1>2 DEF ZapitStep, SetRecordMode, SetStandby, RestTypes
  <2>4. queue' \in Seq(Messages)
    BY <1>1, <2>3, SomeMessages, PutLast
  <2>5. GuiTypes' /\ RestTypes'
    BY <1>1, <2>1, <2>2, <2>3
       DEF GuiTypes, RestTypes, FrameInv, Top, guiVars, rigidVars
  <2> QED BY <2>4, <2>5, TypePartsNext
<1>3. ASSUME NEW id \in Ids, TimerStarts(id) \/ TimerStops(id) PROVE TypeInv'
  <2>1. /\ UNCHANGED <<guiVars, zapitVars, rigidVars>>
        /\ \E st \in {"running", "over"} :
              timer' = [timer EXCEPT ![id] = st]
        /\ \E m \in {"RECORD_START", "RECORD_STOP"} :
              queue' = Append(queue, TimerMsg(m, id))
    BY <1>3 DEF TimerStarts, TimerStops
  <2>2. queue' \in Seq(Messages)
    BY <1>1, <2>1, SomeMessages, PutLast
  <2>3. timer' \in [Ids -> {"idle", "running", "over"}]
    BY <1>1, <2>1 DEF RestTypes
  <2>4. GuiTypes' /\ RestTypes'
    BY <1>1, <2>1, <2>3
       DEF GuiTypes, RestTypes, FrameInv, Top, guiVars, zapitVars, rigidVars
  <2> QED BY <2>2, <2>4, TypePartsNext
<1> QED BY <1>2, <1>3

LEMMA HandlerTypes ==
  ASSUME TypeInv, ControlTypeOK',
         \/ RecordStart \/ RecordStop \/ RecordStopEnds \/ RecordStopLate
         \/ RecordStopOther \/ RecordModeChanged \/ RecordingEnded
  PROVE  TypeInv'
<1>0. GuiTypes /\ RestTypes /\ queue \in Seq(Messages)
  BY TypeParts
<1>1. CASE RecordStart
  <2>1. /\ Message("RECORD_START")
        /\ standbyAfterRecord' \in BOOLEAN /\ mode' \in {"tv", "standby"}
        /\ next' = Head(queue).id
        /\ \E cmds \in {zq, Append(zq, "leave")} :
              StartNext(recordingstatus, Head(queue).id, "start", cmds)
        /\ UNCHANGED <<recordingstatus, deviceState, timer, recordmode,
                       zstandby, rigidVars>>
    BY <1>0, <1>1 DEF RecordStart, RestTypes
  <2>2. queue' \in Seq(Messages) /\ Head(queue).id \in Ids
    BY <2>1, MessageTaken
  <2>3. Append(zq, "leave") \in Seq(Cmds)
    BY <1>0, PutLast DEF GuiTypes, Cmds
  <2>4. GuiTypes'
    BY <1>0, <2>1, <2>2, <2>3, StartNextTypes DEF GuiTypes
  <2>5. RestTypes'
    BY <1>0, <2>1, <2>2 DEF RestTypes, rigidVars
  <2> QED BY <2>2, <2>4, <2>5, TypePartsNext
<1>2. CASE RecordStop
  <2>1. queue' \in Seq(Messages)
    BY <1>2, MessageTaken DEF RecordStop
  <2>2. GuiTypes' /\ RestTypes'
    BY <1>0, <1>2
       DEF RecordStop, GuiTypes, RestTypes, FrameInv, Top, zapitVars, rigidVars
  <2> QED BY <2>1, <2>2, TypePartsNext
<1>3. CASE RecordStopEnds
  <2>1. /\ StopIdle /\ deviceState' = "STOP" /\ recordingstatus' = 0
        /\ StartNext(0, next, "next", Append(zq, "off"))
        /\ UNCHANGED <<next, mode, standbyAfterRecord, timer, recordmode,
                       zstandby, rigidVars>>
    BY <1>3 DEF RecordStopEnds
  <2>2. queue' = queue
    BY <2>1 DEF StopIdle
  <2>3. Append(zq, "off") \in Seq(Cmds)
    BY <1>0, PutLast DEF GuiTypes, Cmds
  <2>4. GuiTypes'
    BY <1>0, <2>1, <2>3, StartNextTypes DEF RestTypes
  <2>5. RestTypes'
    BY <1>0, <2>1 DEF RestTypes, rigidVars
  <2> QED BY <1>0, <2>2, <2>4, <2>5, TypePartsNext
<1>4. CASE RecordStopLate
  <2>1. /\ Message("RECORD_STOP") /\ deviceState' = "STOP"
        /\ recordingstatus' \in {0, recordingstatus}
        /\ \E cmds \in {zq, Append(zq, "off")} :
              StartNext(recordingstatus', next, "next", cmds)
        /\ UNCHANGED <<next, mode, standbyAfterRecord, timer, recordmode,
                       zstandby, rigidVars>>
    BY <1>4 DEF RecordStopLate
  <2>2. queue' \in Seq(Messages)
    BY <2>1, MessageTaken
  <2>3. Append(zq, "off") \in Seq(Cmds)
    BY <1>0, PutLast DEF GuiTypes, Cmds
  <2>4. GuiTypes'
    BY <1>0, <2>1, <2>3, StartNextTypes DEF GuiTypes, RestTypes
  <2>5. RestTypes'
    BY <1>0, <2>1 DEF RestTypes, rigidVars
  <2> QED BY <2>2, <2>4, <2>5, TypePartsNext
<1>5. CASE RecordStopOther
  <2>1. queue' \in Seq(Messages)
    BY <1>5, MessageTaken DEF RecordStopOther
  <2>2. GuiTypes' /\ RestTypes'
    BY <1>0, <1>5
       DEF RecordStopOther, GuiTypes, RestTypes, FrameInv, Top, zapitVars,
           rigidVars
  <2> QED BY <2>1, <2>2, TypePartsNext
<1>6. CASE RecordModeChanged
  <2>1. queue' \in Seq(Messages)
    BY <1>6, MessageTaken DEF RecordModeChanged
  <2>2. zq' \in Seq(Cmds)
    <3>1. \/ zq' = zq
          \/ zq' = zq \o <<"enter">>
          \/ zq' = zq \o << >>
      BY <1>6 DEF RecordModeChanged, StandbyMode
    <3>2. <<"enter">> \in Seq(Cmds) /\ << >> \in Seq(Cmds)
      BY DEF Cmds
    <3> QED BY <1>0, <3>1, <3>2, ConcatProperties DEF GuiTypes
  <2>3. GuiTypes'
    BY <1>0, <1>6, <2>2 DEF RecordModeChanged, GuiTypes, FrameInv, Top
  <2>4. RestTypes'
    BY <1>0, <1>6 DEF RecordModeChanged, StandbyMode, RestTypes, rigidVars
  <2> QED BY <2>1, <2>3, <2>4, TypePartsNext
<1>7. CASE RecordingEnded
  <2>1. /\ Message("RECORDING_ENDED")
        /\ \/ DoGuiRecord(recordingstatus, "restart")
           \/ /\ Push("ended") \/ Push("box")
              /\ UNCHANGED <<recording_id, npc, zq>>
        /\ UNCHANGED <<recordingstatus, next, deviceState, mode,
                       standbyAfterRecord, timer, recordmode, zstandby,
                       rigidVars>>
    BY <1>7 DEF RecordingEnded
  <2>2. queue' \in Seq(Messages) /\ npc = "loop"
    BY <2>1, MessageTaken, MessageLoop
  <2>4. ASSUME DoGuiRecord(recordingstatus, "restart") PROVE GuiTypes'
    BY <2>4, DoGuiRecordTypes
  <2>5. ASSUME NEW f \in {"ended", "box"}, Push(f),
               UNCHANGED <<recording_id, npc, zq>>
        PROVE  GuiTypes'
    <3>1. stack' \in Seq(Frames) /\ MenuFirst'
      BY <1>0, <2>5, PushFrame DEF GuiTypes, FrameInv, MenuFirst, Frames
    <3> QED BY <1>0, <2>2, <2>5, <3>1 DEF GuiTypes, FrameInv, MenuFirst
  <2>6. RestTypes'
    BY <1>0, <2>1 DEF RestTypes, rigidVars
  <2> QED BY <2>1, <2>2, <2>4, <2>5, <2>6, TypePartsNext
<1> QED BY <1>1, <1>2, <1>3, <1>4, <1>5, <1>6, <1>7

(* The innermost handler ends. *)
LEMMA ResumeTypes ==
  ASSUME TypeInv, stack # << >>, NEW caller, Resume(caller),
         recording_id' \in Ids \cup {NoId}, zq' = zq
  PROVE  GuiTypes'
<1>1. /\ Pop /\ npc' \in {"cancel", "loop"}
      /\ npc' = "cancel" => Len(stack) > 1
  BY DEF Resume
<1>2. stack' \in Seq(Frames) /\ MenuFirst' /\ (Len(stack) > 1 => stack' # << >>)
  BY <1>1, PopFrame DEF TypeInv, RecorderTypeOK, FrameInv, MenuFirst
<1> QED BY <1>1, <1>2
        DEF TypeInv, RecorderTypeOK, GuiTypes, FrameInv, MenuFirst, Cmds

LEMMA RecordTypes ==
  ASSUME TypeInv, ControlTypeOK',
         \/ RecordCalls \/ RecordNoDirectory \/ CallGoesOn \/ RecordReturnsOK
         \/ RecordReturnsError
  PROVE  TypeInv'
<1>0. GuiTypes /\ RestTypes /\ queue \in Seq(Messages)
  BY TypeParts
<1>1. CASE RecordCalls
  <2>1. queue' = queue
    BY <1>1 DEF RecordCalls, StartRecording
  <2>2. GuiTypes' /\ RestTypes'
    BY <1>0, <1>1
       DEF RecordCalls, GuiTypes, RestTypes, FrameInv, Top, zapitVars,
           rigidVars
  <2> QED BY <1>0, <2>1, <2>2, TypePartsNext
<1>2. CASE RecordNoDirectory
  <2>1. queue' = queue
    BY <1>2 DEF RecordNoDirectory, controlVars
  <2>2. <<"off">> \in Seq(Cmds)
    BY DEF Cmds
  <2>3. GuiTypes' /\ RestTypes'
    BY <1>0, <1>2, <2>2
       DEF RecordNoDirectory, GuiTypes, RestTypes, FrameInv, Top, rigidVars
  <2> QED BY <1>0, <2>1, <2>3, TypePartsNext
<1>3. CASE CallGoesOn
  <2>1. queue' = queue
    BY <1>3 DEF CallGoesOn, StreamFault, StartBusy, StartSleep, StartGiveUp,
       StartOpen, StartRunning, StartOK, StartFailed, StartNoThread
  <2>2. GuiTypes' /\ RestTypes'
    BY <1>0, <1>3
       DEF CallGoesOn, GuiTypes, RestTypes, FrameInv, Top, guiVars, zapitVars,
           rigidVars
  <2> QED BY <1>0, <2>1, <2>2, TypePartsNext
<1>4. CASE RecordReturnsOK
  <2>1. /\ npc = "call" /\ deviceState' = "RECORD" /\ Resume(Top)
        /\ UNCHANGED <<controlVars, mode, standbyAfterRecord, zapitVars,
                       rigidVars>>
    BY <1>4 DEF RecordReturnsOK
  <2>2. stack # << >> /\ Top \in Callers
    BY <1>0, <2>1 DEF GuiTypes, FrameInv
  <2>3. /\ recordingstatus' \in {recordingstatus, 1}
        /\ next' \in {next, NoId}
        /\ recording_id' \in Ids \cup {recording_id}
        /\ \/ timer' = timer
           \/ \E id \in Ids : timer' = [timer EXCEPT ![id] = "running"]
    BY <1>4, <2>2 DEF RecordReturnsOK, Callers
  <2>4. queue' = queue /\ zq' = zq
    BY <2>1 DEF controlVars, zapitVars
  <2>5. GuiTypes'
    BY <1>0, <2>1, <2>2, <2>3, <2>4, ResumeTypes DEF GuiTypes
  <2>6. timer' \in [Ids -> {"idle", "running", "over"}]
    BY <1>0, <2>3 DEF RestTypes
  <2>7. RestTypes'
    BY <1>0, <2>1, <2>3, <2>6 DEF RestTypes, zapitVars, rigidVars
  <2> QED BY <1>0, <2>4, <2>5, <2>7, TypePartsNext
<1>5. CASE RecordReturnsError
  <2>1. queue' = queue
    BY <1>5 DEF RecordReturnsError, controlVars
  <2>2. Append(zq, "off") \in Seq(Cmds)
    BY <1>0, PutLast DEF GuiTypes, Cmds
  <2>3. GuiTypes' /\ RestTypes'
    BY <1>0, <1>5, <2>2
       DEF RecordReturnsError, GuiTypes, RestTypes, FrameInv, Top, rigidVars
  <2> QED BY <1>0, <2>1, <2>3, TypePartsNext
<1> QED BY <1>1, <1>2, <1>3, <1>4, <1>5

(* A box that is closed ends its handler, or goes on with Record. *)
LEMMA BoxTypes ==
  ASSUME TypeInv, ControlTypeOK', BoxCloses
  PROVE  TypeInv'
<1>0. GuiTypes /\ RestTypes /\ queue \in Seq(Messages)
  BY TypeParts
<1>1. /\ stack # << >> /\ queue' = queue
      /\ recordingstatus' \in {recordingstatus, 0}
      /\ next' \in {next, NoId}
      /\ \/ standbyAfterRecord' = standbyAfterRecord
         \/ standbyAfterRecord' = (Top = "standby" \/ standbyAfterRecord)
      /\ UNCHANGED <<deviceState, mode, timer, recordmode, zstandby, rigidVars>>
  BY DEF BoxCloses, controlVars
<1>2. RestTypes'
  BY <1>0, <1>1 DEF RestTypes, rigidVars
<1>3. \/ Resume(Top) /\ UNCHANGED <<recording_id, zq>>
      \/ /\ zq' = Append(zq, "on") /\ npc' = "sync"
         /\ recording_id' \in {recording_id, next}
         /\ \E f \in {"restart", "next"} :
               stack' = [stack EXCEPT ![Len(stack)] = f]
  BY DEF BoxCloses
<1>4. ASSUME Resume(Top), UNCHANGED <<recording_id, zq>> PROVE GuiTypes'
  BY <1>0, <1>1, <1>4, ResumeTypes DEF GuiTypes
<1>5. ASSUME zq' = Append(zq, "on"), npc' = "sync",
             recording_id' \in {recording_id, next},
             NEW f \in {"restart", "next"},
             stack' = [stack EXCEPT ![Len(stack)] = f]
      PROVE  GuiTypes'
  <2>1. /\ stack' \in Seq(Frames) /\ stack' # << >> /\ Top' = f /\ MenuFirst'
    BY <1>0, <1>1, <1>5, ChangeFrame DEF GuiTypes, FrameInv, MenuFirst, Frames
  <2>2. zq' \in Seq(Cmds)
    BY <1>0, <1>5, PutLast DEF GuiTypes, Cmds
  <2> QED BY <1>0, <1>5, <2>1, <2>2
          DEF GuiTypes, RestTypes, FrameInv, MenuFirst, Callers
<1> QED BY <1>0, <1>1, <1>2, <1>3, <1>4, <1>5, TypePartsNext

LEMMA StandbyModeTypes ==
  ASSUME GuiTypes, NEW on \in BOOLEAN, StandbyMode(on, zq)
  PROVE  zq' \in Seq(Cmds) /\ mode' \in {"tv", "standby"}
<1>1. \/ zq' = zq \o <<"enter">>
      \/ zq' = zq \o <<"leave">>
      \/ zq' = zq \o << >>
  BY DEF StandbyMode
<1>2. /\ <<"enter">> \in Seq(Cmds) /\ <<"leave">> \in Seq(Cmds)
      /\ << >> \in Seq(Cmds)
  BY DEF Cmds
<1>3. zq' \in Seq(Cmds)
  BY <1>1, <1>2, ConcatProperties DEF GuiTypes
<1> QED BY <1>3 DEF StandbyMode

(* The user and the recording thread. *)
LEMMA AroundTypes ==
  ASSUME TypeInv, ControlTypeOK',
         \/ MenuRecord \/ StandbyOn \/ StandbyOff \/ Sleeptimer \/ Thread
  PROVE  TypeInv'
<1>0. GuiTypes /\ RestTypes /\ queue \in Seq(Messages)
  BY TypeParts
<1>1. CASE MenuRecord
  <2>1. /\ stack = << >> /\ recordingstatus' = 1 - recordingstatus
        /\ DoGuiRecord(recordingstatus', "menu")
        /\ UNCHANGED <<controlVars, next, deviceState, mode,
                       standbyAfterRecord, timer, recordmode, zstandby,
                       rigidVars>>
    BY <1>1 DEF MenuRecord
  <2>2. GuiTypes'
    BY <2>1, DoGuiRecordTypes
  <2>3. RestTypes'
    BY <1>0, <2>1 DEF RestTypes, rigidVars
  <2> QED BY <1>0, <2>1, <2>2, <2>3, TypePartsNext DEF controlVars
<1>2. CASE StandbyOff \/ Sleeptimer
  <2>1. /\ npc' = npc /\ stack' = stack /\ recording_id' = recording_id
        /\ queue' = queue
        /\ \E on \in BOOLEAN : StandbyMode(on, zq)
        /\ standbyAfterRecord' \in {standbyAfterRecord, FALSE}
        /\ UNCHANGED <<recordingstatus, next, deviceState, timer, recordmode,
                       zstandby, rigidVars>>
    BY <1>2 DEF StandbyOff, Sleeptimer, controlVars
  <2>2. zq' \in Seq(Cmds) /\ mode' \in {"tv", "standby"}
    BY <1>0, <2>1, StandbyModeTypes
  <2>3. GuiTypes'
    BY <1>0, <2>1, <2>2 DEF GuiTypes, FrameInv, Top
  <2>4. RestTypes'
    BY <1>0, <2>1, <2>2 DEF RestTypes, rigidVars
  <2> QED BY <1>0, <2>1, <2>3, <2>4, TypePartsNext
<1>3. CASE StandbyOn
  <2>1. /\ npc = "loop" /\ npc' = npc /\ recording_id' = recording_id
        /\ queue' = queue
        /\ \/ Push("standby") /\ UNCHANGED <<mode, zq>>
           \/ StandbyMode(TRUE, zq) /\ UNCHANGED stack
           \/ UNCHANGED <<mode, zq, stack>>
        /\ standbyAfterRecord' \in {standbyAfterRecord, FALSE}
        /\ UNCHANGED <<recordingstatus, next, deviceState, timer, recordmode,
                       zstandby, rigidVars>>
    BY <1>3 DEF StandbyOn, Key, Ready, controlVars
  <2>2. zq' \in Seq(Cmds) /\ mode' \in {"tv", "standby"}
    BY <1>0, <2>1, StandbyModeTypes DEF GuiTypes, RestTypes
  <2>3. stack' \in Seq(Frames) /\ MenuFirst'
    <3>1. stack \in Seq(Frames) /\ MenuFirst
      BY <1>0 DEF GuiTypes, FrameInv, MenuFirst
    <3>2. ASSUME Push("standby") PROVE stack' \in Seq(Frames) /\ MenuFirst'
      BY <3>1, <3>2, PushFrame DEF Frames
    <3>3. ASSUME stack' = stack PROVE stack' \in Seq(Frames) /\ MenuFirst'
      BY <3>1, <3>3 DEF MenuFirst
    <3> QED BY <2>1, <3>2, <3>3
  <2>4. GuiTypes' /\ RestTypes'
    BY <1>0, <2>1, <2>2, <2>3
       DEF GuiTypes, RestTypes, FrameInv, MenuFirst, rigidVars
  <2> QED BY <1>0, <2>1, <2>4, TypePartsNext
<1>4. CASE Thread
  <2>1. /\ UNCHANGED <<guiVars, timer, zapitVars, rigidVars>>
        /\ \/ queue' = queue
           \/ queue' = Append(queue, Ended(status, myfilename))
    BY <1>4 DEF Thread, ThreadFails, ThreadEnds, TailReads, TailSends
  <2>2. queue' \in Seq(Messages)
    <3>1. Ended(status, myfilename) \in Messages
      BY SomeMessages DEF TypeInv, RecorderTypeOK, ControlTypeOK
    <3> QED BY <1>0, <2>1, <3>1, PutLast
  <2>3. GuiTypes' /\ RestTypes'
    BY <1>0, <2>1
       DEF GuiTypes, RestTypes, FrameInv, Top, guiVars, zapitVars, rigidVars
  <2> QED BY <2>2, <2>3, TypePartsNext
<1> QED BY <1>1, <1>2, <1>3, <1>4

LEMMA RecorderInitTypes == RecorderInit => TypeInv
<1> SUFFICES ASSUME RecorderInit PROVE TypeInv
  OBVIOUS
<1>1. ControlTypeOK
  BY ControlInitInv DEF RecorderInit, ControlInv
<1>2. stack = << >> /\ zq = << >> /\ queue = << >>
  BY DEF RecorderInit, ControlInit
<1>3. GuiTypes
  BY <1>2 DEF RecorderInit, GuiTypes, FrameInv
<1>4. RestTypes
  BY DEF RecorderInit, RestTypes
<1> QED BY <1>1, <1>2, <1>3, <1>4, TypeParts

LEMMA RecorderNextTypes ==
  ASSUME RecorderInv, TypeInv, [RecorderNext]_recorderVars
  PROVE  TypeInv'
<1>1. ControlTypeOK'
  BY RecorderNextInv DEF RecorderInv, ControlInv
<1>2. CASE UNCHANGED recorderVars
  BY <1>1, <1>2
     DEF recorderVars, controlVars, guiVars, zapitVars, rigidVars, TypeInv,
         RecorderTypeOK, FrameInv, Top
<1>3. CASE Neutrino
  BY <1>1, <1>3, HandlerTypes, RecordTypes, BoxTypes DEF Neutrino
<1> QED BY <1>1, <1>2, <1>3, TimerZapitTypes, AroundTypes DEF RecorderNext

(* The variables have their types, however the handlers of neutrino are     *)
(* nested in message boxes.                                                 *)
THEOREM RecorderTypeCorrect == RecorderSpec => []RecorderTypeOK
<1>1. RecorderInit => RecorderInv /\ TypeInv
  BY RecorderInitInv, RecorderInitTypes
<1>2. RecorderInv /\ TypeInv /\ [RecorderNext]_recorderVars
         => RecorderInv' /\ TypeInv'
  BY RecorderNextInv, RecorderNextTypes
<1>3. TypeInv => RecorderTypeOK
  BY DEF TypeInv
<1> QED BY <1>1, <1>2, <1>3, PTL DEF RecorderSpec

-----------------------------------------------------------------------------
(***************************************************************************)
(* The record mode.  Without standby_save_power zapit executes every       *)
(* command.  `Final' is its record mode once it has executed them all.     *)
(***************************************************************************)
Final == IF zq = << >> THEN recordmode ELSE zq[Len(zq)] = "on"

(* zapit is not in standby; Record waits until the record mode is on, and   *)
(* it stays on only for a recording.                                        *)
OrderInv ==
    /\ ~zstandby
    /\ \A i \in 1 .. Len(zq) : zq[i] \in {"on", "off"}
    /\ npc = "sync" => Final
    /\ npc = "call" => zq = << >> /\ recordmode
    /\ Final => deviceState = "RECORD" \/ npc \in {"sync", "call"}

IsReport(i) == queue[i].msg = "RECORDMODE"
NoReport == \A i \in 1 .. Len(queue) : ~IsReport(i)

(* The latest report on its way tells the record mode; so when none is left *)
(* recordingstatus agrees with it.                                          *)
LatestReport ==
    \A i \in 1 .. Len(queue) :
        (IsReport(i) /\ \A j \in i + 1 .. Len(queue) : ~IsReport(j))
            => queue[i].on = recordmode
ReportInv ==
    /\ LatestReport
    /\ (zq = << >> /\ NoReport /\ recordingstatus = 1) => recordmode

ModeInv == ~save_power => OrderInv /\ ReportInv

(* The commands after a handler. *)
LEMMA CommandAdded ==
  ASSUME NEW q \in Seq(Cmds), \A i \in 1 .. Len(q) : q[i] \in {"on", "off"},
         NEW c \in {"on", "off"}, zq' = Append(q, c)
  PROVE  /\ zq' # << >>
         /\ \A i \in 1 .. Len(zq') : zq'[i] \in {"on", "off"}
         /\ Final' = (c = "on")
<1>1. /\ Len(q) \in Nat /\ zq' # << >> /\ Len(zq') = Len(q) + 1
      /\ \A i \in 1 .. Len(q) : zq'[i] = q[i]
      /\ zq'[Len(q) + 1] = c
  BY PutLast DEF Cmds
<1>2. \A i \in 1 .. Len(zq') : zq'[i] \in {"on", "off"}
  BY <1>1
<1> QED BY <1>1, <1>2 DEF Final

LEMMA OrderOn ==
  ASSUME TypeInv, OrderInv, zq' = Append(zq, "on"), npc' = "sync",
         UNCHANGED <<zstandby, recordmode>>
  PROVE  OrderInv' /\ zq' # << >>
BY CommandAdded DEF TypeInv, RecorderTypeOK, OrderInv, Cmds

LEMMA OrderOff ==
  ASSUME TypeInv, OrderInv, zq' = Append(zq, "off"),
         npc' \notin {"sync", "call"}, UNCHANGED <<zstandby, recordmode>>
  PROVE  OrderInv' /\ zq' # << >>
BY CommandAdded DEF TypeInv, RecorderTypeOK, OrderInv, Cmds

LEMMA OrderOffOn ==
  ASSUME TypeInv, OrderInv, zq' = Append(Append(zq, "off"), "on"),
         npc' = "sync", UNCHANGED <<zstandby, recordmode>>
  PROVE  OrderInv' /\ zq' # << >>
<1> DEFINE q == Append(zq, "off")
<1>1. zq \in Seq(Cmds) /\ \A i \in 1 .. Len(zq) : zq[i] \in {"on", "off"}
  BY DEF TypeInv, RecorderTypeOK, OrderInv, Cmds
<1>2. /\ Len(zq) \in Nat /\ q \in Seq(Cmds) /\ Len(q) = Len(zq) + 1
      /\ \A i \in 1 .. Len(zq) : q[i] = zq[i]
      /\ q[Len(zq) + 1] = "off"
  BY <1>1, PutLast DEF Cmds
<1>3. \A i \in 1 .. Len(q) : q[i] \in {"on", "off"}
  BY <1>1, <1>2
<1> HIDE DEF q
<1>4. /\ zq' # << >> /\ Final'
      /\ \A i \in 1 .. Len(zq') : zq'[i] \in {"on", "off"}
  <2>1. zq' = Append(q, "on")
    BY DEF q
  <2> QED BY <1>2, <1>3, <2>1, CommandAdded
<1> QED BY <1>4 DEF OrderInv

LEMMA OrderKept ==
  ASSUME OrderInv, UNCHANGED <<zq, zstandby, recordmode>>,
         deviceState = "RECORD" => deviceState' = "RECORD",
         \/ npc \notin {"sync", "call"} /\ npc' \notin {"sync", "call"}
         \/ npc' = npc
  PROVE  OrderInv'
BY DEF OrderInv, Final

(* The queue without a new report, and with its oldest report gone. *)
LEMMA QueueReports ==
  ASSUME TypeInv, LatestReport, recordmode' = recordmode,
         \/ queue' = queue
         \/ \E m : m # "RECORDMODE" /\ Message(m)
         \/ \E e \in Messages : e.msg # "RECORDMODE"
                                /\ queue' = Append(queue, e)
  PROVE  LatestReport' /\ (NoReport' => NoReport)
<1>1. CASE queue' = queue
  BY <1>1 DEF LatestReport, NoReport, IsReport
<1>2. ASSUME NEW m, m # "RECORDMODE", Message(m)
      PROVE  LatestReport' /\ (NoReport' => NoReport)
  <2>1. queue # << >> /\ queue' = Tail(queue) /\ Head(queue).msg # "RECORDMODE"
    BY <1>2 DEF Message
  <2>2. /\ Len(queue) \in Nat /\ Len(queue) >= 1
        /\ queue[1].msg # "RECORDMODE" /\ Len(queue') = Len(queue) - 1
        /\ \A i \in 1 .. Len(queue) - 1 : queue'[i] = queue[i + 1]
    BY <2>1, TakeFirst DEF TypeInv
  <2>3. ASSUME NEW i \in 1 .. Len(queue'), IsReport(i)',
               \A j \in i + 1 .. Len(queue') : ~IsReport(j)'
        PROVE  queue'[i].on = recordmode
    <3>1. i + 1 \in 1 .. Len(queue) /\ queue'[i] = queue[i + 1]
      BY <2>2
    <3>2. ASSUME NEW j \in i + 1 + 1 .. Len(queue) PROVE ~IsReport(j)
      <4>1. /\ j - 1 \in i + 1 .. Len(queue') /\ j - 1 \in 1 .. Len(queue) - 1
            /\ (j - 1) + 1 = j
        BY <2>2
      <4>2. queue'[j - 1] = queue[j]
        BY <2>2, <4>1
      <4> QED BY <2>3, <4>1, <4>2 DEF IsReport
    <3> QED BY <2>3, <3>1, <3>2 DEF LatestReport, IsReport
  <2>4. ASSUME NoReport', NEW i \in 1 .. Len(queue) PROVE ~IsReport(i)
    <3>1. CASE i = 1
      BY <2>2, <3>1 DEF IsReport
    <3>2. CASE i # 1
      <4>1. i - 1 \in 1 .. Len(queue') /\ i - 1 \in 1 .. Len(queue) - 1
            /\ (i - 1) + 1 = i
        BY <2>2, <3>2
      <4>2. queue'[i - 1] = queue[i]
        BY <2>2, <4>1
      <4> QED BY <2>4, <4>1, <4>2 DEF NoReport, IsReport
    <3> QED BY <3>1, <3>2
  <2> QED BY <2>3, <2>4 DEF LatestReport, NoReport
<1>3. ASSUME NEW e \in Messages, e.msg # "RECORDMODE",
             queue' = Append(queue, e)
      PROVE  LatestReport' /\ (NoReport' => NoReport)
  <2>1. /\ Len(queue) \in Nat /\ Len(queue') = Len(queue) + 1
        /\ \A i \in 1 .. Len(queue) : queue'[i] = queue[i]
        /\ queue'[Len(queue) + 1] = e
    BY <1>3, PutLast DEF TypeInv
  <2>2. ASSUME NEW i \in 1 .. Len(queue'), IsReport(i)',
               \A j \in i + 1 .. Len(queue') : ~IsReport(j)'
        PROVE  queue'[i].on = recordmode
    <3>1. i \in 1 .. Len(queue)
      BY <1>3, <2>1, <2>2 DEF IsReport
    <3>2. \A j \in i + 1 .. Len(queue) : ~IsReport(j)
      BY <2>1, <2>2 DEF IsReport
    <3> QED BY <2>1, <2>2, <3>1, <3>2 DEF LatestReport, IsReport
  <2> QED BY <2>1, <2>2 DEF LatestReport, NoReport, IsReport
<1> QED BY <1>1, <1>2, <1>3

LEMMA ReportTaken ==
  ASSUME TypeInv, LatestReport, recordmode' = recordmode, Message("RECORDMODE")
  PROVE  LatestReport' /\ (NoReport' => Head(queue).on = recordmode)
<1>1. queue # << >> /\ queue' = Tail(queue) /\ Head(queue).msg = "RECORDMODE"
  BY DEF Message
<1>2. /\ Len(queue) \in Nat /\ Len(queue) >= 1
      /\ Head(queue) = queue[1] /\ Len(queue') = Len(queue) - 1
      /\ \A i \in 1 .. Len(queue) - 1 : queue'[i] = queue[i + 1]
  BY <1>1, TakeFirst DEF TypeInv
<1>3. ASSUME NEW j \in 2 .. Len(queue)
      PROVE  j - 1 \in 1 .. Len(queue') /\ queue'[j - 1] = queue[j]
  <2>1. j - 1 \in 1 .. Len(queue) - 1 /\ (j - 1) + 1 = j
    BY <1>2
  <2> QED BY <1>2, <2>1
<1>4. ASSUME NEW i \in 1 .. Len(queue'), IsReport(i)',
             \A j \in i + 1 .. Len(queue') : ~IsReport(j)'
      PROVE  queue'[i].on = recordmode
  <2>1. i + 1 \in 1 .. Len(queue) /\ queue'[i] = queue[i + 1]
    BY <1>2
  <2>2. ASSUME NEW j \in i + 1 + 1 .. Len(queue) PROVE ~IsReport(j)
    <3>1. j - 1 \in i + 1 .. Len(queue') /\ j \in 2 .. Len(queue)
      BY <1>2
    <3> QED BY <1>3, <1>4, <3>1 DEF IsReport
  <2> QED BY <1>4, <2>1, <2>2 DEF LatestReport, IsReport
<1>5. ASSUME NoReport' PROVE Head(queue).on = recordmode
  <2>1. \A j \in 1 + 1 .. Len(queue) : ~IsReport(j)
    BY <1>3, <1>5 DEF NoReport, IsReport
  <2>2. 1 \in 1 .. Len(queue) /\ IsReport(1)
    BY <1>1, <1>2 DEF IsReport
  <2> QED BY <1>2, <2>1, <2>2 DEF LatestReport
<1> QED BY <1>4, <1>5 DEF LatestReport

(* What is left of ReportInv when no report is taken: recordingstatus is    *)
(* not set to 1 without a command or the record mode.                       *)
LEMMA ReportKept ==
  ASSUME TypeInv, ReportInv, recordmode' = recordmode,
         \/ queue' = queue
         \/ \E m : m # "RECORDMODE" /\ Message(m)
         \/ \E e \in Messages : e.msg # "RECORDMODE"
                                /\ queue' = Append(queue, e),
         \/ zq' # << >>
         \/ recordingstatus' = 0
         \/ recordmode
         \/ zq' = zq /\ recordingstatus' = recordingstatus
  PROVE  ReportInv'
<1>1. LatestReport' /\ (NoReport' => NoReport)
  BY QueueReports DEF ReportInv
<1> QED BY <1>1 DEF ReportInv

LEMMA StartNextOrders ==
  ASSUME NEW rs, NEW nxt, NEW caller, NEW cmds, StartNext(rs, nxt, caller, cmds)
  PROVE  \/ zq' = Append(cmds, "on") /\ npc' = "sync"
         \/ zq' = cmds /\ npc' \in {"loop", "cancel"}
BY DEF StartNext, BeginRecord, Done

LEMMA DoGuiRecordOrders ==
  ASSUME NEW rs, NEW caller, DoGuiRecord(rs, caller)
  PROVE  \/ zq' = Append(zq, "on") /\ npc' = "sync"
         \/ zq' = zq /\ npc' \in {"loop", "cancel"} /\ rs # 1
BY StartNextOrders DEF DoGuiRecord, BeginRecord

LEMMA ZapitMode ==
  ASSUME TypeInv, OrderInv, ReportInv, ZapitStep
  PROVE  OrderInv' /\ ReportInv'
<1>1. zq # << >> /\ zq' = Tail(zq) /\ ~zstandby /\ UNCHANGED <<npc, deviceState>>
  BY DEF ZapitStep, OrderInv, guiVars
<1>2. /\ Len(zq) \in Nat /\ Len(zq) >= 1 /\ Head(zq) = zq[1]
      /\ Len(zq') = Len(zq) - 1
      /\ \A i \in 1 .. Len(zq) - 1 : zq'[i] = zq[i + 1]
      /\ zq' \in Seq(Cmds)
  BY <1>1, TakeFirst DEF TypeInv, RecorderTypeOK, Cmds
<1>3. Head(zq) \in {"on", "off"}
  BY <1>2 DEF OrderInv
<1>4. /\ recordmode' = (Head(zq) = "on") /\ zstandby' = zstandby
      /\ queue' = Append(queue, RecordMode(Head(zq) = "on"))
  BY <1>1, <1>3 DEF ZapitStep, Refused, SetRecordMode
<1>5. Final' = Final
  <2>1. CASE Len(zq) = 1
    <3>1. zq' = << >>
      BY <1>2, <2>1, EmptySeq
    <3> QED BY <1>1, <1>2, <1>4, <2>1, <3>1 DEF Final
  <2>2. CASE Len(zq) # 1
    <3>1. zq' # << >> /\ zq'[Len(zq')] = zq[Len(zq)]
      <4>1. Len(zq) - 1 \in 1 .. Len(zq) - 1 /\ (Len(zq) - 1) + 1 = Len(zq)
        BY <1>2, <2>2
      <4>2. zq'[Len(zq) - 1] = zq[Len(zq)]
        BY <1>2, <4>1
      <4>3. Len(zq') # 0
        BY <1>2, <2>2
      <4> QED BY <1>2, <4>2, <4>3
    <3> QED BY <1>1, <3>1 DEF Final
  <2> QED BY <2>1, <2>2
<1>6. \A i \in 1 .. Len(zq') : zq'[i] \in {"on", "off"}
  <2> SUFFICES ASSUME NEW i \in 1 .. Len(zq') PROVE zq'[i] \in {"on", "off"}
    OBVIOUS
  <2>1. i + 1 \in 1 .. Len(zq) /\ zq'[i] = zq[i + 1]
    BY <1>2
  <2> QED BY <2>1 DEF OrderInv
<1>7. OrderInv'
  BY <1>1, <1>4, <1>5, <1>6 DEF OrderInv
<1>8. ReportInv'
  <2>1. RecordMode(Head(zq) = "on") \in Messages
    BY SomeMessages
  <2>2. /\ Len(queue) \in Nat /\ Len(queue') = Len(queue) + 1
        /\ queue'[Len(queue) + 1] = RecordMode(Head(zq) = "on")
    BY <1>4, <2>1, PutLast DEF TypeInv
  <2>3. /\ queue'[Len(queue')].msg = "RECORDMODE"
        /\ Len(queue') \in 1 .. Len(queue')
    BY <2>2 DEF RecordMode
  <2>4. queue'[Len(queue')].on = recordmode'
    BY <1>4, <2>2 DEF RecordMode
  <2>5. LatestReport'
    <3> SUFFICES ASSUME NEW i \in 1 .. Len(queue'),
                        \A j \in i + 1 .. Len(queue') : ~IsReport(j)'
                 PROVE  i = Len(queue')
      BY <2>4 DEF LatestReport
    <3> QED BY <2>2, <2>3 DEF IsReport
  <2>6. ~NoReport'
    BY <2>3 DEF NoReport, IsReport
  <2> QED BY <2>5, <2>6 DEF ReportInv
<1> QED BY <1>7, <1>8

LEMMA HandlerMode ==
  ASSUME TypeInv, OrderInv, ReportInv, ~save_power,
         \/ RecordStart \/ RecordStop \/ RecordStopEnds \/ RecordStopLate
         \/ RecordStopOther \/ RecordModeChanged \/ RecordingEnded
  PROVE  OrderInv' /\ ReportInv'
<1>1. CASE RecordStart
  <2>1. /\ Message("RECORD_START") /\ npc = "loop"
        /\ StartNext(recordingstatus, Head(queue).id, "start", zq)
        /\ UNCHANGED <<recordingstatus, deviceState, recordmode, zstandby>>
    BY <1>1, MessageLoop DEF RecordStart
  <2>2. \/ zq' = Append(zq, "on") /\ npc' = "sync"
        \/ zq' = zq /\ npc' \in {"loop", "cancel"}
    BY <2>1, StartNextOrders
  <2>3. OrderInv' /\ (zq' = zq \/ zq' # << >>)
    BY <2>1, <2>2, OrderOn, OrderKept
  <2>4. ReportInv'
    BY <2>1, <2>3, ReportKept
  <2> QED BY <2>3, <2>4
<1>2. CASE RecordStop \/ RecordStopOther
  <2>1. /\ Message("RECORD_STOP") /\ npc = "loop" /\ npc' \in {"loop", "stop"}
        /\ UNCHANGED <<zq, recordingstatus, deviceState, recordmode, zstandby>>
    BY <1>2, MessageLoop DEF RecordStop, RecordStopOther, zapitVars
  <2> QED BY <2>1, OrderKept, ReportKept
<1>3. CASE RecordStopEnds
  <2>1. /\ npc = "stop" /\ queue' = queue /\ recordingstatus' = 0
        /\ StartNext(0, next, "next", Append(zq, "off"))
        /\ UNCHANGED <<recordmode, zstandby>>
    BY <1>3 DEF RecordStopEnds, StopIdle
  <2>2. \/ zq' = Append(Append(zq, "off"), "on") /\ npc' = "sync"
        \/ zq' = Append(zq, "off") /\ npc' \in {"loop", "cancel"}
    BY <2>1, StartNextOrders
  <2> QED BY <2>1, <2>2, OrderOff, OrderOffOn, ReportKept
<1>4. CASE RecordStopLate
  <2>1. /\ Message("RECORD_STOP") /\ npc = "loop"
        /\ UNCHANGED <<recordmode, zstandby>>
    BY <1>4, MessageLoop DEF RecordStopLate
  <2>2. CASE deviceState = "RECORD"
    <3>1. /\ recordingstatus' = 0
          /\ StartNext(recordingstatus', next, "next", Append(zq, "off"))
      BY <1>4, <2>2 DEF RecordStopLate
    <3>2. \/ zq' = Append(Append(zq, "off"), "on") /\ npc' = "sync"
          \/ zq' = Append(zq, "off") /\ npc' \in {"loop", "cancel"}
      BY <3>1, StartNextOrders
    <3> QED BY <2>1, <3>1, <3>2, OrderOff, OrderOffOn, ReportKept
  <2>3. CASE deviceState # "RECORD"
    <3>1. /\ recordingstatus' = recordingstatus
          /\ StartNext(recordingstatus', next, "next", zq)
      BY <1>4, <2>3 DEF RecordStopLate
    <3>2. \/ zq' = Append(zq, "on") /\ npc' = "sync"
          \/ zq' = zq /\ npc' \in {"loop", "cancel"}
      BY <3>1, StartNextOrders
    <3>3. OrderInv' /\ (zq' = zq \/ zq' # << >>)
      BY <2>1, <2>3, <3>2, OrderOn, OrderKept
    <3> QED BY <2>1, <3>1, <3>3, ReportKept
  <2> QED BY <2>2, <2>3
<1>5. CASE RecordModeChanged
  <2>1. /\ Message("RECORDMODE") /\ npc' = npc
        /\ recordingstatus' = IF Head(queue).on THEN 1 ELSE 0
        /\ UNCHANGED <<recordmode, zstandby, deviceState>>
    BY <1>5 DEF RecordModeChanged
  <2>2. zq' = zq
    <3>1. zq' = zq \/ zq' = zq \o << >>
      BY <1>5 DEF RecordModeChanged, StandbyMode
    <3> QED BY <3>1, ConcatEmptySeq DEF TypeInv, RecorderTypeOK
  <2>3. OrderInv'
    BY <2>1, <2>2, OrderKept
  <2>4. LatestReport' /\ (NoReport' => Head(queue).on = recordmode)
    BY <2>1, ReportTaken DEF ReportInv
  <2>5. ReportInv'
    BY <2>1, <2>4 DEF ReportInv
  <2> QED BY <2>3, <2>5
<1>6. CASE RecordingEnded
  <2>1. /\ Message("RECORDING_ENDED") /\ npc = "loop"
        /\ \/ UNCHANGED <<npc, zq>>
           \/ DoGuiRecord(recordingstatus, "restart")
        /\ UNCHANGED <<recordingstatus, deviceState, recordmode, zstandby>>
    BY <1>6, MessageLoop DEF RecordingEnded
  <2>2. \/ zq' = Append(zq, "on") /\ npc' = "sync"
        \/ zq' = zq /\ npc' \in {"loop", "cancel"}
    BY <2>1, DoGuiRecordOrders
  <2>3. OrderInv' /\ (zq' = zq \/ zq' # << >>)
    BY <2>1, <2>2, OrderOn, OrderKept
  <2> QED BY <2>1, <2>3, ReportKept
<1> QED BY <1>1, <1>2, <1>3, <1>4, <1>5, <1>6

LEMMA CallMode ==
  ASSUME TypeInv, OrderInv, ReportInv, ~save_power,
         \/ RecordCalls \/ RecordNoDirectory \/ CallGoesOn \/ RecordReturnsOK
         \/ RecordReturnsError \/ BoxCloses
  PROVE  OrderInv' /\ ReportInv'
<1>1. CASE RecordCalls
  <2>1. /\ npc = "sync" /\ zq = << >> /\ npc' = "call" /\ queue' = queue
        /\ UNCHANGED <<zq, recordingstatus, deviceState, recordmode, zstandby>>
    BY <1>1 DEF RecordCalls, StartRecording, zapitVars
  <2>2. OrderInv'
    BY <2>1 DEF OrderInv, Final
  <2> QED BY <2>1, <2>2, ReportKept
<1>2. CASE RecordNoDirectory
  <2>1. /\ zq = << >> /\ zq' = <<"off">> /\ npc' = "loop" /\ queue' = queue
        /\ UNCHANGED <<recordmode, zstandby>>
    BY <1>2 DEF RecordNoDirectory, controlVars
  <2>2. zq' = Append(zq, "off")
    BY <2>1
  <2> QED BY <2>1, <2>2, OrderOff, ReportKept
<1>3. CASE CallGoesOn
  <2>1. /\ queue' = queue
        /\ UNCHANGED <<npc, zq, recordingstatus, deviceState, recordmode,
                       zstandby>>
    BY <1>3 DEF CallGoesOn, StreamFault, StartBusy, StartSleep, StartGiveUp,
       StartOpen, StartRunning, StartOK, StartFailed, StartNoThread, guiVars, zapitVars
  <2> QED BY <2>1, OrderKept, ReportKept
<1>4. CASE RecordReturnsOK
  <2>1. /\ npc = "call" /\ deviceState' = "RECORD" /\ npc' \in {"loop", "cancel"}
        /\ queue' = queue /\ UNCHANGED <<zq, recordmode, zstandby>>
    BY <1>4 DEF RecordReturnsOK, Resume, controlVars, zapitVars
  <2>2. recordmode
    BY <2>1 DEF OrderInv
  <2>3. OrderInv'
    BY <2>1 DEF OrderInv, Final
  <2> QED BY <2>1, <2>2, <2>3, ReportKept
<1>5. CASE RecordReturnsError
  <2>1. /\ zq' = Append(zq, "off") /\ npc' = "loop" /\ queue' = queue
        /\ UNCHANGED <<recordmode, zstandby>>
    BY <1>5 DEF RecordReturnsError, controlVars
  <2> QED BY <2>1, OrderOff, ReportKept
<1>6. CASE BoxCloses
  <2>1. /\ npc \in {"loop", "cancel"} /\ queue' = queue
        /\ UNCHANGED <<deviceState, recordmode, zstandby>>
        /\ recordingstatus' \in {recordingstatus, 0}
    BY <1>6 DEF BoxCloses, Ready, controlVars
  <2>2. \/ zq' = Append(zq, "on") /\ npc' = "sync"
        \/ zq' = zq /\ npc' \in {"loop", "cancel"}
    BY <1>6 DEF BoxCloses, Resume
  <2>3. OrderInv' /\ (zq' = zq \/ zq' # << >>)
    BY <2>1, <2>2, OrderOn, OrderKept
  <2> QED BY <2>1, <2>3, ReportKept
<1> QED BY <1>1, <1>2, <1>3, <1>4, <1>5, <1>6

LEMMA AroundMode ==
  ASSUME TypeInv, OrderInv, ReportInv, ~save_power,
         \/ MenuRecord \/ StandbyOn \/ StandbyOff \/ Sleeptimer \/ Thread
         \/ \E id \in Ids : TimerStarts(id) \/ TimerStops(id)
  PROVE  OrderInv' /\ ReportInv'
<1>1. CASE MenuRecord
  <2>1. /\ npc = "loop" /\ queue' = queue
        /\ DoGuiRecord(recordingstatus', "menu")
        /\ recordingstatus' = 1 - recordingstatus
        /\ UNCHANGED <<deviceState, recordmode, zstandby>>
    BY <1>1 DEF MenuRecord, Key, Ready, controlVars
  <2>2. \/ zq' = Append(zq, "on") /\ npc' = "sync"
        \/ zq' = zq /\ npc' \in {"loop", "cancel"} /\ recordingstatus' # 1
    BY <2>1, DoGuiRecordOrders
  <2>3. recordingstatus' \in {0, 1}
    BY <2>1 DEF TypeInv, RecorderTypeOK
  <2>4. OrderInv' /\ (recordingstatus' = 0 \/ zq' # << >>)
    BY <2>1, <2>2, <2>3, OrderOn, OrderKept
  <2> QED BY <2>1, <2>4, ReportKept
<1>2. CASE StandbyOn \/ StandbyOff \/ Sleeptimer
  <2>1. /\ queue' = queue
        /\ UNCHANGED <<npc, recordingstatus, deviceState, recordmode, zstandby>>
        /\ zq' = zq \/ zq' = zq \o << >>
    BY <1>2 DEF StandbyOn, StandbyOff, Sleeptimer, StandbyMode, controlVars
  <2>2. zq' = zq
    BY <2>1, ConcatEmptySeq DEF TypeInv, RecorderTypeOK
  <2> QED BY <2>1, <2>2, OrderKept, ReportKept
<1>3. CASE Thread
  <2>1. /\ UNCHANGED <<npc, zq, recordingstatus, deviceState, recordmode,
                       zstandby>>
        /\ \/ queue' = queue
           \/ queue' = Append(queue, Ended(status, myfilename))
    BY <1>3 DEF Thread, ThreadFails, ThreadEnds, TailReads, TailSends, guiVars,
       zapitVars
  <2>2. /\ Ended(status, myfilename) \in Messages
        /\ Ended(status, myfilename).msg # "RECORDMODE"
    BY SomeMessages DEF TypeInv, RecorderTypeOK, ControlTypeOK, Ended
  <2> QED BY <2>1, <2>2, OrderKept, ReportKept
<1>4. ASSUME NEW id \in Ids, TimerStarts(id) \/ TimerStops(id)
      PROVE  OrderInv' /\ ReportInv'
  <2>1. /\ UNCHANGED <<npc, zq, recordingstatus, deviceState, recordmode,
                       zstandby>>
        /\ \/ queue' = Append(queue, TimerMsg("RECORD_START", id))
           \/ queue' = Append(queue, TimerMsg("RECORD_STOP", id))
    BY <1>4 DEF TimerStarts, TimerStops, guiVars, zapitVars
  <2>2. \A m \in {"RECORD_START", "RECORD_STOP"} :
            TimerMsg(m, id) \in Messages /\ TimerMsg(m, id).msg # "RECORDMODE"
    BY DEF TimerMsg, Messages
  <2> QED BY <2>1, <2>2, OrderKept, ReportKept
<1> QED BY <1>1, <1>2, <1>3, <1>4

LEMMA RecorderNextMode ==
  ASSUME TypeInv, ModeInv, [RecorderNext]_recorderVars
  PROVE  ModeInv'
<1>1. save_power' = save_power
  BY DEF RecorderNext, recorderVars, rigidVars, Neutrino, TimerStarts,
     TimerStops, ZapitStep, RecordStart, RecordStop, RecordStopEnds,
     RecordStopLate, RecordStopOther, RecordModeChanged, RecordingEnded,
     RecordCalls, RecordNoDirectory, CallGoesOn, RecordReturnsOK,
     RecordReturnsError, BoxCloses, MenuRecord, StandbyOn, StandbyOff,
     Sleeptimer, Thread
<1>2. SUFFICES ASSUME ~save_power, OrderInv, ReportInv
               PROVE  OrderInv' /\ ReportInv'
  BY <1>1 DEF ModeInv
<1>3. CASE UNCHANGED recorderVars
  BY <1>2, <1>3, OrderKept, ReportKept
     DEF recorderVars, controlVars, guiVars, zapitVars
<1>4. CASE Neutrino
  BY <1>2, <1>4, HandlerMode, CallMode DEF Neutrino
<1> QED BY <1>2, <1>3, <1>4, ZapitMode, AroundMode DEF RecorderNext

(* Once all is quiet, recordingstatus does not claim a recording that zapit *)
(* is not in record mode for, and zapit is in record mode only while there  *)
(* is something to stop (vcrcontrol.cpp:712, :731, :910; neutrino.cpp:2872), *)
(* for any number of timers, keys, failures and nested boxes.               *)
THEOREM RecordModeAgrees == RecorderSpec => []RecordModeSettles
<1>1. RecorderInit => RecorderInv /\ TypeInv /\ ModeInv
  <2>1. RecorderInit => ModeInv
    BY DEF RecorderInit, ControlInit, ModeInv, OrderInv, ReportInv, Final,
       LatestReport, NoReport
  <2> QED BY <2>1, RecorderInitInv, RecorderInitTypes
<1>2. RecorderInv /\ TypeInv /\ ModeInv /\ [RecorderNext]_recorderVars
         => RecorderInv' /\ TypeInv' /\ ModeInv'
  BY RecorderNextInv, RecorderNextTypes, RecorderNextMode
<1>3. ModeInv => RecordModeSettles
  BY DEF ModeInv, OrderInv, ReportInv, Final, RecordModeSettles, Settled,
     NoReport, IsReport
<1> QED BY <1>1, <1>2, <1>3, PTL DEF RecorderSpec

-----------------------------------------------------------------------------
(***************************************************************************)
(* The recording that waits.                                               *)
(***************************************************************************)
Starts(i, id) == queue[i] = TimerMsg("RECORD_START", id)
Stops(i, id) == queue[i] = TimerMsg("RECORD_STOP", id)
StopAfter(i, id) == \E j \in i + 1 .. Len(queue) : Stops(j, id)

(* timerd starts a timer once and stops it after that; neutrino has not     *)
(* heard of it before.                                                      *)
OneStart(i, id) ==
    /\ timer[id] = "running" \/ StopAfter(i, id)
    /\ \A j \in i + 1 .. Len(queue) : ~Starts(j, id)
    /\ next # id
    /\ recording_id = id => id = first_id
Unused(id) ==
    /\ next # id
    /\ recording_id = id => id = first_id
    /\ \A i \in 1 .. Len(queue) : ~Starts(i, id) /\ ~Stops(i, id)
TimerInv ==
    /\ \A i \in 1 .. Len(queue), id \in Ids : Starts(i, id) => OneStart(i, id)
    /\ \A id \in Ids : timer[id] = "idle" => Unused(id)

(* The recording that is to be next has its stop still to come, unless it   *)
(* is being started; then the handler that does so is under way.            *)
StopComes(id) == timer[id] = "running" \/ StopAfter(0, id)
Starting == \E i \in 1 .. Len(stack) : stack[i] \in {"start", "next"}
PendingInv ==
    next \notin {NoId, first_id} =>
        /\ StopComes(next) \/ next = recording_id
        /\ next = recording_id => Starting

WaitInv == TimerInv /\ PendingInv

(* The oldest message is taken. *)
LEMMA StopShifts ==
  ASSUME queue \in Seq(Messages), queue # << >>, queue' = Tail(queue),
         UNCHANGED timer, NEW id
  PROVE  /\ Len(queue) \in Nat /\ Len(queue) >= 1
         /\ Len(queue') = Len(queue) - 1
         /\ Head(queue) = queue[1]
         /\ \A i \in 1 .. Len(queue') : /\ i + 1 \in 1 .. Len(queue)
                                        /\ queue'[i] = queue[i + 1]
         /\ \A i \in 0 .. Len(queue') :
               StopAfter(i + 1, id) => StopAfter(i, id)'
         /\ (StopComes(id) /\ ~Stops(1, id)) => StopComes(id)'
<1>1. /\ Len(queue) \in Nat /\ Len(queue) >= 1 /\ Head(queue) = queue[1]
      /\ Len(queue') = Len(queue) - 1
      /\ \A i \in 1 .. Len(queue) - 1 : queue'[i] = queue[i + 1]
  BY TakeFirst
<1>2. ASSUME NEW i \in 0 .. Len(queue'), StopAfter(i + 1, id)
      PROVE  StopAfter(i, id)'
  <2>1. PICK j \in i + 1 + 1 .. Len(queue) : Stops(j, id)
    BY <1>2 DEF StopAfter
  <2>2. /\ j - 1 \in i + 1 .. Len(queue') /\ j - 1 \in 1 .. Len(queue) - 1
        /\ (j - 1) + 1 = j
    BY <1>1
  <2>3. queue'[j - 1] = queue[j]
    BY <1>1, <2>2
  <2> QED BY <2>1, <2>2, <2>3 DEF StopAfter, Stops
<1>3. ASSUME StopComes(id), ~Stops(1, id) PROVE StopComes(id)'
  <2>1. CASE timer[id] = "running"
    BY <2>1 DEF StopComes
  <2>2. CASE StopAfter(0, id)
    <3>1. PICK j \in 0 + 1 .. Len(queue) : Stops(j, id)
      BY <2>2 DEF StopAfter
    <3>2. j \in 0 + 1 + 1 .. Len(queue)
      BY <1>1, <1>3, <3>1
    <3>3. StopAfter(0 + 1, id)
      BY <3>1, <3>2 DEF StopAfter
    <3> QED BY <1>1, <1>2, <3>3 DEF StopComes
  <2> QED BY <1>3, <2>1, <2>2 DEF StopComes
<1> QED BY <1>1, <1>2, <1>3

(* The timers when a message is taken: a recording becomes the next one by  *)
(* its RECORD_START, and the current one by that or after it was the next.  *)
LEMMA TimerTaken ==
  ASSUME TypeInv, TimerInv, queue # << >>, queue' = Tail(queue),
         UNCHANGED <<timer, first_id>>,
         next' # next => next' = NoId \/ (next' \in Ids /\ Starts(1, next')),
         recording_id' # recording_id =>
            \/ recording_id' = next /\ next # NoId
            \/ recording_id' \in Ids /\ Starts(1, recording_id')
  PROVE  TimerInv'
<1> USE DEF TypeInv
<1>1. /\ Len(queue) \in Nat /\ Len(queue) >= 1
      /\ Len(queue') = Len(queue) - 1
      /\ \A i \in 1 .. Len(queue') : /\ i + 1 \in 1 .. Len(queue)
                                     /\ queue'[i] = queue[i + 1]
  BY StopShifts
<1>2. ASSUME NEW i \in 1 .. Len(queue'), NEW id \in Ids, Starts(i, id)'
      PROVE  OneStart(i, id)'
  <2>1. i + 1 \in 1 .. Len(queue) /\ Starts(i + 1, id) /\ i \in 0 .. Len(queue')
    BY <1>1, <1>2 DEF Starts
  <2>2. OneStart(i + 1, id)
    BY <2>1 DEF TimerInv
  <2>3. ~Starts(1, id)
    <3>1. 1 \in 1 .. Len(queue) /\ i + 1 \in 1 + 1 .. Len(queue)
      BY <1>1, <2>1
    <3> QED BY <2>1, <3>1 DEF TimerInv, OneStart
  <2>4. timer'[id] = "running" \/ StopAfter(i, id)'
    BY <2>1, <2>2, StopShifts DEF OneStart
  <2>5. ASSUME NEW j \in i + 1 .. Len(queue') PROVE ~Starts(j, id)'
    <3>1. j \in 1 .. Len(queue') /\ j + 1 \in i + 1 + 1 .. Len(queue)
      BY <1>1
    <3> QED BY <1>1, <2>2, <3>1 DEF OneStart, Starts
  <2>6. next' # id
    BY <2>2, <2>3, RecorderAssumption DEF OneStart
  <2>7. recording_id' = id => id = first_id'
    BY <2>2, <2>3 DEF OneStart
  <2> QED BY <2>4, <2>5, <2>6, <2>7 DEF OneStart
<1>3. ASSUME NEW id \in Ids, timer'[id] = "idle" PROVE Unused(id)'
  <2>1. Unused(id) /\ ~Starts(1, id)
    BY <1>1, <1>3 DEF TimerInv, Unused
  <2>2. \A i \in 1 .. Len(queue') : ~Starts(i, id)' /\ ~Stops(i, id)'
    BY <1>1, <2>1 DEF Unused, Starts, Stops
  <2>3. next' # id
    BY <2>1, RecorderAssumption DEF Unused
  <2>4. recording_id' = id => id = first_id'
    BY <2>1 DEF Unused
  <2> QED BY <2>2, <2>3, <2>4 DEF Unused
<1> QED BY <1>2, <1>3 DEF TimerInv

(* The queue grows by new messages, or is left as it is. *)
QueueGrows ==
    /\ Len(queue) \in Nat /\ Len(queue') \in Nat /\ Len(queue) <= Len(queue')
    /\ \A i \in 1 .. Len(queue) : queue'[i] = queue[i]
NewMessages == Len(queue) + 1 .. Len(queue')

LEMMA QueueAppends ==
  ASSUME TypeInv,
         \/ queue' = queue
         \/ \E m \in Messages : queue' = Append(queue, m)
  PROVE  /\ QueueGrows
         /\ queue' = queue => NewMessages = {}
         /\ \A m \in Messages : queue' = Append(queue, m) =>
               /\ NewMessages = {Len(queue')} /\ queue'[Len(queue')] = m
<1>1. queue \in Seq(Messages) /\ Len(queue) \in Nat
  BY LenProperties DEF TypeInv
<1>2. CASE queue' = queue
  <2>1. QueueGrows /\ NewMessages = {}
    BY <1>1, <1>2 DEF QueueGrows, NewMessages
  <2>2. \A m \in Messages : queue' # Append(queue, m)
    BY <1>1, <1>2, PutLast
  <2> QED BY <2>1, <2>2
<1>3. ASSUME NEW m \in Messages, queue' = Append(queue, m)
      PROVE  /\ QueueGrows /\ NewMessages = {Len(queue')}
             /\ queue'[Len(queue')] = m /\ queue' # queue
  <2>1. /\ Len(queue') = Len(queue) + 1 /\ queue'[Len(queue) + 1] = m
        /\ \A i \in 1 .. Len(queue) : queue'[i] = queue[i]
    BY <1>1, <1>3, PutLast
  <2> QED BY <1>1, <2>1 DEF QueueGrows, NewMessages
<1> QED BY <1>2, <1>3

(* The timers when no message is taken.  A start that is sent is the first  *)
(* sign of its timer, a timer that ends sends its stop, and the current     *)
(* recording is the former one, the next one or one that the menu starts.   *)
TimerGrows ==
    /\ QueueGrows
    /\ UNCHANGED first_id
    /\ next' \in {next, NoId}
    /\ \A i \in NewMessages, id \in Ids : Starts(i, id)' =>
          /\ i = Len(queue')
          /\ timer[id] = "idle" /\ timer'[id] = "running"
    /\ \A id \in Ids : timer[id] = "running" =>
          timer'[id] = "running" \/ \E i \in NewMessages : Stops(i, id)'
    /\ \A id \in Ids : timer'[id] = "idle" =>
          /\ timer[id] = "idle"
          /\ \A i \in NewMessages : ~Starts(i, id)' /\ ~Stops(i, id)'
    /\ \/ recording_id' = recording_id
       \/ recording_id' = next /\ next # NoId
       \/ /\ recording_id' \in Ids /\ NewMessages = {}
          /\ timer[recording_id'] = "idle" /\ timer'[recording_id'] # "idle"

LEMMA StopGrows ==
  ASSUME TimerGrows, NEW id \in Ids, NEW i \in 0 .. Len(queue),
         timer[id] = "running" \/ StopAfter(i, id)
  PROVE  timer'[id] = "running" \/ StopAfter(i, id)'
<1>1. CASE timer[id] = "running"
  <2>1. SUFFICES ASSUME NEW j \in NewMessages, Stops(j, id)'
                 PROVE  StopAfter(i, id)'
    BY <1>1 DEF TimerGrows
  <2>2. j \in i + 1 .. Len(queue')
    BY DEF TimerGrows, QueueGrows, NewMessages
  <2> QED BY <2>1, <2>2 DEF StopAfter
<1>2. CASE StopAfter(i, id)
  <2>1. PICK j \in i + 1 .. Len(queue) : Stops(j, id)
    BY <1>2 DEF StopAfter
  <2>2. j \in 1 .. Len(queue) /\ j \in i + 1 .. Len(queue')
    BY DEF TimerGrows, QueueGrows
  <2>3. queue'[j] = queue[j]
    BY <2>2 DEF TimerGrows, QueueGrows
  <2> QED BY <2>1, <2>2, <2>3 DEF StopAfter, Stops
<1> QED BY <1>1, <1>2

LEMMA TimerKept ==
  ASSUME TypeInv, TimerInv, TimerGrows
  PROVE  TimerInv'
<1>1. /\ QueueGrows
      /\ \A i \in 1 .. Len(queue') : i \in 1 .. Len(queue) \/ i \in NewMessages
  BY DEF TimerGrows, QueueGrows, NewMessages
<1>2. ASSUME NEW i \in 1 .. Len(queue'), NEW id \in Ids, Starts(i, id)'
      PROVE  OneStart(i, id)'
  <2>1. CASE i \in NewMessages
    <3>1. i = Len(queue') /\ timer[id] = "idle" /\ timer'[id] = "running"
      BY <1>2, <2>1 DEF TimerGrows
    <3>2. Unused(id)
      BY <3>1 DEF TimerInv
    <3>3. next' # id /\ (recording_id' = id => id = first_id')
      BY <2>1, <3>1, <3>2, RecorderAssumption DEF TimerGrows, Unused
    <3>4. \A j \in i + 1 .. Len(queue') : FALSE
      BY <1>1, <3>1 DEF QueueGrows
    <3> QED BY <3>1, <3>3, <3>4 DEF OneStart
  <2>2. CASE i \in 1 .. Len(queue)
    <3>1. Starts(i, id) /\ i \in 0 .. Len(queue)
      BY <1>1, <1>2, <2>2 DEF Starts, QueueGrows
    <3>2. OneStart(i, id)
      BY <2>2, <3>1 DEF TimerInv
    <3>3. timer[id] # "idle"
      BY <2>2, <3>1 DEF TimerInv, Unused
    <3>4. timer'[id] = "running" \/ StopAfter(i, id)'
      BY <3>1, <3>2, StopGrows DEF OneStart
    <3>5. ASSUME NEW j \in i + 1 .. Len(queue') PROVE ~Starts(j, id)'
      <4>1. j \in NewMessages \/ (j \in 1 .. Len(queue) /\ j \in i + 1 .. Len(queue))
        BY <1>1, <2>2 DEF QueueGrows, NewMessages
      <4>2. ASSUME j \in NewMessages PROVE ~Starts(j, id)'
        BY <3>3, <4>2 DEF TimerGrows
      <4>3. ASSUME j \in 1 .. Len(queue), j \in i + 1 .. Len(queue)
            PROVE  ~Starts(j, id)'
        BY <1>1, <3>2, <4>3 DEF OneStart, Starts, QueueGrows
      <4> QED BY <4>1, <4>2, <4>3
    <3>6. next' # id /\ (recording_id' = id => id = first_id')
      BY <3>2, <3>3, RecorderAssumption DEF TimerGrows, OneStart
    <3> QED BY <3>4, <3>5, <3>6 DEF OneStart
  <2> QED BY <1>1, <2>1, <2>2
<1>3. ASSUME NEW id \in Ids, timer'[id] = "idle" PROVE Unused(id)'
  <2>1. /\ timer[id] = "idle" /\ Unused(id)
        /\ \A i \in NewMessages : ~Starts(i, id)' /\ ~Stops(i, id)'
    BY <1>3 DEF TimerGrows, TimerInv
  <2>2. \A i \in 1 .. Len(queue') : ~Starts(i, id)' /\ ~Stops(i, id)'
    BY <1>1, <2>1 DEF Unused, Starts, Stops, QueueGrows
  <2>3. next' # id /\ (recording_id' = id => id = first_id')
    BY <1>3, <2>1, RecorderAssumption DEF TimerGrows, Unused
  <2> QED BY <2>2, <2>3 DEF Unused
<1> QED BY <1>2, <1>3 DEF TimerInv

(* The handlers that start the next recording, on the stack. *)
LEMMA StartingFrames ==
  ASSUME TypeInv
  PROVE  /\ \A f \in Frames \ {"menu"} : Push(f) =>
               /\ Starting => Starting'
               /\ f \in {"start", "next"} => Starting'
         /\ (stack # << >> /\ Pop /\ Top \notin {"start", "next"}) =>
               (Starting => Starting')
         /\ \A f \in Frames \ {"menu"} :
               (stack # << >> /\ Top = "ended"
                  /\ stack' = [stack EXCEPT ![Len(stack)] = f]) =>
               /\ Starting => Starting'
               /\ f = "next" => Starting'
<1>1. stack \in Seq(Frames) /\ MenuFirst /\ Len(stack) \in Nat
  BY LenProperties DEF TypeInv, RecorderTypeOK, FrameInv, MenuFirst
<1>2. ASSUME NEW f \in Frames \ {"menu"}, Push(f)
      PROVE  /\ Starting => Starting'
             /\ f \in {"start", "next"} => Starting'
  <2>1. /\ Len(stack') = Len(stack) + 1
        /\ \A i \in 1 .. Len(stack) : stack'[i] = stack[i]
        /\ stack'[Len(stack')] = f
    BY <1>1, <1>2, PushFrame DEF Top
  <2> QED BY <1>1, <2>1 DEF Starting
<1>3. ASSUME stack # << >>, Pop, Top \notin {"start", "next"}, Starting
      PROVE  Starting'
  <2>1. PICK i \in 1 .. Len(stack) : stack[i] \in {"start", "next"}
    BY <1>3 DEF Starting
  <2>2. i \in 1 .. Len(stack) - 1
    BY <1>1, <1>3, <2>1 DEF Top
  <2>3. Len(stack') = Len(stack) - 1 /\ stack'[i] = stack[i]
    BY <1>1, <1>3, <2>2, PopFrame
  <2> QED BY <2>1, <2>2, <2>3 DEF Starting
<1>4. ASSUME NEW f \in Frames \ {"menu"}, stack # << >>, Top = "ended",
             stack' = [stack EXCEPT ![Len(stack)] = f]
      PROVE  /\ Starting => Starting'
             /\ f = "next" => Starting'
  <2>1. /\ Len(stack') = Len(stack) /\ Len(stack) >= 1
        /\ \A i \in 1 .. Len(stack) - 1 : stack'[i] = stack[i]
        /\ stack'[Len(stack')] = f
    BY <1>1, <1>4, ChangeFrame, EmptySeq DEF Top
  <2>2. ASSUME Starting PROVE Starting'
    <3>1. PICK i \in 1 .. Len(stack) : stack[i] \in {"start", "next"}
      BY <2>2 DEF Starting
    <3>2. i \in 1 .. Len(stack) - 1
      BY <1>1, <1>4, <3>1 DEF Top
    <3> QED BY <2>1, <3>1, <3>2 DEF Starting
  <2>3. ASSUME f = "next" PROVE Starting'
    BY <1>1, <2>1, <2>3 DEF Starting
  <2> QED BY <2>2, <2>3
<1> QED BY <1>2, <1>3, <1>4

(* recording_id is left alone or becomes that of the next recording, which  *)
(* a handler on the stack is then starting.                                 *)
CurrentMoves ==
    \/ recording_id' = recording_id /\ (Starting => Starting')
    \/ recording_id' = next /\ next # NoId /\ Starting'

LEMMA StartNextMoves ==
  ASSUME TypeInv, NEW rs, NEW cmds, StartNext(rs, next, "next", cmds)
  PROVE  CurrentMoves
<1>1. \/ recording_id' = next /\ next # NoId /\ Push("next")
      \/ UNCHANGED <<recording_id, stack>>
  BY DEF StartNext, BeginRecord, Done
<1>2. Push("next") => Starting'
  BY StartingFrames DEF Frames
<1> QED BY <1>1, <1>2 DEF CurrentMoves, Starting

LEMMA DoGuiRecordMoves ==
  ASSUME TypeInv, NEW rs, NEW caller \in {"menu", "restart"},
         caller = "menu" => stack = << >>, DoGuiRecord(rs, caller)
  PROVE  CurrentMoves
<1>1. CASE rs = 1
  <2>1. Push(caller) /\ UNCHANGED recording_id
    BY <1>1 DEF DoGuiRecord, BeginRecord
  <2>2. Starting => Starting'
    <3>1. CASE caller = "menu"
      BY <3>1 DEF Starting
    <3>2. CASE caller = "restart"
      BY <2>1, <3>2, StartingFrames DEF Frames
    <3> QED BY <3>1, <3>2
  <2> QED BY <2>1, <2>2 DEF CurrentMoves
<1>2. CASE rs # 1
  BY <1>2, StartNextMoves DEF DoGuiRecord
<1> QED BY <1>1, <1>2

(* A step that takes no message. *)
LEMMA GrowsWait ==
  ASSUME TypeInv, WaitInv, TimerGrows,
         next' = NoId \/ (next' = next /\ CurrentMoves)
  PROVE  WaitInv'
<1>1. TimerInv'
  BY TimerKept DEF WaitInv
<1>2. PendingInv'
  <2>1. SUFFICES ASSUME next' = next, CurrentMoves,
                        next \notin {NoId, first_id}
                 PROVE  /\ StopComes(next)' \/ next' = recording_id'
                        /\ next' = recording_id' => Starting'
    BY DEF PendingInv, TimerGrows
  <2>2. /\ next \in Ids /\ 0 \in 0 .. Len(queue)
        /\ StopComes(next) \/ next = recording_id
        /\ next = recording_id => Starting
    BY <2>1 DEF WaitInv, PendingInv, TypeInv, RecorderTypeOK, TimerGrows,
       QueueGrows
  <2>3. StopComes(next) => StopComes(next)'
    BY <2>1, <2>2, StopGrows DEF StopComes
  <2> QED BY <2>1, <2>2, <2>3 DEF CurrentMoves
<1> QED BY <1>1, <1>2 DEF WaitInv

(* A step that takes a message, if it is not the stop of a recording that   *)
(* goes on waiting.                                                         *)
LEMMA TakenWait ==
  ASSUME TypeInv, WaitInv, NEW m, Message(m), UNCHANGED <<timer, first_id>>,
         \/ next' = NoId /\ recording_id' = recording_id
         \/ /\ next' = next /\ CurrentMoves
            /\ m = "RECORD_STOP" =>
                  Head(queue).id # next \/ next = recording_id
  PROVE  WaitInv'
<1>1. queue # << >> /\ queue' = Tail(queue) /\ Head(queue).msg = m
  BY DEF Message
<1>2. TimerInv'
  BY <1>1, TimerTaken DEF WaitInv, CurrentMoves
<1>3. PendingInv'
  <2>1. SUFFICES ASSUME next' = next, CurrentMoves,
                        m = "RECORD_STOP" =>
                           Head(queue).id # next \/ next = recording_id,
                        next \notin {NoId, first_id}
                 PROVE  /\ StopComes(next)' \/ next' = recording_id'
                        /\ next' = recording_id' => Starting'
    BY DEF PendingInv
  <2>2. /\ StopComes(next) \/ next = recording_id
        /\ next = recording_id => Starting
    BY <2>1 DEF WaitInv, PendingInv
  <2>3. Stops(1, next) => next = recording_id
    <3>1. Head(queue) = queue[1]
      BY <1>1, StopShifts DEF TypeInv
    <3> QED BY <1>1, <2>1, <3>1 DEF Stops, TimerMsg
  <2>4. (StopComes(next) /\ ~Stops(1, next)) => StopComes(next)'
    BY <1>1, <2>1, StopShifts DEF TypeInv
  <2> QED BY <2>1, <2>2, <2>3, <2>4 DEF CurrentMoves
<1> QED BY <1>2, <1>3 DEF WaitInv

LEMMA RecordStartWait ==
  ASSUME TypeInv, WaitInv, RecordStart
  PROVE  WaitInv'
<1>0. PICK id \in Ids : id = Head(queue).id
  BY MessageTaken DEF RecordStart
<1>1. /\ Message("RECORD_START") /\ UNCHANGED <<timer, first_id>>
      /\ next' = id
      /\ \E cmds : StartNext(recordingstatus, id, "start", cmds)
  BY <1>0 DEF RecordStart, rigidVars
<1>2. /\ queue # << >> /\ queue' = Tail(queue)
      /\ Head(queue) \in Messages /\ Head(queue).msg = "RECORD_START"
  BY <1>1, MessageTaken DEF Message
<1>3. /\ Len(queue) \in Nat /\ Len(queue) >= 1 /\ Head(queue) = queue[1]
      /\ Len(queue') = Len(queue) - 1
  BY <1>2, StopShifts DEF TypeInv
<1>4. Starts(1, id) /\ 1 \in 1 .. Len(queue)
  BY <1>0, <1>2, <1>3 DEF Starts, TimerMsg, Messages
<1>5. OneStart(1, id)
  BY <1>2, <1>4 DEF WaitInv, TimerInv
<1>6. \/ recording_id' = id /\ Push("start")
      \/ recording_id' = recording_id
  BY <1>1 DEF StartNext, BeginRecord
<1>7. TimerInv'
  BY <1>1, <1>2, <1>4, <1>6, TimerTaken DEF WaitInv
<1>8. StopComes(id)'
  <2>1. StopAfter(1, id) => StopAfter(0, id)'
    <3>1. 0 \in 0 .. Len(queue') /\ 0 + 1 = 1
      BY <1>3
    <3> QED BY <1>1, <1>2, <3>1, StopShifts DEF TypeInv
  <2> QED BY <1>1, <1>5, <2>1 DEF OneStart, StopComes
<1>9. (next' = recording_id' /\ next' # first_id') => Starting'
  BY <1>1, <1>5, <1>6, StartingFrames DEF OneStart, Frames
<1> QED BY <1>1, <1>7, <1>8, <1>9 DEF WaitInv, PendingInv

LEMMA HandlerWait ==
  ASSUME TypeInv, WaitInv,
         \/ RecordStart \/ RecordStop \/ RecordStopEnds \/ RecordStopLate
         \/ RecordStopOther \/ RecordModeChanged \/ RecordingEnded
  PROVE  WaitInv'
<1>1. CASE RecordStop
  <2>1. /\ Message("RECORD_STOP") /\ Head(queue).id = recording_id
        /\ UNCHANGED <<timer, first_id, next, recording_id, stack>>
    BY <1>1 DEF RecordStop, rigidVars
  <2> QED BY <2>1, TakenWait DEF CurrentMoves, Starting
<1>2. CASE RecordStopLate
  <2>1. /\ Message("RECORD_STOP") /\ Head(queue).id = recording_id
        /\ UNCHANGED <<timer, first_id, next>>
        /\ \E cmds : StartNext(recordingstatus', next, "next", cmds)
    BY <1>2 DEF RecordStopLate, rigidVars
  <2>2. CurrentMoves
    BY <2>1, StartNextMoves
  <2> QED BY <2>1, <2>2, TakenWait
<1>3. CASE RecordStopEnds
  <2>1. /\ StartNext(0, next, "next", Append(zq, "off"))
        /\ UNCHANGED <<timer, first_id, next, queue>>
    BY <1>3 DEF RecordStopEnds, StopIdle, rigidVars
  <2>2. CurrentMoves
    BY <2>1, StartNextMoves
  <2>3. TimerGrows
    BY <2>1, <2>2, QueueAppends DEF TimerGrows, CurrentMoves
  <2> QED BY <2>1, <2>2, <2>3, GrowsWait
<1>4. CASE RecordStopOther
  <2>1. /\ Message("RECORD_STOP")
        /\ UNCHANGED <<timer, first_id, recording_id, stack>>
        /\ \/ next' = NoId
           \/ next' = next /\ next # Head(queue).id
    BY <1>4 DEF RecordStopOther, rigidVars
  <2> QED BY <2>1, TakenWait DEF CurrentMoves, Starting
<1>5. CASE RecordModeChanged
  <2>1. /\ Message("RECORDMODE")
        /\ UNCHANGED <<timer, first_id, next, recording_id, stack>>
    BY <1>5 DEF RecordModeChanged, rigidVars
  <2> QED BY <2>1, TakenWait DEF CurrentMoves, Starting
<1>6. CASE RecordingEnded
  <2>1. /\ Message("RECORDING_ENDED")
        /\ UNCHANGED <<timer, first_id, next>>
        /\ \/ DoGuiRecord(recordingstatus, "restart")
           \/ (Push("ended") \/ Push("box")) /\ UNCHANGED recording_id
    BY <1>6 DEF RecordingEnded, rigidVars
  <2>2. CurrentMoves
    <3>1. ASSUME NEW f \in {"ended", "box"}, Push(f), UNCHANGED recording_id
          PROVE  CurrentMoves
      BY <3>1, StartingFrames DEF CurrentMoves, Frames
    <3> QED BY <2>1, <3>1, DoGuiRecordMoves
  <2> QED BY <2>1, <2>2, TakenWait
<1> QED BY <1>1, <1>2, <1>3, <1>4, <1>5, <1>6, RecordStartWait

(* The menu starts a recording with a timer of its own, that nothing has    *)
(* named before; a recording that waits goes on waiting.                    *)
LEMMA MenuReturnWait ==
  ASSUME TypeInv, WaitInv, RecordReturnsOK, Top = "menu"
  PROVE  WaitInv'
<1>1. /\ UNCHANGED <<queue, next, first_id>> /\ npc = "call"
      /\ \E id \in Ids : /\ timer[id] = "idle"
                         /\ timer' = [timer EXCEPT ![id] = "running"]
                         /\ recording_id' = id
  BY DEF RecordReturnsOK, controlVars, rigidVars
<1>2. PICK id \in Ids : /\ timer[id] = "idle"
                        /\ timer' = [timer EXCEPT ![id] = "running"]
                        /\ recording_id' = id
  BY <1>1
<1>3. timer \in [Ids -> {"idle", "running", "over"}]
  BY DEF TypeInv, RecorderTypeOK
<1>4. /\ timer'[id] = "running"
      /\ \A k \in Ids : k # id => timer'[k] = timer[k]
  BY <1>2, <1>3
<1>5. TimerGrows
  BY <1>1, <1>2, <1>4, QueueAppends DEF TimerGrows
<1>6. TimerInv'
  BY <1>5, TimerKept DEF WaitInv
<1>7. ~Starting
  <2>1. stack # << >> /\ stack \in Seq(Frames)
    BY <1>1 DEF TypeInv, RecorderTypeOK, FrameInv
  <2>2. Len(stack) \in Nat /\ Len(stack) >= 1
    BY <2>1, LenProperties, EmptySeq
  <2>3. Len(stack) \in 1 .. Len(stack) /\ stack[Len(stack)] = "menu"
    BY <2>2 DEF Top
  <2>4. Len(stack) = 1
    BY <2>3 DEF TypeInv, FrameInv
  <2> QED BY <2>3, <2>4 DEF Starting
<1>8. PendingInv'
  <2>1. SUFFICES ASSUME next \notin {NoId, first_id}
                 PROVE  StopComes(next)' /\ next' # recording_id'
    BY <1>1 DEF PendingInv
  <2>2. next \in Ids /\ StopComes(next) /\ 0 \in 0 .. Len(queue)
    BY <1>5, <1>7, <2>1
       DEF WaitInv, PendingInv, TypeInv, RecorderTypeOK, TimerGrows, QueueGrows
  <2>3. timer'[next] = "running" \/ StopAfter(0, next)'
    BY <1>1, <1>5, <2>2, StopGrows DEF StopComes
  <2>4. Unused(id)
    BY <1>2 DEF WaitInv, TimerInv
  <2> QED BY <1>1, <1>2, <2>3, <2>4 DEF StopComes, Unused
<1> QED BY <1>6, <1>8 DEF WaitInv

LEMMA CallWait ==
  ASSUME TypeInv, WaitInv,
         \/ RecordCalls \/ RecordNoDirectory \/ CallGoesOn \/ RecordReturnsOK
         \/ RecordReturnsError \/ BoxCloses
  PROVE  WaitInv'
<1>1. CASE RecordCalls \/ RecordNoDirectory \/ CallGoesOn \/ RecordReturnsError
  <2>1. UNCHANGED <<timer, first_id, next, recording_id, stack, queue>>
    BY <1>1
       DEF RecordCalls, StartRecording, RecordNoDirectory, CallGoesOn,
           StreamFault, StartFailed, StartNoThread, StartBusy, StartSleep,
           StartGiveUp, StartOpen, StartRunning, StartOK, RecordReturnsError, controlVars,
           guiVars, rigidVars
  <2>2. TimerGrows
    BY <2>1, QueueAppends DEF TimerGrows
  <2> QED BY <2>1, <2>2, GrowsWait DEF CurrentMoves, Starting
<1>2. CASE RecordReturnsOK /\ Top # "menu"
  <2>1. /\ UNCHANGED <<timer, first_id, recording_id, queue>>
        /\ npc = "call" /\ Pop
        /\ \/ next' = NoId
           \/ next' = next /\ Top \notin {"start", "next"}
    <3>1. Top \in Callers
      BY <1>2 DEF RecordReturnsOK, TypeInv, FrameInv
    <3> QED BY <1>2, <3>1
            DEF RecordReturnsOK, Resume, Callers, controlVars, rigidVars
  <2>2. TimerGrows
    BY <2>1, QueueAppends DEF TimerGrows
  <2>3. stack # << >>
    BY <2>1 DEF TypeInv, FrameInv
  <2>4. next' = NoId \/ (next' = next /\ CurrentMoves)
    BY <2>1, <2>3, StartingFrames DEF CurrentMoves
  <2> QED BY <2>2, <2>4, GrowsWait
<1>3. CASE BoxCloses
  <2>1. /\ UNCHANGED <<timer, first_id, queue>> /\ stack # << >>
        /\ next' = NoId \/ next' = next
    BY <1>3 DEF BoxCloses, controlVars, rigidVars
  <2>2. \/ next' = NoId /\ recording_id' = recording_id
        \/ /\ next' = next /\ Pop /\ Top \notin {"start", "next"}
           /\ recording_id' = recording_id
        \/ /\ next' = next /\ Top = "ended" /\ recording_id' = recording_id
           /\ stack' = [stack EXCEPT ![Len(stack)] = "restart"]
        \/ /\ next' = next /\ Top = "ended"
           /\ recording_id' = next /\ next # NoId
           /\ stack' = [stack EXCEPT ![Len(stack)] = "next"]
    BY <1>3 DEF BoxCloses, Resume
  <2>3. \/ next' = NoId /\ recording_id' = recording_id
        \/ next' = next /\ CurrentMoves
    BY <2>1, <2>2, StartingFrames DEF CurrentMoves, Frames
  <2>4. TimerGrows
    BY <2>1, <2>3, QueueAppends DEF TimerGrows, CurrentMoves
  <2> QED BY <2>3, <2>4, GrowsWait
<1> QED BY <1>1, <1>2, <1>3, MenuReturnWait

LEMMA AroundWait ==
  ASSUME TypeInv, WaitInv,
         \/ MenuRecord \/ StandbyOn \/ StandbyOff \/ Sleeptimer \/ Thread
         \/ ZapitStep
         \/ \E id \in Ids : TimerStarts(id) \/ TimerStops(id)
  PROVE  WaitInv'
<1>1. CASE MenuRecord
  <2>1. /\ UNCHANGED <<timer, first_id, next, queue>> /\ stack = << >>
        /\ DoGuiRecord(recordingstatus', "menu")
    BY <1>1 DEF MenuRecord, controlVars, rigidVars
  <2>2. CurrentMoves
    BY <2>1, DoGuiRecordMoves
  <2>3. TimerGrows
    BY <2>1, <2>2, QueueAppends DEF TimerGrows, CurrentMoves
  <2> QED BY <2>1, <2>2, <2>3, GrowsWait
<1>2. CASE StandbyOn \/ StandbyOff \/ Sleeptimer
  <2>1. /\ UNCHANGED <<timer, first_id, next, recording_id, queue>>
        /\ UNCHANGED stack \/ Push("standby")
    BY <1>2 DEF StandbyOn, StandbyOff, Sleeptimer, controlVars, rigidVars
  <2>2. TimerGrows
    BY <2>1, QueueAppends DEF TimerGrows
  <2>3. CurrentMoves
    BY <2>1, StartingFrames DEF CurrentMoves, Starting, Frames
  <2> QED BY <2>1, <2>2, <2>3, GrowsWait
<1>3. CASE Thread \/ ZapitStep
  <2>1. /\ UNCHANGED <<timer, first_id, next, recording_id, stack>>
        /\ \/ queue' = queue
           \/ queue' = Append(queue, Ended(status, myfilename))
           \/ \E on \in BOOLEAN : queue' = Append(queue, RecordMode(on))
    BY <1>3 DEF Thread, ThreadFails, ThreadEnds, TailReads, TailSends,
       ZapitStep, SetRecordMode, SetStandby, guiVars, rigidVars
  <2>2. /\ Ended(status, myfilename) \in Messages
        /\ Ended(status, myfilename).msg = "RECORDING_ENDED"
        /\ \A on \in BOOLEAN : /\ RecordMode(on) \in Messages
                               /\ RecordMode(on).msg = "RECORDMODE"
    BY SomeMessages DEF TypeInv, RecorderTypeOK, ControlTypeOK, Ended,
       RecordMode
  <2>3. /\ QueueGrows
        /\ \A i \in NewMessages :
              queue'[i].msg \in {"RECORDING_ENDED", "RECORDMODE"}
    BY <2>1, <2>2, QueueAppends
  <2>4. \A i \in NewMessages, id \in Ids : ~Starts(i, id)' /\ ~Stops(i, id)'
    BY <2>3 DEF Starts, Stops, TimerMsg
  <2>5. TimerGrows
    BY <2>1, <2>3, <2>4 DEF TimerGrows
  <2> QED BY <2>1, <2>5, GrowsWait DEF CurrentMoves, Starting
<1>4. ASSUME NEW id \in Ids, TimerStarts(id) \/ TimerStops(id)
      PROVE  WaitInv'
  <2>1. PICK m \in {"RECORD_START", "RECORD_STOP"} :
           /\ queue' = Append(queue, TimerMsg(m, id))
           /\ m = "RECORD_START" =>
                 /\ timer[id] = "idle"
                 /\ timer' = [timer EXCEPT ![id] = "running"]
           /\ m = "RECORD_STOP" =>
                 /\ timer[id] = "running"
                 /\ timer' = [timer EXCEPT ![id] = "over"]
    BY <1>4 DEF TimerStarts, TimerStops
  <2>2. UNCHANGED <<first_id, next, recording_id, stack>>
    BY <1>4 DEF TimerStarts, TimerStops, guiVars, rigidVars
  <2>3. /\ timer'[id] = IF m = "RECORD_START" THEN "running" ELSE "over"
        /\ \A k \in Ids : k # id => timer'[k] = timer[k]
    BY <2>1 DEF TypeInv, RecorderTypeOK
  <2>4. /\ QueueGrows /\ NewMessages = {Len(queue')}
        /\ queue'[Len(queue')] = TimerMsg(m, id)
    BY <2>1, SomeMessages, QueueAppends
  <2>5. \A i \in NewMessages, k \in Ids :
           /\ Starts(i, k)' => k = id /\ m = "RECORD_START"
           /\ Stops(i, k)' => k = id
           /\ m = "RECORD_STOP" => Stops(i, id)'
    BY <2>4 DEF Starts, Stops, TimerMsg
  <2>6. TimerGrows
    BY <2>1, <2>2, <2>3, <2>4, <2>5 DEF TimerGrows
  <2> QED BY <2>2, <2>6, GrowsWait DEF CurrentMoves, Starting
<1> QED BY <1>1, <1>2, <1>3, <1>4

LEMMA RecorderNextWait ==
  ASSUME TypeInv, WaitInv, [RecorderNext]_recorderVars
  PROVE  WaitInv'
<1>1. CASE UNCHANGED recorderVars
  <2>1. UNCHANGED <<timer, first_id, next, recording_id, stack, queue>>
    BY <1>1 DEF recorderVars, controlVars, guiVars, rigidVars
  <2>2. TimerGrows
    BY <2>1, QueueAppends DEF TimerGrows
  <2> QED BY <2>1, <2>2, GrowsWait DEF CurrentMoves, Starting
<1>2. CASE Neutrino
  BY <1>2, HandlerWait, CallWait DEF Neutrino
<1> QED BY <1>1, <1>2, AroundWait DEF RecorderNext

(* A recording that waits for the end of another one has its RECORD_STOP    *)
(* still to come or is forgotten at it (neutrino.cpp:2972), for any number  *)
(* of timers, keys, failures and nested boxes; only a handler under way in  *)
(* startNextRecording keeps the recording that it starts beyond its stop    *)
(* (:4001, :4087).                                                          *)
THEOREM PendingIsNotOver == RecorderSpec => []PendingNotStopped
<1>1. RecorderInit => RecorderInv /\ TypeInv /\ WaitInv
  <2>1. RecorderInit => WaitInv
    BY RecorderAssumption
       DEF RecorderInit, ControlInit, WaitInv, TimerInv, PendingInv, Unused
  <2> QED BY <2>1, RecorderInitInv, RecorderInitTypes
<1>2. RecorderInv /\ TypeInv /\ WaitInv /\ [RecorderNext]_recorderVars
         => RecorderInv' /\ TypeInv' /\ WaitInv'
  BY RecorderNextInv, RecorderNextTypes, RecorderNextWait
<1>3. WaitInv => PendingNotStopped
  <2>1. SUFFICES ASSUME WaitInv, next \notin {NoId, first_id}
                 PROVE  \/ timer[next] = "running"
                        \/ StopAfter(0, next)
                        \/ next = recording_id /\ Starting
    BY DEF PendingNotStopped, StopAfter, Stops, Starting
  <2> QED BY <2>1 DEF WaitInv, PendingInv, StopComes
<1> QED BY <1>1, <1>2, <1>3, PTL DEF RecorderSpec

=============================================================================
