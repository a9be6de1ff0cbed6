------------------------ MODULE StreamControlProofs ------------------------
(***************************************************************************)
(* The safety of stream2file's busy_count for any set of names: the        *)
(* conjunction of type correctness and OneRecording is inductive.          *)
(***************************************************************************)
EXTENDS StreamControl, TLAPS

ControlInv == ControlTypeOK /\ OneRecording

LEMMA ControlInitInv == ControlInit => ControlInv
  BY DEF ControlInit, ControlInv, ControlTypeOK, OneRecording, Status, Answers

(* Every step of a call, of the threads or of the loop keeps the invariant. *)
LEMMA ControlNextInv ==
  ASSUME ControlInv, [ControlNext]_controlVars
  PROVE  ControlInv'
<1> USE DEF ControlInv, ControlTypeOK, OneRecording, Status, Failures, Answers
<1>1. CASE \E n \in Names : StartRecording(n)
  BY <1>1 DEF StartRecording
<1>2. CASE StopRecording \/ StopIdle
  BY <1>2 DEF StopRecording, StopIdle
<1>3. CASE CallStep
  <2>1. CASE StartBusy
    BY <2>1 DEF StartBusy, Return
  <2>2. CASE StartSleep
    BY <2>2 DEF StartSleep
  <2>3. CASE StartGiveUp
    BY <2>3 DEF StartGiveUp, Return
  <2>4. CASE StartOpen
    BY <2>4 DEF StartOpen
  <2>5. CASE StartFailed
    BY <2>5 DEF StartFailed, Return
  <2>6. CASE StartNoThread
    BY <2>6 DEF StartNoThread, Return
  <2>7. CASE StartOK
    BY <2>7 DEF StartOK, Return
  <2>8. CASE StartRunning
    BY <2>8 DEF StartRunning
  <2> QED
    BY <1>3, <2>1, <2>2, <2>3, <2>4, <2>5, <2>6, <2>7, <2>8 DEF CallStep
<1>4. CASE ThreadStep
  <2>1. ASSUME NEW s \in Failures, ThreadFails(s) PROVE ControlInv'
    BY <2>1 DEF ThreadFails, callVars
  <2>2. CASE ThreadEnds
    BY <2>2 DEF ThreadEnds, callVars
  <2>3. CASE TailReads
    BY <2>3 DEF TailReads, callVars
  <2>4. CASE TailSends
    BY <2>4 DEF TailSends, callVars
  <2> QED
    BY <1>4, <2>1, <2>2, <2>3, <2>4 DEF ThreadStep
<1>5. CASE Receive
  BY <1>5 DEF Receive, callVars
<1>6. CASE UNCHANGED controlVars
  BY <1>6 DEF controlVars
<1> QED
  BY <1>1, <1>2, <1>3, <1>4, <1>5, <1>6 DEF ControlNext

(* busy_count keeps two recordings apart, for any set of names, any number  *)
(* of calls and any failures: stream2file.cpp:568-583 and :533.             *)
THEOREM OneRecordingHolds == ControlSpec => []OneRecording
<1>1. ControlInv => OneRecording
  BY DEF ControlInv
<1> QED
  BY ControlInitInv, ControlNextInv, <1>1, PTL DEF ControlSpec

=============================================================================
