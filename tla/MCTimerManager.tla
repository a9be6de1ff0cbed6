--------------------------- MODULE MCTimerManager ---------------------------
(***************************************************************************)
(* Instances of TimerManager for TLC.  One tick is about three minutes.    *)
(***************************************************************************)
EXTENDS TimerManager

Periods == [DAILY |-> 3, WEEKLY |-> 4, BIWEEKLY |-> 5, FOURWEEKLY |-> 6, MONTHLY |-> 7]

Request(type, what, rep, count, announce, alarm, stop) ==
  [type |-> type, what |-> what, rep |-> rep, count |-> count,
   announce |-> announce, alarm |-> alarm, stop |-> stop, apids |-> NoApids,
   safety |-> FALSE]

NoExtra == [pre |-> 0, post |-> 0, zap |-> 0]
Wide    == [pre |-> 1, post |-> 1, zap |-> 1]

None == {}

Saved(type, what, rep, count, announce, alarm, stop) ==
  [type |-> type, state |-> "SCHEDULED", rep |-> rep, count |-> count,
   announce |-> announce, alarm |-> alarm, stop |-> stop, what |-> what, apids |-> NoApids]

EmptyFile == [evs |-> NoEvents, extra |-> NoExtra]

FileOf(id, e) == [evs |-> [i \in {id} |-> e], extra |-> NoExtra]

(* Commands against the passes of one boot.                                *)
CommandRequests ==
  {[Request("RECORD", "tatort", "DAILY", 2, 2, 2, 3) EXCEPT !.safety = TRUE],
   Request("IMMEDIATE_RECORD", "sport", "ONCE", 1, 0, 1, 3),
   [Request("ZAPTO", "news", "WEEKDAYS", 1, 2, 3, 0) EXCEPT !.safety = TRUE]}
CommandModify ==
  {[rep |-> "ONWEEKDAYS", count |-> 0, announce |-> 2, alarm |-> 3, stop |-> 4],
   [rep |-> "DAILY", count |-> 0, announce |-> 2, alarm |-> 3, stop |-> 0]}
CommandFiles == {EmptyFile, FileOf(2, Saved("RECORD", "news", "DAILY", 0, 1, 2, 3))}

(* Boots, power failures and wake-ups.                                     *)
BootRequests == {Request("ZAPTO", "sport", "DAILY", 0, 5, 5, 0)}
BootFiles ==
  {FileOf(2, Saved("RECORD", "news", "ONCE", 1, 3, 3, 5)),
   [evs |-> [i \in {1, 4} |-> IF i = 1 THEN Saved("RECORD", "news", "DAILY", 0, 2, 2, 3)
                                      ELSE Saved("ZAPTO", "sport", "ONCE", 1, 7, 7, 0)],
    extra |-> Wide]}

(* Liveness. *)
LiveRequests ==
  {Request("RECORD", "tatort", "ONCE", 1, 2, 2, 3),
   Request("RECORD", "sport", "DAILY", 2, 1, 1, 2)}
LiveModify == {[rep |-> "ONCE", count |-> 1, announce |-> 0, alarm |-> 1, stop |-> 2]}

(* What the documentation says of weekdays, shutdown, removal and ids.     *)
WeekdaysRequests == {Request("RECORD", "tatort", "ONWEEKDAYS", 0, 1, 1, 2)}
SurviveRequests  == {Request("RECORD", "tatort", "ONCE", 1, 3, 3, 4)}
SurviveFiles     == {FileOf(1, Saved("RECORD", "news", "ONCE", 1, 3, 3, 4))}
ImmediateRequests ==
  {Request("IMMEDIATE_RECORD", "sport", "ONCE", 1, 0, 2, 5)}
ImmediateFiles   == {FileOf(1, Saved("RECORD", "news", "ONCE", 1, 3, 3, 4))}
NoTimers         == {EmptyFile}

Margins == {NoExtra, Wide}
MarginsNone == {NoExtra}
=============================================================================
