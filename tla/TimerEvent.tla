----------------------------- MODULE TimerEvent -----------------------------
(***************************************************************************)
(* One timer of timerd: class CTimerEvent and its subclasses, with no      *)
(* state of its own.  An event is a record; each operator below is what    *)
(* one member function does to it.  Names, EPG data and message texts are  *)
(* abstracted to the tag "what", the audio PIDs to the field "apids".      *)
(* Times are ticks of the system clock, 0 standing for "none" as in the    *)
(* code.                                                                   *)
(***************************************************************************)
EXTENDS Integers

CONSTANTS
  Period,   \* ticks by which one repetition moves each advancing repeat kind
  What,     \* tags: the rest of what a client asked for
  Apids     \* values of the audio PID mask

Advancing == {"DAILY", "WEEKLY", "BIWEEKLY", "FOURWEEKLY", "MONTHLY"}

(***************************************************************************)
(* WEEKDAYS is the bare flag 0x100, ONWEEKDAYS the flag with at least one  *)
(* weekday bit set.                                                        *)
(***************************************************************************)
Repeats == Advancing \cup {"ONCE", "BYEVENTDESCRIPTION", "WEEKDAYS", "ONWEEKDAYS"}

ASSUME PeriodAssumption == Period \in [Advancing -> Nat \ {0}]

Types == {"SHUTDOWN", "NEXTPROGRAM", "ZAPTO", "STANDBY", "RECORD", "REMIND",
          "SLEEPTIMER", "EXEC_PLUGIN"}

States == {"SCHEDULED", "PREANNOUNCE", "ISRUNNING", "HASFINISHED", "TERMINATED"}

Event == [type : Types, state : States, rep : Repeats, count : Nat,
          announce : Nat, alarm : Nat, stop : Nat, what : What, apids : Apids]

-----------------------------------------------------------------------------
(* addEvent and modifyEvent: weekdays without a weekday reduce to once.    *)
Normalised(rep) == IF rep = "WEEKDAYS" THEN "ONCE" ELSE rep

WantsAnnounce(e, t) == e.announce > 0 /\ e.state = "SCHEDULED" /\ e.announce <= t

WantsFire(e, t) ==
  e.alarm > 0 /\ e.state \in {"SCHEDULED", "PREANNOUNCE"} /\ e.alarm <= t

WantsStop(e, t) == e.stop > 0 /\ e.state = "ISRUNNING" /\ e.stop <= t

Announced(e, t) ==
  IF WantsAnnounce(e, t) THEN [e EXCEPT !.state = "PREANNOUNCE"] ELSE e

(* Mutant of Fired: the event finishes even if it is to be stopped later.  *)
FiredAndDone(e, t) ==
  IF WantsFire(e, t) THEN [e EXCEPT !.state = "HASFINISHED"] ELSE e

Fired(e, t) ==
  IF WantsFire(e, t)
  THEN [e EXCEPT !.state = IF e.stop = 0 THEN "HASFINISHED" ELSE "ISRUNNING"]
  ELSE e

Stopped(e, t) == IF WantsStop(e, t) THEN [e EXCEPT !.state = "HASFINISHED"] ELSE e

(* Mutant of Modified: every event is scheduled again.                     *)
ModifiedAnew(e, r) ==
  [e EXCEPT !.announce = r.announce, !.alarm = r.alarm, !.stop = r.stop,
            !.state = "SCHEDULED", !.rep = Normalised(r.rep), !.count = r.count]

(* modifyEvent with the times and the repetition of r: an announced event  *)
(* is to be announced again, any other keeps its state.                    *)
Modified(e, r) ==
  [e EXCEPT !.announce = r.announce, !.alarm = r.alarm, !.stop = r.stop,
            !.state = IF @ = "PREANNOUNCE" THEN "SCHEDULED" ELSE @,
            !.rep = Normalised(r.rep), !.count = r.count]

(* More occurrences are to come: a count of 1 is the last, 0 is for ever.  *)
Repeating(e) == e.rep # "ONCE" /\ e.count # 1

(***************************************************************************)
(* How far one turn of the loop of Reschedule moves the alarm.  The branch *)
(* for weekdays advances the struct t2 and then converts t, so the alarm   *)
(* stays where it is; BYEVENTDESCRIPTION is a "todo".                      *)
(***************************************************************************)
Turn(rep) == IF rep \in Advancing THEN Period[rep] ELSE 0

(* Mutant of Moved: the count of an endless event is decremented as well.  *)
MovedUncounted(e, n) ==
  LET diff == n * Turn(e.rep)
  IN  [e EXCEPT !.alarm    = @ + diff,
                !.announce = IF @ > 0 THEN @ + diff ELSE @,
                !.stop     = IF @ > 0 THEN @ + diff ELSE @,
                !.state    = "SCHEDULED",
                !.count    = @ - 1]

(* CTimerEvent::Reschedule moved by n turns of its loop.                   *)
Moved(e, n) ==
  LET diff == n * Turn(e.rep)
  IN  [e EXCEPT !.alarm    = @ + diff,
                !.announce = IF @ > 0 THEN @ + diff ELSE @,
                !.stop     = IF @ > 0 THEN @ + diff ELSE @,
                !.state    = "SCHEDULED",
                !.count    = IF @ > 0 THEN @ - 1 ELSE @]

(* The loop "while (alarmTime <= now)" never ends.                         *)
NeverCatchesUp(e, now) == e.alarm <= now /\ Turn(e.rep) = 0

(* Mutant of Turns: stops at an alarm that is not in the future yet.       *)
TurnsShort(e, now) ==
  IF e.alarm <= now THEN (now - e.alarm) \div Turn(e.rep) ELSE 0

(* The number of turns after which the alarm lies in the future.           *)
Turns(e, now) ==
  IF e.alarm <= now THEN (now - e.alarm) \div Turn(e.rep) + 1 ELSE 0

(* Reschedule(false), for a repeating event whose loop ends.               *)
Rescheduled(e, now) == Moved(e, Turns(e, now))

(* Reschedule(true): one turn whatever the alarm.                          *)
ForcedOn(e) == Moved(e, 1)

(* Mutant of StillOfUse: only the stop time counts.                        *)
StillToStop(e, now) == e.stop > now

(* loadEventsFromConfig: a saved event still of use is kept as it is, an   *)
(* old periodic one is kept to be rescheduled, any other is dropped.       *)
StillOfUse(e, now) == e.alarm >= now \/ e.stop > now

Kept(e, now) == StillOfUse(e, now) \/ e.rep # "ONCE"

Restored(e, now) ==
  IF StillOfUse(e, now) THEN e ELSE [e EXCEPT !.state = "HASFINISHED"]

=============================================================================
