-------------------------- MODULE TimerEventProofs --------------------------
(***************************************************************************)
(* What the operators of TimerEvent do to an event, for every period.      *)
(***************************************************************************)
EXTENDS TimerEvent, TLAPS

(* The state machine of one visit never leaves the kinds of CTimerEvent's  *)
(* members.                                                                *)
LEMMA StagesType ==
  ASSUME NEW e \in Event, NEW t \in Nat
  PROVE  /\ Announced(e, t) \in Event
         /\ Fired(e, t) \in Event
         /\ Stopped(e, t) \in Event
BY DEF Announced, Fired, Stopped, Event, States

(* A weekday repetition without a weekday is a repetition like any other   *)
(* after addEvent and modifyEvent.                                         *)
LEMMA NormalisedType ==
  ASSUME NEW rep \in Repeats
  PROVE  Normalised(rep) \in Repeats
BY DEF Normalised, Repeats

(* modifyEvent with times and a repetition of the right kind.              *)
LEMMA ModifiedType ==
  ASSUME NEW e \in Event,
         NEW r \in [rep : Repeats, count : Nat, announce : Nat, alarm : Nat, stop : Nat]
  PROVE  Modified(e, r) \in Event
<1>1. Normalised(r.rep) \in Repeats
  BY NormalisedType
<1> QED BY <1>1 DEF Modified, Event, States

(* A turn of the loop of Reschedule never moves an alarm back.             *)
LEMMA TurnType ==
  ASSUME NEW rep \in Repeats
  PROVE  Turn(rep) \in Nat
BY PeriodAssumption DEF Turn

(* Products of natural numbers.                                            *)
LEMMA TimesType ==
  ASSUME NEW a \in Nat, NEW b \in Nat
  PROVE  a * b \in Nat
OBVIOUS

(* Reschedule by any number of turns.                                      *)
LEMMA MovedType ==
  ASSUME NEW e \in Event, NEW n \in Nat
  PROVE  Moved(e, n) \in Event
<1> DEFINE diff == n * Turn(e.rep)
<1>1. e.rep \in Repeats /\ e.alarm \in Nat /\ e.announce \in Nat /\ e.stop \in Nat
      /\ e.count \in Nat
  BY DEF Event
<1>2. diff \in Nat
  BY <1>1, TurnType, TimesType
<1> HIDE DEF diff
<1>3. Moved(e, n) = [e EXCEPT !.alarm    = e.alarm + diff,
                              !.announce = IF e.announce > 0 THEN e.announce + diff ELSE e.announce,
                              !.stop     = IF e.stop > 0 THEN e.stop + diff ELSE e.stop,
                              !.state    = "SCHEDULED",
                              !.count    = IF e.count > 0 THEN e.count - 1 ELSE e.count]
  BY DEF Moved, diff
<1>4. /\ e.alarm + diff \in Nat
      /\ (IF e.announce > 0 THEN e.announce + diff ELSE e.announce) \in Nat
      /\ (IF e.stop > 0 THEN e.stop + diff ELSE e.stop) \in Nat
      /\ (IF e.count > 0 THEN e.count - 1 ELSE e.count) \in Nat
  BY <1>1, <1>2
<1> QED BY <1>3, <1>4 DEF Event, States

(* The division by which Turns counts: one more turn passes any point.     *)
LEMMA Division ==
  ASSUME NEW x \in Nat, NEW p \in Nat \ {0}
  PROVE  /\ x \div p \in Nat
         /\ (x \div p + 1) * p > x
<1>1. x = p * (x \div p) + (x % p) /\ x % p \in 0..(p - 1) /\ x \div p \in Int
  OBVIOUS
<1>2. x \div p \in Nat
  OBVIOUS
<1> DEFINE q == x \div p
<1>3. q \in Nat /\ x < p * q + p
  BY <1>1, <1>2
<1>4. (q + 1) * p = p * q + p
  BY <1>3
<1> QED BY <1>3, <1>4

(* How many turns Reschedule takes when its loop ends.                     *)
LEMMA TurnsType ==
  ASSUME NEW e \in Event, NEW now \in Nat, ~NeverCatchesUp(e, now)
  PROVE  Turns(e, now) \in Nat
<1>1. e.rep \in Repeats /\ e.alarm \in Nat
  BY DEF Event
<1>2. Turn(e.rep) \in Nat
  BY <1>1, TurnType
<1>3. CASE e.alarm <= now
  <2>1. Turn(e.rep) \in Nat \ {0} /\ now - e.alarm \in Nat
    BY <1>1, <1>2, <1>3 DEF NeverCatchesUp
  <2>2. (now - e.alarm) \div Turn(e.rep) \in Nat
    BY <2>1, Division
  <2> QED BY <1>3, <2>2 DEF Turns
<1>4. CASE ~(e.alarm <= now)
  BY <1>4 DEF Turns
<1> QED BY <1>3, <1>4

(***************************************************************************)
(* Reschedule(false) of a repeating event whose loop ends keeps an event   *)
(* an event, and schedules it for a time that has not come yet.            *)
(***************************************************************************)
THEOREM RescheduledLiesAhead ==
  ASSUME NEW e \in Event, NEW now \in Nat, ~NeverCatchesUp(e, now)
  PROVE  /\ Rescheduled(e, now) \in Event
         /\ Rescheduled(e, now).state = "SCHEDULED"
         /\ Rescheduled(e, now).alarm > now
<1> DEFINE n == Turns(e, now)
           p == Turn(e.rep)
<1>1. n \in Nat
  BY TurnsType
<1>2. e.rep \in Repeats /\ e.alarm \in Nat
  BY DEF Event
<1>3. p \in Nat
  BY <1>2, TurnType
<1>4. Rescheduled(e, now).alarm = e.alarm + n * p /\ Rescheduled(e, now).state = "SCHEDULED"
  BY DEF Rescheduled, Moved, Event
<1>5. e.alarm + n * p > now
  <2>1. CASE e.alarm <= now
    <3>1. p \in Nat \ {0} /\ now - e.alarm \in Nat
      BY <1>2, <1>3, <2>1 DEF NeverCatchesUp
    <3>2. n = (now - e.alarm) \div p + 1
      BY <2>1 DEF Turns
    <3>3. n * p > now - e.alarm
      BY <3>1, <3>2, Division
    <3>4. n * p \in Nat
      BY <1>1, <1>3, TimesType
    <3> HIDE DEF n, p
    <3> QED BY <1>2, <3>3, <3>4
  <2>2. CASE ~(e.alarm <= now)
    <3>1. n * p \in Nat
      BY <1>1, <1>3, TimesType
    <3> HIDE DEF n, p
    <3> QED BY <1>2, <2>2, <3>1
  <2> QED BY <2>1, <2>2
<1> QED BY <1>1, <1>4, <1>5, MovedType DEF Rescheduled

=============================================================================
