------------------------- MODULE TimerManagerProofs -------------------------
(***************************************************************************)
(* Proofs about TimerManager for every value of its constants.             *)
(***************************************************************************)
EXTENDS TimerManager, TimerEventProofs, WellFoundedInduction

-----------------------------------------------------------------------------
(* Numbers: what Min and Max of FiniteSetsExt return.                      *)

(* The least of a set of points in time is one of them.                    *)
LEMMA MinNat ==
  ASSUME NEW S, S \subseteq Nat, S # {}
  PROVE  Min(S) \in S /\ \A y \in S : Min(S) <= y
<1> DEFINE R == OpToRel(<, Nat)
<1>1. IsWellFoundedOn(R, Nat)
  BY NatLessThanWellFounded
<1>2. \A y, x \in Nat : y < x => <<y, x>> \in R
  BY DEF OpToRel
<1> HIDE DEF R
<1>3. PICK x \in S : \A y \in S : ~(<<y, x>> \in R)
  BY <1>1, WFMin
<1>4. ASSUME NEW y \in S PROVE x <= y
  <2>1. x \in Nat /\ y \in Nat
    OBVIOUS
  <2>2. ~(y < x)
    BY <1>2, <1>3, <2>1
  <2> QED BY <2>1, <2>2
<1> QED BY <1>4 DEF Min

(* The later of two points in time, one of which may be out of range.      *)
LEMMA MaxOfTwo ==
  ASSUME NEW a \in Int, NEW b \in Nat
  PROVE  Max({a, b}) \in Nat
<1>1. CASE a >= b
  <2>1. a \in {a, b} /\ \A y \in {a, b} : a >= y
    BY <1>1
  <2>2. Max({a, b}) \in {a, b} /\ \A y \in {a, b} : Max({a, b}) >= y
    BY <2>1 DEF Max
  <2> QED BY <1>1, <2>2
<1>2. CASE ~(a >= b)
  <2>1. b \in {a, b} /\ \A y \in {a, b} : b >= y
    BY <1>2
  <2>2. Max({a, b}) \in {a, b} /\ \A y \in {a, b} : Max({a, b}) >= y
    BY <2>1 DEF Max
  <2> QED BY <1>2, <2>2
<1> QED BY <1>1, <1>2

-----------------------------------------------------------------------------
(* Tables of events.                                                       *)

(* Setting one entry of a table leaves the others alone.                   *)
LEMMA WithType ==
  ASSUME NEW evs, IsTable(evs), NEW id \in Nat \ {0}, NEW e \in Event
  PROVE  /\ IsTable(With(evs, id, e))
         /\ DOMAIN With(evs, id, e) = DOMAIN evs \cup {id}
         /\ With(evs, id, e)[id] = e
         /\ \A i \in DOMAIN evs \ {id} : With(evs, id, e)[i] = evs[i]
BY DEF With, IsTable

(* Erasing entries leaves the others alone.                                *)
LEMMA RestrictType ==
  ASSUME NEW evs, IsTable(evs), NEW S, S \subseteq DOMAIN evs
  PROVE  /\ IsTable(Restrict(evs, S))
         /\ DOMAIN Restrict(evs, S) = S
         /\ \A i \in S : Restrict(evs, S)[i] = evs[i]
BY DEF Restrict, IsTable

(* Changing an event in place keeps the ids.                               *)
LEMMA ExceptType ==
  ASSUME NEW evs, IsTable(evs), NEW id \in DOMAIN evs, NEW e \in Event
  PROVE  /\ IsTable([evs EXCEPT ![id] = e])
         /\ DOMAIN [evs EXCEPT ![id] = e] = DOMAIN evs
BY DEF IsTable

(* addEvent on a table.                                                    *)
LEMMA InsertedType ==
  ASSUME NEW evs, IsTable(evs), NEW id \in Nat \ {0}, NEW e \in Event
  PROVE  /\ IsTable(Inserted(evs, id, e))
         /\ DOMAIN Inserted(evs, id, e) = DOMAIN evs \cup {id}
         /\ \A i \in DOMAIN evs \ {id} : Inserted(evs, id, e)[i] = evs[i]
<1>1. [e EXCEPT !.rep = Normalised(@)] \in Event
  <2>1. e.rep \in Repeats
    BY DEF Event
  <2>2. Normalised(e.rep) \in Repeats
    BY <2>1, NormalisedType
  <2> QED BY <2>2 DEF Event
<1> QED BY <1>1, WithType DEF Inserted

(* The event timerd adds by itself, at any time.                           *)
LEMMA AutoShutdownType ==
  ASSUME now \in Nat
  PROVE  AutoShutdown \in Event
BY ConstantAssumption DEF AutoShutdown, Event, Types, States, Repeats

(* The event built from a request to add one.                              *)
LEMMA NewEventType ==
  ASSUME NEW r \in AddRequests, extra \in Extra
  PROVE  NewEvent(r) \in Event
<1>1. r \in AddRequest
  BY RequestAssumption
<1>2. extra \in [pre : Nat, post : Nat, zap : Nat]
      /\ (r.safety => \A m \in {extra.pre, extra.zap} : m <= r.announce /\ m <= r.alarm)
  BY DEF Extra
<1> DEFINE pre  == IF ~r.safety THEN 0
                   ELSE IF r.type = "RECORD" THEN extra.pre
                   ELSE IF r.type = "ZAPTO" THEN extra.zap ELSE 0
           post == IF r.safety /\ r.type = "RECORD" THEN extra.post ELSE 0
<1>3. r.announce \in Nat /\ r.alarm \in Nat /\ r.stop \in Nat /\ r.count \in Nat
      /\ r.rep \in Repeats /\ r.what \in What /\ r.apids \in Apids
      /\ r.type \in (Types \ {"NEXTPROGRAM"}) \cup {"IMMEDIATE_RECORD"}
  BY <1>1 DEF AddRequest
<1>4. /\ r.announce - pre \in Nat
      /\ r.alarm - pre \in Nat
      /\ r.stop + post \in Nat
  BY <1>2, <1>3
<1>5. (IF r.type \in {"RECORD", "IMMEDIATE_RECORD"} THEN "RECORD" ELSE r.type) \in Types
  BY <1>3 DEF Types
<1> HIDE DEF pre, post
<1>6. NewEvent(r) =
        [type     |-> IF r.type \in {"RECORD", "IMMEDIATE_RECORD"} THEN "RECORD" ELSE r.type,
         state    |-> IF r.type = "IMMEDIATE_RECORD" THEN "ISRUNNING" ELSE "SCHEDULED",
         rep      |-> r.rep,
         count    |-> r.count,
         announce |-> r.announce - pre,
         alarm    |-> r.alarm - pre,
         stop     |-> IF r.type \in {"RECORD", "IMMEDIATE_RECORD"} THEN r.stop + post ELSE 0,
         what     |-> r.what,
         apids    |-> IF r.type \in {"RECORD", "IMMEDIATE_RECORD"} THEN r.apids ELSE NoApids]
  BY DEF NewEvent, pre, post
<1> QED BY <1>3, <1>4, <1>5, <1>6, ConstantAssumption DEF Event, States

(* The next announcement is a point in time, or none.                      *)
LEMMA NextAnnounceType ==
  ASSUME IsTable(events), NEW S, S \subseteq DOMAIN events
  PROVE  NextAnnounce(S) \in Nat
<1> DEFINE zeros == {i \in S : events[i].announce = 0}
           after == {i \in S : \A z \in zeros : z < i}
           times == {events[i].announce : i \in after}
<1>1. times \subseteq Nat
  BY DEF IsTable, Event
<1>2. after # {} => times # {}
  OBVIOUS
<1>3. NextAnnounce(S) = IF after = {} THEN 0 ELSE Min(times)
  BY DEF NextAnnounce
<1> HIDE DEF after, times
<1>4. after # {} => Min(times) \in Nat
  BY <1>1, <1>2, MinNat
<1> QED BY <1>3, <1>4

-----------------------------------------------------------------------------
(* One visit of the timer thread.                                          *)

(* What a table holds.                                                     *)
LEMMA EventOfTable ==
  ASSUME IsTable(events), NEW id \in DOMAIN events
  PROVE  id \in Nat \ {0} /\ events[id] \in Event
BY DEF IsTable

(* Announcing, firing and stopping keep an event an event.                 *)
LEMMA CheckedType ==
  ASSUME NEW e \in Event, NEW t \in Nat
  PROVE  Checked(e, t) \in Event
BY StagesType DEF Checked

(* So does the end of a visit, when Reschedule comes to its end.           *)
LEMMA FinishedType ==
  ASSUME NEW e \in Event, now \in Nat, ~Hangs(e)
  PROVE  Finished(e) \in Event
<1>1. CASE ~Ends(e)
  BY <1>1 DEF Finished
<1>2. CASE Ends(e) /\ Repeating(e)
  BY <1>2, RescheduledLiesAhead DEF Finished, Hangs
<1>3. CASE Ends(e) /\ ~Repeating(e)
  BY <1>3 DEF Finished, Event, States
<1> QED BY <1>1, <1>2, <1>3

(* Updating one event, with or without a shutdown event added behind it.   *)
LEMMA UpdatedType ==
  ASSUME TypeOK, NEW id \in DOMAIN events, NEW e \in Event, NEW stops \in BOOLEAN
  PROVE  /\ IsTable(Updated(id, e, stops))
         /\ DOMAIN Updated(id, e, stops) =
              DOMAIN events \cup (IF AddsShutdown(id, stops) THEN {eventID + 1} ELSE {})
         /\ Updated(id, e, stops)[id] = e
         /\ \A i \in DOMAIN events \ {id} : Updated(id, e, stops)[i] = events[i]
<1> DEFINE w == With(events, id, e)
<1>1. IsTable(events) /\ eventID \in Nat /\ now \in Nat /\ DOMAIN events \subseteq 1..eventID
  BY DEF TypeOK
<1>2. id \in Nat \ {0}
  BY <1>1, EventOfTable
<1>a. /\ IsTable(w)
      /\ DOMAIN w = DOMAIN events \cup {id}
      /\ w[id] = e
      /\ \A i \in DOMAIN events \ {id} : w[i] = events[i]
  BY <1>1, <1>2 DEF With, IsTable
<1> HIDE DEF w
<1>3. /\ IsTable(w) /\ DOMAIN w = DOMAIN events
      /\ w[id] = e /\ \A i \in DOMAIN events \ {id} : w[i] = events[i]
  BY <1>a
<1>4. CASE AddsShutdown(id, stops)
  <2>1. Updated(id, e, stops) = Inserted(w, eventID + 1, AutoShutdown)
    BY <1>4 DEF Updated, w
  <2>2. AutoShutdown \in Event
    BY <1>1, AutoShutdownType
  <2>3. eventID + 1 \in Nat \ {0} /\ eventID + 1 \notin DOMAIN events
    BY <1>1
  <2>a. /\ IsTable(Inserted(w, eventID + 1, AutoShutdown))
        /\ DOMAIN Inserted(w, eventID + 1, AutoShutdown) = DOMAIN w \cup {eventID + 1}
        /\ \A i \in DOMAIN w \ {eventID + 1} :
             Inserted(w, eventID + 1, AutoShutdown)[i] = w[i]
    BY <1>3, <2>2, <2>3, InsertedType
  <2>4. /\ IsTable(Inserted(w, eventID + 1, AutoShutdown))
        /\ DOMAIN Inserted(w, eventID + 1, AutoShutdown) = DOMAIN events \cup {eventID + 1}
        /\ \A i \in DOMAIN events : Inserted(w, eventID + 1, AutoShutdown)[i] = w[i]
    BY <1>3, <2>3, <2>a
  <2> QED BY <1>3, <1>4, <2>1, <2>4
<1>5. CASE ~AddsShutdown(id, stops)
  BY <1>3, <1>5 DEF Updated, w
<1> QED BY <1>4, <1>5

(* What Handlers leaves of the types, for any event visited.               *)
LEMMA HandlersType ==
  ASSUME TypeOK, NEW id \in DOMAIN events, NEW done \in BOOLEAN, Handlers(id, done)
  PROVE  /\ eventID' \in Nat
         /\ eventID' = IF AddsShutdown(id, Stops(events[id], tnow)) THEN eventID + 1 ELSE eventID
         /\ saveEvents' \in BOOLEAN /\ wakeup' \in BOOLEAN
         /\ recOn' \subseteq Nat /\ adrift' \subseteq Nat
         /\ UNCHANGED <<now, extra, mutex, tnow, config, mt, added, box, cmds, loaded,
                        saveOK, offAt, touched>>
<1>1. IsTable(events) /\ eventID \in Nat /\ recOn \subseteq Nat /\ adrift \subseteq Nat
      /\ saveEvents \in BOOLEAN /\ wakeup \in BOOLEAN
  BY DEF TypeOK
<1>2. id \in Nat
  BY <1>1, EventOfTable
<1>3. saveEvents' \in BOOLEAN
  <2>1. saveEvents' = (saveEvents \/ Checked(events[id], tnow) # events[id] \/ done)
    BY Zenon DEF Handlers
  <2> QED BY <2>1
<1>4. wakeup' \in BOOLEAN
  <2>1. wakeup' = (wakeup /\ ~(Fires(events[id], tnow) /\ events[id].type = "ZAPTO"))
    BY Zenon DEF Handlers
  <2> QED BY <2>1
<1>5. /\ eventID' = IF AddsShutdown(id, Stops(events[id], tnow)) THEN eventID + 1 ELSE eventID
      /\ recOn' \in {recOn, recOn \ {id}, recOn \cup {id}}
      /\ adrift' \in {adrift, adrift \ {id}}
      /\ UNCHANGED <<now, extra, mutex, tnow, config, mt, added, box, cmds, loaded,
                     saveOK, offAt, touched>>
  BY DEF Handlers
<1> QED BY <1>1, <1>2, <1>3, <1>4, <1>5

(* The types after a visit, whatever became of the event visited.          *)
LEMMA VisitType ==
  ASSUME TypeOK, NEW id \in DOMAIN events, NEW e \in Event, NEW done \in BOOLEAN,
         Handlers(id, done),
         events' = Updated(id, e, Stops(events[id], tnow))
                   \/ events' = Restrict(Updated(id, e, Stops(events[id], tnow)),
                                         DOMAIN Updated(id, e, Stops(events[id], tnow)) \ {id}),
         pos' \in Nat, erased' \in BOOLEAN, tt' \in ThreadStates
  PROVE  TypeOK'
<1> DEFINE stops == Stops(events[id], tnow)
           t == Updated(id, e, stops)
<1>1. stops \in BOOLEAN
  BY DEF Stops, WantsStop
<1>2. /\ IsTable(t)
      /\ DOMAIN t = DOMAIN events \cup (IF AddsShutdown(id, stops) THEN {eventID + 1} ELSE {})
  BY <1>1, UpdatedType
<1>3. IsTable(events') /\ DOMAIN events' \subseteq DOMAIN t
  BY <1>2, RestrictType
<1>4. /\ eventID' \in Nat
      /\ eventID' = IF AddsShutdown(id, stops) THEN eventID + 1 ELSE eventID
      /\ saveEvents' \in BOOLEAN /\ wakeup' \in BOOLEAN
      /\ recOn' \subseteq Nat /\ adrift' \subseteq Nat
      /\ UNCHANGED <<now, extra, mutex, tnow, config, mt, added, box, cmds, loaded,
                     saveOK, offAt, touched>>
  BY HandlersType
<1> HIDE DEF stops, t
<1>5. DOMAIN events' \subseteq 1..eventID'
  BY <1>2, <1>3, <1>4 DEF TypeOK
<1> QED BY <1>3, <1>4, <1>5 DEF TypeOK, box

-----------------------------------------------------------------------------
(* Types.                                                                  *)

(* An empty configuration is a configuration.                              *)
LEMMA NoConfigType ==
  ASSUME NEW x \in Extra
  PROVE  IsTable(NoEvents) /\ IsConfig(NoConfig)
<1>1. IsTable(NoEvents)
  BY DEF IsTable, NoEvents
<1>2. [pre |-> 0, post |-> 0, zap |-> 0] \in Extra
  BY RequestAssumption DEF Extra, AddRequest
<1> QED BY <1>1, <1>2 DEF IsConfig, NoConfig

(* What saveEventsToConfig puts together is a configuration.               *)
LEMMA SnapshotType ==
  ASSUME TypeOK
  PROVE  IsConfig(Snapshot)
BY DEF TypeOK, IsConfig, Snapshot

(* The types hold at the first boot.                                       *)
LEMMA TypeInit == Init => TypeOK
<1> SUFFICES ASSUME Init PROVE TypeOK
  OBVIOUS
<1>1. IsConfig(file) /\ file.extra \in Extra
  BY RequestAssumption DEF Init, IsConfig
<1>2. IsTable(NoEvents) /\ IsConfig(NoConfig) /\ DOMAIN NoEvents = {}
  BY <1>1, NoConfigType DEF NoEvents
<1> QED BY <1>1, <1>2 DEF Init, TypeOK, ThreadStates, CancelPoints, MainStates

(* The types of a process that has just started.                           *)
LEMMA ForgottenType ==
  ASSUME TypeOK, Forgotten
  PROVE  /\ IsTable(events') /\ DOMAIN events' = {} /\ eventID' \in Nat
         /\ IsConfig(config') /\ saveEvents' \in BOOLEAN /\ erased' \in BOOLEAN
         /\ tnow' \in Nat /\ pos' \in Nat /\ added' \in Nat /\ cmds' \in Nat
         /\ loaded' \in BOOLEAN /\ recOn' \subseteq Nat /\ adrift' \subseteq Nat
         /\ offAt' \in Nat
         /\ mutex' \in {"free", "timer", "main"}
<1>1. IsTable(NoEvents) /\ IsConfig(NoConfig) /\ DOMAIN NoEvents = {}
  BY NoConfigType DEF NoEvents, TypeOK
<1> QED BY <1>1 DEF Forgotten

(* Whatever saveConfig leaves behind is a configuration.                   *)
LEMMA SaveConfigType ==
  ASSUME TypeOK, SaveConfig
  PROVE  IsConfig(file') /\ saveOK' \in BOOLEAN
<1>1. IsConfig(NoConfig) /\ IsConfig(file) /\ IsConfig(config)
  BY NoConfigType DEF TypeOK
<1> QED BY <1>1 DEF SaveConfig

(* The commands and the shutdown keep the types.                           *)
LEMMA CommandType ==
  ASSUME TypeOK, ClientCommand
  PROVE  TypeOK'
<1> USE DEF TypeOK, thread, manager, box, history, MainStates, Command
<1>1. ASSUME NEW r \in AddRequests, AddTimer(r) PROVE TypeOK'
  <2> DEFINE id == eventID + 1
  <2>1. NewEvent(r) \in Event
    BY NewEventType
  <2>2. id \in Nat \ {0}
    OBVIOUS
  <2>3. events' = Inserted(events, id, NewEvent(r)) /\ eventID' = id /\ added' = id
        /\ recOn' \in {recOn, recOn \cup {id}}
    BY <1>1 DEF AddTimer
  <2>4. IsTable(events') /\ DOMAIN events' = DOMAIN events \cup {id}
    BY <2>1, <2>2, <2>3, InsertedType
  <2>5. DOMAIN events' \subseteq 1..eventID' /\ recOn' \subseteq Nat
    BY <2>2, <2>3, <2>4
  <2> QED BY <1>1, <2>2, <2>3, <2>4, <2>5 DEF AddTimer, Locked
<1>2. ASSUME NEW id \in DOMAIN events, NEW state \in {"TERMINATED", "HASFINISHED"},
             EndEvent(id, state)
      PROVE  TypeOK'
  <2> DEFINE e == [events[id] EXCEPT !.state = state]
             stops == Stoppable(events[id])
  <2>1. events[id] \in Event
    BY EventOfTable
  <2>2. e \in Event /\ stops \in BOOLEAN
    BY <2>1 DEF Event, States, Stoppable
  <2>3. /\ IsTable(Updated(id, e, stops))
        /\ DOMAIN Updated(id, e, stops) =
             DOMAIN events \cup (IF AddsShutdown(id, stops) THEN {eventID + 1} ELSE {})
    BY <2>2, UpdatedType
  <2>4. /\ events' = Updated(id, e, stops)
        /\ eventID' = IF AddsShutdown(id, stops) THEN eventID + 1 ELSE eventID
        /\ recOn' \in {recOn, recOn \ {id}}
        /\ adrift' \in {adrift, adrift \ {id}}
        /\ touched' = touched \cup {events[id].what}
    BY <1>2 DEF EndEvent
  <2>5. saveEvents' \in BOOLEAN
    <3>1. saveEvents' = (saveEvents \/ AddsShutdown(id, stops))
      BY <1>2 DEF EndEvent
    <3> HIDE DEF stops
    <3> QED BY <3>1
  <2>6. events[id].what \in What
    BY <2>1 DEF Event
  <2>7. /\ cmds' = cmds + 1
        /\ UNCHANGED <<now, wakeup, extra, thread, config, mt, added, box, loaded, saveOK,
                       offAt, mutex>>
    BY <1>2 DEF EndEvent, Locked
  <2> HIDE DEF e, stops
  <2>8. IsTable(events') /\ DOMAIN events' \subseteq 1..eventID' /\ eventID' \in Nat
    BY <2>3, <2>4
  <2> QED BY <2>4, <2>5, <2>6, <2>7, <2>8
<1>3. ASSUME NEW id \in DOMAIN events, NEW r \in ModifyRequests, ModifyTimer(id, r)
      PROVE  TypeOK'
  <2>1. events[id] \in Event /\ events[id].what \in What
    BY EventOfTable DEF Event
  <2>2. Modified(events[id], r) \in Event
    BY <2>1, RequestAssumption, ModifiedType DEF ModifyRequest
  <2>3. /\ IsTable([events EXCEPT ![id] = Modified(events[id], r)])
        /\ DOMAIN [events EXCEPT ![id] = Modified(events[id], r)] = DOMAIN events
    BY <2>2, ExceptType
  <2> QED BY <1>3, <2>1, <2>3 DEF ModifyTimer, Locked
<1>4. ASSUME NEW id \in DOMAIN events, NEW a \in Apids, SetAPid(id, a) PROVE TypeOK'
  <2>1. events[id] \in Event
    BY EventOfTable
  <2>2. [events[id] EXCEPT !.apids = a] \in Event
    BY <2>1 DEF Event
  <2>3. /\ IsTable([events EXCEPT ![id] = [events[id] EXCEPT !.apids = a]])
        /\ DOMAIN [events EXCEPT ![id] = [events[id] EXCEPT !.apids = a]] = DOMAIN events
    BY <2>2, ExceptType
  <2> QED BY <1>4, <2>3 DEF SetAPid, Locked
<1>5. ASSUME NEW id \in DOMAIN events, RescheduleTimer(id) PROVE TypeOK'
  <2>1. events[id] \in Event
    BY EventOfTable
  <2>2. ForcedOn(events[id]) \in Event
    BY <2>1, MovedType DEF ForcedOn
  <2>3. /\ IsTable([events EXCEPT ![id] = ForcedOn(events[id])])
        /\ DOMAIN [events EXCEPT ![id] = ForcedOn(events[id])] = DOMAIN events
    BY <2>2, ExceptType
  <2> QED BY <1>5, <2>3 DEF RescheduleTimer, Locked
<1>6. ASSUME NEW x \in Extras, SetRecordingSafety(x) \/ SetZaptoSafety(x) PROVE TypeOK'
  <2> DEFINE rec == [extra EXCEPT !.pre = x.pre, !.post = x.post]
             zap == [extra EXCEPT !.zap = x.zap]
  <2>1. x \in Extra /\ extra \in Extra
    BY RequestAssumption
  <2>2. x \in [pre : Nat, post : Nat, zap : Nat] /\ extra \in [pre : Nat, post : Nat, zap : Nat]
    BY <2>1 DEF Extra
  <2>3. \A r \in AddRequests : r.safety =>
          \A m \in {x.pre, x.zap, extra.pre, extra.zap} : m <= r.announce /\ m <= r.alarm
    BY <2>1 DEF Extra
  <2>4. /\ rec \in [pre : Nat, post : Nat, zap : Nat] /\ rec.pre = x.pre /\ rec.zap = extra.zap
        /\ zap \in [pre : Nat, post : Nat, zap : Nat] /\ zap.pre = extra.pre /\ zap.zap = x.zap
    BY <2>2
  <2> HIDE DEF rec, zap
  <2>5. rec \in Extra /\ zap \in Extra
    BY <2>3, <2>4 DEF Extra
  <2>6. SetSafety(rec) \/ SetSafety(zap)
    BY <1>6 DEF SetRecordingSafety, SetZaptoSafety, rec, zap
  <2>7. ASSUME NEW y \in Extra, SetSafety(y) PROVE TypeOK'
    BY <2>7 DEF SetSafety
  <2> QED BY <2>5, <2>6, <2>7
<1>7. CASE GetTimerList
  BY <1>7 DEF GetTimerList
<1>8. CASE Shutdown
  BY <1>8 DEF Shutdown
<1> QED BY <1>1, <1>2, <1>3, <1>4, <1>5, <1>6, <1>7, <1>8
        DEF ClientCommand, RemoveTimer, StopTimer

(* The main thread keeps the types, shutdown included.                     *)
LEMMA MainType ==
  ASSUME TypeOK, MainThread
  PROVE  TypeOK'
<1> USE DEF TypeOK, thread, manager, box, history, MainStates
<1>1. CASE AddReturn
  BY <1>1 DEF AddReturn
<1>2. CASE ListSent
  BY <1>2 DEF ListSent
<1>3. CASE ShutdownSave
  BY <1>3, SnapshotType DEF ShutdownSave
<1>4. CASE ShutdownNoSave
  BY <1>4 DEF ShutdownNoSave
<1>5. CASE ShutdownWrite
  <2>1. IsConfig(file') /\ saveOK' \in BOOLEAN
    BY <1>5, SaveConfigType DEF ShutdownWrite
  <2> QED BY <1>5, <2>1 DEF ShutdownWrite
<1>6. CASE ShutdownClear
  <2>1. IsConfig(NoConfig)
    BY NoConfigType
  <2> QED BY <1>6, <2>1 DEF ShutdownClear
<1>7. CASE ProgramWakeup
  <2> DEFINE next == NextAnnounce(Scheduled)
  <2>1. next \in Nat
    BY NextAnnounceType DEF Scheduled
  <2>2. wakeTimer' = IF next = 0 THEN 0 ELSE Max({next - Lead, now + 1})
    BY <1>7 DEF ProgramWakeup
  <2> HIDE DEF next
  <2>3. next - Lead \in Int /\ now + 1 \in Nat
    BY <2>1, ConstantAssumption
  <2>4. Max({next - Lead, now + 1}) \in Nat
    BY <2>3, MaxOfTwo
  <2>5. wakeTimer' \in Nat
    BY <2>2, <2>4
  <2> QED BY <1>7, <2>5 DEF ProgramWakeup
<1>8. CASE ShutdownBusy
  BY <1>8 DEF ShutdownBusy
<1> QED BY <1>1, <1>2, <1>3, <1>4, <1>5, <1>6, <1>7, <1>8 DEF MainThread

(* The timer thread keeps the types, load and visits included.             *)
LEMMA ThreadType ==
  ASSUME TypeOK, TimerThread
  PROVE  TypeOK'
<1> USE DEF TypeOK, thread, manager, box, history, ThreadStates, CancelPoints
<1>1. CASE TimeSet
  BY <1>1 DEF TimeSet
<1>2. CASE LoadEvent
  <2>1. PICK id \in DOMAIN config.evs :
          /\ config' = [config EXCEPT !.evs = Restrict(@, DOMAIN @ \ {id})]
          /\ \/ /\ eventID' = eventID + 1
                /\ events' = Inserted(events, eventID + 1, Restored(config.evs[id], now))
             \/ UNCHANGED <<events, eventID>>
    BY <1>2 DEF LoadEvent
  <2>2. IsTable(config.evs) /\ config.extra \in Extra
        /\ config = [evs |-> config.evs, extra |-> config.extra]
    BY DEF IsConfig
  <2>3. config.evs[id] \in Event
    BY <2>2 DEF IsTable
  <2>4. Restored(config.evs[id], now) \in Event
    BY <2>3 DEF Restored, Event, States
  <2>5. IsTable(Restrict(config.evs, DOMAIN config.evs \ {id}))
    BY <2>2, RestrictType
  <2>6. IsConfig(config')
    <3>1. config' = [evs |-> Restrict(config.evs, DOMAIN config.evs \ {id}),
                     extra |-> config.extra]
      BY <2>1, <2>2
    <3> QED BY <3>1, <2>2, <2>5 DEF IsConfig
  <2>7. eventID + 1 \in Nat \ {0}
    OBVIOUS
  <2>8. /\ IsTable(Inserted(events, eventID + 1, Restored(config.evs[id], now)))
        /\ DOMAIN Inserted(events, eventID + 1, Restored(config.evs[id], now)) =
             DOMAIN events \cup {eventID + 1}
    BY <2>4, <2>7, InsertedType
  <2>9. IsTable(events') /\ eventID' \in Nat /\ DOMAIN events' \subseteq 1..eventID'
    BY <2>1, <2>7, <2>8
  <2> QED BY <1>2, <2>6, <2>9 DEF LoadEvent
<1>3. CASE LoadDone
  BY <1>3, SnapshotType DEF LoadDone
<1>4. CASE ReadClock
  BY <1>4 DEF ReadClock
<1>5. CASE BeginPass
  BY <1>5 DEF BeginPass
<1>6. ASSUME NEW id \in DOMAIN events, Visit(id) \/ VisitLast(id) \/ VisitHangs(id)
      PROVE  TypeOK'
  <2> DEFINE c == Checked(events[id], tnow)
  <2>1. id \in Nat /\ events[id] \in Event
    BY EventOfTable
  <2>2. c \in Event
    BY <2>1, CheckedType
  <2>3. CASE Visit(id)
    <3>1. Finished(c) \in Event
      BY <2>2, <2>3, FinishedType DEF Visit
    <3>2. Ends(c) \in BOOLEAN
      BY DEF Ends
    <3>3. /\ events' = Updated(id, Finished(c), Stops(events[id], tnow))
          /\ pos' = id /\ UNCHANGED <<tt, erased>> /\ Handlers(id, Ends(c))
      BY <2>3 DEF Visit
    <3> QED BY <2>1, <3>1, <3>2, <3>3, VisitType
  <2>4. CASE VisitLast(id)
    <3> DEFINE t == Updated(id, Finished(c), Stops(events[id], tnow))
    <3>1. Finished(c) \in Event
      BY <2>2, <2>4, FinishedType DEF VisitLast
    <3>2. /\ events' = Restrict(t, DOMAIN t \ {id})
          /\ pos' \in 0..eventID' /\ erased' = TRUE /\ tt' = tt /\ Handlers(id, TRUE)
      BY <2>4 DEF VisitLast
    <3>3. eventID' \in Nat
      BY <3>2, HandlersType
    <3>4. pos' \in Nat
      BY <3>2, <3>3
    <3> QED BY <3>1, <3>2, <3>4, VisitType
  <2>5. CASE VisitHangs(id)
    <3>1. /\ events' = Updated(id, c, Stops(events[id], tnow))
          /\ pos' = id /\ tt' = "hung" /\ erased' = erased /\ Handlers(id, FALSE)
      BY <2>5 DEF VisitHangs
    <3> QED BY <2>1, <2>2, <3>1, VisitType
  <2> QED BY <1>6, <2>3, <2>4, <2>5
<1>7. CASE EndPass
  BY <1>7 DEF EndPass
<1>8. CASE PassSave
  BY <1>8, SnapshotType DEF PassSave
<1>9. CASE PassNoSave
  BY <1>9 DEF PassNoSave
<1>10. CASE ThreadWrite
  <2>1. IsConfig(file') /\ saveOK' \in BOOLEAN
    BY <1>10, SaveConfigType DEF ThreadWrite
  <2> QED BY <1>10, <2>1 DEF ThreadWrite
<1>11. CASE ThreadClear
  <2>1. IsConfig(NoConfig)
    BY NoConfigType
  <2> QED BY <1>11, <2>1 DEF ThreadClear
<1> QED BY <1>1, <1>2, <1>3, <1>4, <1>5, <1>6, <1>7, <1>8, <1>9, <1>10, <1>11
        DEF TimerThread

(* Every step keeps the types.                                             *)
LEMMA TypeStep == TypeOK /\ [Next]_vars => TypeOK'
<1> SUFFICES ASSUME TypeOK, [Next]_vars PROVE TypeOK'
  OBVIOUS
<1> USE DEF thread, manager, box, history
<1>1. CASE ClientCommand
  BY <1>1, CommandType
<1>2. CASE MainThread
  BY <1>2, MainType
<1>3. CASE TimerThread
  BY <1>3, ThreadType
<1>4. CASE ThreadCancelled
  BY <1>4 DEF ThreadCancelled, TypeOK, ThreadStates
<1>5. CASE Tick
  BY <1>5 DEF Tick, TypeOK
<1>6. CASE PowerLoss
  BY <1>6, ForgottenType DEF PowerLoss, TypeOK, ThreadStates, MainStates
<1>7. ASSUME NEW byTimer \in BOOLEAN, Boot(byTimer) PROVE TypeOK'
  <2>1. file.extra \in Extra
    BY DEF TypeOK, IsConfig
  <2> QED BY <1>7, <2>1, ForgottenType
          DEF Boot, TypeOK, ThreadStates, CancelPoints, MainStates
<1>8. CASE UNCHANGED vars
  BY <1>8 DEF vars, TypeOK
<1> QED BY <1>1, <1>2, <1>3, <1>4, <1>5, <1>6, <1>7, <1>8 DEF Next

(***************************************************************************)
(* timerd keeps its types through every interleaving, shutdown, power      *)
(* failure and boot; in particular no event ever has an id that addEvent   *)
(* has not given out, no alarm moves before the epoch and the count of     *)
(* repetitions does not underflow.                                         *)
(***************************************************************************)
THEOREM TypeCorrect == Spec => []TypeOK
BY TypeInit, TypeStep, PTL DEF Spec

-----------------------------------------------------------------------------
(* The mutex.                                                              *)

(* A thread inside one of its critical sections holds tm_eventsMutex.      *)
LockInv ==
  /\ tt \in {"pass", "hung", "write", "clear", "loadwrite", "loadclear"} => mutex = "timer"
  /\ mt \in {"list", "write", "clear"} => mutex = "main"

(* Every step keeps the critical sections apart.                           *)
LEMMA LockStep == TypeOK /\ LockInv /\ [Next]_vars => LockInv'
<1> SUFFICES ASSUME TypeOK, LockInv, [Next]_vars PROVE LockInv'
  OBVIOUS
<1> USE DEF LockInv, thread, manager, box, history
<1>1. CASE ClientCommand
  <2>1. /\ mutex = "free" \/ mutex' = mutex
        /\ mutex' = mutex \/ (mutex' = "main" /\ mt' = "list")
        /\ mt = "accept" /\ mt' \in {"accept", "addret", "list", "join"}
        /\ mt' = "list" => mutex' = "main"
        /\ tt' = tt
    BY <1>1 DEF ClientCommand, AddTimer, RemoveTimer, StopTimer, EndEvent, ModifyTimer,
       SetAPid, RescheduleTimer, SetRecordingSafety, SetZaptoSafety, SetSafety, GetTimerList,
       Shutdown, Command, Locked
  <2> QED BY <2>1
<1>2. CASE MainThread
  BY <1>2 DEF MainThread, AddReturn, ListSent, ShutdownSave, ShutdownNoSave, ShutdownWrite,
     ShutdownClear, ProgramWakeup, ShutdownBusy
<1>3. CASE TimerThread
  <2>1. ASSUME NEW id \in DOMAIN events, Visit(id) \/ VisitLast(id) \/ VisitHangs(id)
        PROVE  LockInv'
    <3>1. tt = "pass" /\ tt' \in {"pass", "hung"} /\ mutex' = mutex /\ mt' = mt
      BY <2>1 DEF Visit, VisitLast, VisitHangs, Handlers
    <3> QED BY <3>1
  <2>2. CASE TimeSet \/ LoadEvent \/ LoadDone
    BY <2>2 DEF TimeSet, LoadEvent, LoadDone
  <2>3. CASE ReadClock \/ BeginPass \/ EndPass
    BY <2>3 DEF ReadClock, BeginPass, EndPass, PassOver
  <2>4. CASE PassSave \/ PassNoSave \/ ThreadWrite \/ ThreadClear
    BY <2>4 DEF PassSave, PassNoSave, ThreadWrite, ThreadClear
  <2> QED BY <1>3, <2>1, <2>2, <2>3, <2>4 DEF TimerThread
<1>4. CASE ThreadCancelled \/ Tick
  BY <1>4 DEF ThreadCancelled, Tick
<1>5. CASE PowerLoss \/ \E byTimer \in BOOLEAN : Boot(byTimer)
  BY <1>5 DEF PowerLoss, Boot
<1>6. CASE UNCHANGED vars
  BY <1>6 DEF vars
<1> QED BY <1>1, <1>2, <1>3, <1>4, <1>5, <1>6 DEF Next

(***************************************************************************)
(* LockInv holds in every state: the pass and the saves of the timer       *)
(* thread, the answer to CMD_GETTIMERLIST and the save of shutdown never   *)
(* overlap, although a cancelled thread may die with the mutex held.       *)
(***************************************************************************)
THEOREM MutexHeld == Spec => []LockInv
<1>1. Init => LockInv
  BY DEF Init, LockInv
<1> QED BY <1>1, TypeCorrect, LockStep, PTL DEF Spec

-----------------------------------------------------------------------------
(* Recordings.                                                             *)

(* A running event with a stop time stays so until a visit stops it.       *)
LEMMA RunningVisited ==
  ASSUME NEW e \in Event, NEW t \in Nat, Stoppable(e)
  PROVE  /\ ~Fires(e, t)
         /\ Stops(e, t) \/ (Checked(e, t) = e /\ ~Ends(e) /\ Finished(e) = e)
BY DEF Stoppable, Fires, Stops, Checked, Announced, Fired, Stopped, WantsAnnounce, WantsFire,
   WantsStop, Ends, Finished, Event

(* An event that fires runs on, if it is to be stopped and not at once.    *)
LEMMA FiredRuns ==
  ASSUME NEW e \in Event, NEW t \in Nat, Fires(e, t), ~Stops(e, t), e.stop > 0
  PROVE  LET c == Checked(e, t) IN Stoppable(c) /\ ~Ends(c) /\ Finished(c) = c
BY DEF Stoppable, Fires, Stops, Checked, Announced, Fired, Stopped, WantsAnnounce, WantsFire,
   WantsStop, Ends, Finished, Event

(* The recordings that are to have an event that can stop them.            *)
Owed == recOn \ adrift

(* The event of a recording on which a visit leaves a debt is one that     *)
(* runs on.                                                                *)
LEMMA VisitedOwner ==
  ASSUME TypeOK, RecordingHasOwner, NEW id \in DOMAIN events, NEW done \in BOOLEAN,
         Handlers(id, done)
  PROVE  /\ Owed' \subseteq Owed \cup {id}
         /\ id \in Owed' => LET c == Checked(events[id], tnow)
                            IN  Stoppable(c) /\ Finished(c) = c
<1> DEFINE e == events[id]
<1>1. e \in Event /\ tnow \in Nat /\ e.stop \in Nat
  BY EventOfTable DEF TypeOK, Event
<1>2. \/ id \notin recOn' /\ recOn' \subseteq recOn /\ adrift \ {id} \subseteq adrift'
      \/ /\ Fires(e, tnow) /\ e.stop > 0 /\ ~Stops(e, tnow)
         /\ recOn' = recOn \cup {id} /\ adrift' = adrift \ {id}
      \/ ~Stops(e, tnow) /\ UNCHANGED <<recOn, adrift>>
  BY DEF Handlers
<1>3. Owed' \subseteq Owed \cup {id}
  BY <1>2 DEF Owed
<1>4. CASE id \in Owed' /\ Fires(e, tnow) /\ e.stop > 0
  BY <1>1, <1>2, <1>3, <1>4, FiredRuns DEF Owed
<1>5. CASE id \in Owed' /\ ~(Fires(e, tnow) /\ e.stop > 0)
  <2>1. Stoppable(e) /\ ~Stops(e, tnow)
    BY <1>2, <1>5 DEF RecordingHasOwner, Owed
  <2>2. Checked(e, tnow) = e /\ Finished(e) = e
    BY <1>1, <2>1, RunningVisited
  <2> QED BY <1>3, <2>1, <2>2
<1>6. CASE id \notin Owed'
  BY <1>3, <1>6
<1> QED BY <1>4, <1>5, <1>6

(* Every step keeps the recordings owned.                                  *)
LEMMA OwnerStep == TypeOK /\ RecordingHasOwner /\ [Next]_vars => RecordingHasOwner'
<1> SUFFICES ASSUME TypeOK, RecordingHasOwner, [Next]_vars PROVE RecordingHasOwner'
  OBVIOUS
<1> USE DEF thread, manager, box, history
<1>a. /\ IsTable(events) /\ eventID \in Nat /\ now \in Nat /\ DOMAIN events \subseteq 1..eventID
      /\ IsConfig(config)
  BY DEF TypeOK
<1>b. \A i \in Owed : i \in DOMAIN events /\ Stoppable(events[i])
  BY DEF RecordingHasOwner, Owed
<1>d. (\A i \in Owed' : i \in DOMAIN events' /\ Stoppable(events'[i])) => RecordingHasOwner'
  BY DEF RecordingHasOwner, Owed, Stoppable
<1>c. ASSUME UNCHANGED <<events, recOn, adrift>> PROVE RecordingHasOwner'
  BY <1>c DEF RecordingHasOwner, Stoppable
<1>1. ASSUME NEW r \in AddRequests, AddTimer(r) PROVE RecordingHasOwner'
  <2> DEFINE id == eventID + 1
             e == NewEvent(r)
  <2>1. e \in Event /\ id \in Nat \ {0} /\ id \notin DOMAIN events
    BY <1>a, NewEventType DEF TypeOK
  <2>2. /\ events' = Inserted(events, id, e)
        /\ recOn' = (IF Stoppable(e) THEN recOn \cup {id} ELSE recOn) /\ adrift' = adrift
    BY <1>1 DEF AddTimer
  <2>3. /\ DOMAIN events' = DOMAIN events \cup {id}
        /\ \A i \in DOMAIN events : events'[i] = events[i]
        /\ events'[id] = [e EXCEPT !.rep = Normalised(e.rep)]
    BY <2>1, <2>2 DEF Inserted, With
  <2>4. Stoppable(e) => Stoppable(events'[id])
    BY <2>1, <2>3 DEF Stoppable, Event
  <2> HIDE DEF e, id
  <2>5. ASSUME NEW i \in Owed' PROVE i \in DOMAIN events' /\ Stoppable(events'[i])
    <3>1. CASE i \in Owed
      <4>1. i \in DOMAIN events /\ Stoppable(events[i])
        BY <1>b, <3>1
      <4> QED BY <2>3, <4>1
    <3>2. CASE i = id /\ Stoppable(e)
      BY <2>3, <2>4, <3>2
    <3> QED BY <2>2, <3>1, <3>2 DEF Owed
  <2> QED BY <1>d, <2>5
<1>2. ASSUME NEW id \in DOMAIN events, NEW state \in {"TERMINATED", "HASFINISHED"},
             EndEvent(id, state)
      PROVE  RecordingHasOwner'
  <2> DEFINE e == [events[id] EXCEPT !.state = state]
             stops == Stoppable(events[id])
  <2>1. e \in Event /\ stops \in BOOLEAN
    BY <1>a, EventOfTable DEF Event, States, Stoppable
  <2>2. /\ events' = Updated(id, e, stops)
        /\ recOn' = IF stops THEN recOn \ {id} ELSE recOn
        /\ adrift' = IF stops THEN adrift \ {id} ELSE adrift
    BY <1>2 DEF EndEvent
  <2>3. id \notin Owed'
    BY <1>b, <2>2 DEF Owed
  <2>4. Owed' \subseteq Owed
    BY <2>2 DEF Owed
  <2> HIDE DEF e, stops
  <2>5. /\ DOMAIN Updated(id, e, stops) =
             DOMAIN events \cup (IF AddsShutdown(id, stops) THEN {eventID + 1} ELSE {})
        /\ \A i \in DOMAIN events \ {id} : Updated(id, e, stops)[i] = events[i]
    BY <2>1, UpdatedType
  <2>6. /\ DOMAIN events \subseteq DOMAIN events'
        /\ \A i \in DOMAIN events \ {id} : events'[i] = events[i]
    BY <2>2, <2>5
  <2>7. ASSUME NEW i \in Owed' PROVE i \in DOMAIN events' /\ Stoppable(events'[i])
    <3>1. i \in DOMAIN events \ {id} /\ Stoppable(events[i])
      BY <1>b, <2>3, <2>4
    <3> QED BY <2>6, <3>1
  <2> QED BY <1>d, <2>7
<1>3. ASSUME NEW id \in DOMAIN events, NEW r \in ModifyRequests, ModifyTimer(id, r)
      PROVE  RecordingHasOwner'
  <2>1. events[id] \in Event /\ r \in ModifyRequest
    BY <1>a, EventOfTable, RequestAssumption
  <2>2. /\ events' = [events EXCEPT ![id] = Modified(events[id], r)]
        /\ Owed' = IF r.stop = 0 THEN Owed \ {id} ELSE Owed
    BY <1>3 DEF ModifyTimer, Owed
  <2>3. ASSUME r.stop # 0, Stoppable(events[id]) PROVE Stoppable(Modified(events[id], r))
    BY <2>1, <2>3 DEF Stoppable, Modified, Event, ModifyRequest
  <2>4. /\ DOMAIN events' = DOMAIN events
        /\ events'[id] = Modified(events[id], r)
        /\ \A i \in DOMAIN events \ {id} : events'[i] = events[i]
    BY <1>a, <2>2 DEF IsTable
  <2>5. ASSUME NEW i \in Owed' PROVE i \in DOMAIN events' /\ Stoppable(events'[i])
    <3>1. i \in DOMAIN events /\ Stoppable(events[i]) /\ (i = id => r.stop # 0)
      BY <1>b, <2>2
    <3>2. CASE i = id
      BY <2>3, <2>4, <3>1, <3>2
    <3>3. CASE i # id
      BY <2>4, <3>1, <3>3
    <3> QED BY <3>2, <3>3
  <2> QED BY <1>d, <2>5
<1>4. ASSUME NEW id \in DOMAIN events, NEW a \in Apids, SetAPid(id, a)
      PROVE  RecordingHasOwner'
  <2>1. events' = [events EXCEPT ![id] = [events[id] EXCEPT !.apids = a]] /\ Owed' = Owed
    BY <1>4 DEF SetAPid, Owed
  <2>2. events[id] \in Event
    BY <1>a, EventOfTable
  <2>3. /\ DOMAIN events' = DOMAIN events
        /\ \A i \in DOMAIN events : events'[i].state = events[i].state
                                    /\ events'[i].stop = events[i].stop
    BY <1>a, <2>1, <2>2 DEF IsTable, Event
  <2> QED BY <1>b, <1>d, <2>1, <2>3 DEF Stoppable
<1>5. ASSUME NEW id \in DOMAIN events, RescheduleTimer(id) PROVE RecordingHasOwner'
  <2>1. events' = [events EXCEPT ![id] = ForcedOn(events[id])] /\ Owed' = Owed \ {id}
    BY <1>5 DEF RescheduleTimer, Owed
  <2>2. /\ DOMAIN events' = DOMAIN events
        /\ \A i \in DOMAIN events \ {id} : events'[i] = events[i]
    BY <1>a, <2>1 DEF IsTable
  <2> QED BY <1>b, <1>d, <2>1, <2>2
<1>6. CASE \/ \E x \in Extras : SetRecordingSafety(x)
           \/ \E x \in Extras : SetZaptoSafety(x)
           \/ GetTimerList \/ Shutdown
  BY <1>6, <1>c DEF SetRecordingSafety, SetZaptoSafety, SetSafety, GetTimerList, Shutdown
<1>7. CASE MainThread
  BY <1>7, <1>c DEF MainThread, AddReturn, ListSent, ShutdownSave, ShutdownNoSave,
     ShutdownWrite, ShutdownClear, ProgramWakeup, ShutdownBusy
<1>8. CASE TimeSet \/ LoadDone \/ ReadClock \/ BeginPass \/ EndPass \/ PassSave
           \/ PassNoSave \/ ThreadWrite \/ ThreadClear
  BY <1>8, <1>c DEF TimeSet, LoadDone, ReadClock, BeginPass, EndPass, PassSave, PassNoSave,
     ThreadWrite, ThreadClear
<1>9. CASE LoadEvent
  <2>1. Owed' = Owed
    BY <1>9 DEF LoadEvent, Owed
  <2>2. DOMAIN events \subseteq DOMAIN events' /\ \A i \in DOMAIN events : events'[i] = events[i]
    <3>1. CASE UNCHANGED events
      BY <3>1
    <3>2. CASE \E e : events' = Inserted(events, eventID + 1, e)
      BY <1>a, <3>2 DEF Inserted, With
    <3> QED BY <1>9, <3>1, <3>2 DEF LoadEvent
  <2> QED BY <1>b, <1>d, <2>1, <2>2
<1>10. ASSUME NEW id \in DOMAIN events, Visit(id) \/ VisitLast(id) \/ VisitHangs(id)
       PROVE  RecordingHasOwner'
  <2> DEFINE c == Checked(events[id], tnow)
             stops == Stops(events[id], tnow)
  <2>1. PICK done \in BOOLEAN : Handlers(id, done)
    <3>1. Ends(c) \in BOOLEAN
      BY DEF Ends
    <3> QED BY <1>10, <3>1 DEF Visit, VisitLast, VisitHangs
  <2>2. Owed' \subseteq Owed \cup {id} /\ (id \in Owed' => Stoppable(c) /\ Finished(c) = c)
    BY <2>1, VisitedOwner
  <2>3. c \in Event /\ stops \in BOOLEAN
    BY <1>a, EventOfTable, CheckedType DEF TypeOK, Stops, WantsStop
  <2>4. \/ events' = Updated(id, Finished(c), stops) /\ Finished(c) \in Event
        \/ /\ events' = Restrict(Updated(id, Finished(c), stops),
                                 DOMAIN Updated(id, Finished(c), stops) \ {id})
           /\ Finished(c).state = "TERMINATED" /\ Finished(c) \in Event
        \/ events' = Updated(id, c, stops)
    BY <1>10, <1>a, <2>3, FinishedType DEF Visit, VisitLast, VisitHangs
  <2> HIDE DEF c, stops
  <2>a. ASSUME NEW e \in Event
        PROVE  /\ DOMAIN events \subseteq DOMAIN Updated(id, e, stops)
               /\ Updated(id, e, stops)[id] = e
               /\ \A i \in DOMAIN events \ {id} : Updated(id, e, stops)[i] = events[i]
    <3>1. /\ DOMAIN Updated(id, e, stops) =
               DOMAIN events \cup (IF AddsShutdown(id, stops) THEN {eventID + 1} ELSE {})
          /\ Updated(id, e, stops)[id] = e
          /\ \A i \in DOMAIN events \ {id} : Updated(id, e, stops)[i] = events[i]
      BY <2>3, UpdatedType
    <3> QED BY <3>1
  <2>5. \A i \in DOMAIN events \ {id} : i \in DOMAIN events' /\ events'[i] = events[i]
    BY <2>3, <2>4, <2>a DEF Restrict
  <2>6. id \in Owed' => id \in DOMAIN events' /\ Stoppable(events'[id])
    <3>1. CASE events' = Updated(id, Finished(c), stops) /\ Finished(c) \in Event
      BY <2>2, <3>1, <2>a
    <3>2. CASE Finished(c).state = "TERMINATED"
      BY <2>2, <3>2 DEF Stoppable
    <3>3. CASE events' = Updated(id, c, stops)
      BY <2>2, <2>3, <3>3, <2>a
    <3> QED BY <2>4, <3>1, <3>2, <3>3
  <2>7. ASSUME NEW i \in Owed' PROVE i \in DOMAIN events' /\ Stoppable(events'[i])
    <3>1. CASE i = id
      BY <2>6, <3>1
    <3>2. CASE i # id
      <4>1. i \in DOMAIN events \ {id} /\ Stoppable(events[i])
        BY <1>b, <2>2, <3>2
      <4> QED BY <2>5, <4>1
    <3> QED BY <3>1, <3>2
  <2> QED BY <1>d, <2>7
<1>11. CASE ThreadCancelled \/ Tick
  BY <1>11, <1>c DEF ThreadCancelled, Tick
<1>12. CASE PowerLoss \/ \E byTimer \in BOOLEAN : Boot(byTimer)
  BY <1>12 DEF PowerLoss, Boot, Forgotten, RecordingHasOwner
<1>13. CASE UNCHANGED vars
  BY <1>13, <1>c DEF vars
<1> QED BY <1>1, <1>2, <1>3, <1>4, <1>5, <1>6, <1>7, <1>8, <1>9, <1>10, <1>11, <1>12, <1>13
        DEF Next, ClientCommand, TimerThread, RemoveTimer, StopTimer

(***************************************************************************)
(* RecordingHasOwner holds in every state: a recording that was started to *)
(* be stopped and has had no RECORD_STOP still has its running event in    *)
(* the table, whatever passes, commands, erasures and automatic shutdown   *)
(* events came between, unless it was set adrift by rescheduleEvent or by  *)
(* a modifyEvent without a stop time (timermanager.cpp:426, :346).         *)
(***************************************************************************)
THEOREM RecordingsOwned == Spec => []RecordingHasOwner
<1>1. Init => RecordingHasOwner
  BY DEF Init, RecordingHasOwner
<1> QED BY <1>1, TypeCorrect, OwnerStep, PTL DEF Spec

-----------------------------------------------------------------------------
(* Passes of the timer thread.                                             *)

(* Nothing is left to do for e at the time t.                              *)
Settled(e, t) ==
  ~WantsFire(e, t) /\ ~WantsStop(e, t) /\ e.state \notin {"HASFINISHED", "TERMINATED"}

(***************************************************************************)
(* In a pass that has erased nothing, the events up to the iterator are    *)
(* settled, and the iterator is not beyond the ids given out, so that an   *)
(* event the pass itself adds lies ahead of it.  That the clock has moved  *)
(* on since the pass has read it is what makes a rescheduled event settled.*)
(***************************************************************************)
PassInv ==
  /\ tt \in {"lock", "pass"} => tnow <= now
  /\ tt = "pass" /\ ~erased =>
       /\ pos <= eventID
       /\ \A id \in DOMAIN events : id <= pos => Settled(events[id], tnow)

(* A visit from which the event returns leaves it settled.                 *)
LEMMA VisitSettles ==
  ASSUME NEW e \in Event, NEW t \in Nat, now \in Nat, t <= now,
         ~Hangs(Checked(e, t)), Finished(Checked(e, t)).state # "TERMINATED"
  PROVE  Settled(Finished(Checked(e, t)), t)
<1> DEFINE a == Announced(e, t)
           f == Fired(a, t)
           c == Stopped(f, t)
<1>1. a \in Event /\ f \in Event /\ c \in Event
  BY StagesType
<1>2. c = Checked(e, t)
  BY DEF Checked
<1>3. CASE ~Ends(c)
  <2>1. Finished(c) = c
    BY <1>3 DEF Finished
  <2>2. ~WantsFire(f, t)
    BY <1>1 DEF Fired, WantsFire, Event
  <2>3. ~WantsStop(f, t)
    BY <1>3 DEF Stopped, Ends, WantsStop, Event
  <2>4. c = f
    BY <2>3 DEF Stopped
  <2> QED BY <1>2, <1>3, <2>1, <2>2, <2>3, <2>4 DEF Settled, Ends
<1>4. CASE Ends(c) /\ Repeating(c)
  <2> HIDE DEF c
  <2>1. Finished(c) = Rescheduled(c, now)
    BY <1>4 DEF Finished
  <2>2. ~NeverCatchesUp(c, now)
    BY <1>2, <1>4 DEF Hangs
  <2>3. /\ Rescheduled(c, now) \in Event
        /\ Rescheduled(c, now).state = "SCHEDULED"
        /\ Rescheduled(c, now).alarm > now
    BY <1>1, <2>2, RescheduledLiesAhead
  <2>4. Rescheduled(c, now).alarm \in Nat
    BY <2>3 DEF Event
  <2>5. ~(Rescheduled(c, now).alarm <= t)
    BY <2>3, <2>4
  <2> QED BY <1>2, <2>1, <2>3, <2>5 DEF Settled, WantsFire, WantsStop
<1>5. CASE Ends(c) /\ ~Repeating(c)
  <2>1. Finished(c).state = "TERMINATED"
    BY <1>1, <1>5 DEF Finished, Event
  <2> QED BY <1>2, <2>1
<1> QED BY <1>3, <1>4, <1>5

(* Every step keeps the invariant of the pass.                             *)
LEMMA PassStep == TypeOK /\ LockInv /\ PassInv /\ [Next]_vars => PassInv'
<1> SUFFICES ASSUME TypeOK, LockInv, PassInv, [Next]_vars PROVE PassInv'
  OBVIOUS
<1> USE DEF thread, manager, box, history
<1>a. now \in Nat /\ tnow \in Nat /\ pos \in Nat /\ eventID \in Nat /\ IsTable(events)
      /\ DOMAIN events \subseteq 1..eventID
  BY DEF TypeOK
<1>b. ASSUME UNCHANGED <<thread, now>>, tt = "pass" => UNCHANGED <<events, eventID>>
      PROVE  PassInv'
  BY <1>b DEF PassInv, Settled, WantsFire, WantsStop
<1>1. CASE ClientCommand
  <2>1. UNCHANGED <<thread, now>> /\ (mutex = "free" \/ UNCHANGED <<events, eventID>>)
    BY <1>1 DEF ClientCommand, AddTimer, RemoveTimer, StopTimer, EndEvent, ModifyTimer,
       SetAPid, RescheduleTimer, SetRecordingSafety, SetZaptoSafety, SetSafety, GetTimerList,
       Shutdown, Command, Locked
  <2> QED BY <1>b, <2>1 DEF LockInv
<1>2. CASE MainThread
  BY <1>2, <1>b DEF MainThread, AddReturn, ListSent, ShutdownSave, ShutdownNoSave,
     ShutdownWrite, ShutdownClear, ProgramWakeup, ShutdownBusy
<1>3. CASE TimeSet \/ LoadDone \/ EndPass \/ PassSave \/ PassNoSave \/ ThreadWrite
           \/ ThreadClear
  BY <1>3 DEF PassInv, TimeSet, LoadDone, EndPass, PassSave, PassNoSave, ThreadWrite,
     ThreadClear
<1>4. CASE LoadEvent
  BY <1>4, <1>b DEF LoadEvent
<1>5. CASE ReadClock
  BY <1>5, <1>a DEF PassInv, ReadClock
<1>6. CASE BeginPass
  <2>1. /\ tt = "lock" /\ tt' = "pass" /\ pos' = 0
        /\ UNCHANGED <<now, tnow, events, eventID>>
    BY <1>6 DEF BeginPass
  <2>2. \A id \in DOMAIN events' : ~(id <= pos')
    BY <1>a, <2>1
  <2> QED BY <1>a, <2>1, <2>2 DEF PassInv
<1>7. ASSUME NEW id \in DOMAIN events, Visit(id) PROVE PassInv'
  <2> DEFINE c == Checked(events[id], tnow)
             stops == Stops(events[id], tnow)
             f == Finished(c)
  <2>1. /\ tt = "pass" /\ tt' = tt /\ erased' = erased /\ pos' = id /\ Comes(id)
        /\ ~Hangs(c) /\ f.state # "TERMINATED"
        /\ events' = Updated(id, f, stops)
        /\ Handlers(id, Ends(c))
    BY <1>7 DEF Visit
  <2>2. events[id] \in Event /\ id \in Nat
    BY <1>a, EventOfTable
  <2>3. c \in Event /\ stops \in BOOLEAN
    BY <1>a, <2>2, CheckedType DEF Stops, WantsStop
  <2>4. f \in Event
    BY <1>a, <2>1, <2>3, FinishedType
  <2>5. /\ UNCHANGED <<now, tnow>>
        /\ eventID' = IF AddsShutdown(id, stops) THEN eventID + 1 ELSE eventID
    BY <2>1 DEF Handlers
  <2>6. tnow <= now
    BY <2>1 DEF PassInv
  <2>7. Settled(f, tnow)
    BY <1>a, <2>1, <2>2, <2>6, VisitSettles
  <2> HIDE DEF c, stops, f
  <2>8. /\ DOMAIN Updated(id, f, stops) =
             DOMAIN events \cup (IF AddsShutdown(id, stops) THEN {eventID + 1} ELSE {})
        /\ Updated(id, f, stops)[id] = f
        /\ \A i \in DOMAIN events \ {id} : Updated(id, f, stops)[i] = events[i]
    BY <2>3, <2>4, UpdatedType
  <2>9. ASSUME ~erased PROVE \A i \in DOMAIN events' : i <= id => Settled(events'[i], tnow)
    <3> SUFFICES ASSUME NEW i \in DOMAIN events', i <= id PROVE Settled(events'[i], tnow)
      OBVIOUS
    <3>1. i \in DOMAIN events
      BY <1>a, <2>1, <2>8
    <3>2. CASE i = id
      BY <2>1, <2>7, <2>8, <3>2
    <3>3. CASE i # id
      <4>1. i \in Nat /\ i < id
        BY <1>a, <2>2, <3>1, <3>3
      <4>2. i <= pos
        BY <1>a, <2>1, <2>2, <3>1, <4>1 DEF Comes
      <4>3. Settled(events[i], tnow)
        BY <2>1, <2>9, <3>1, <4>2 DEF PassInv
      <4> QED BY <2>1, <2>8, <3>1, <3>3, <4>3
    <3> QED BY <3>2, <3>3
  <2>10. pos' <= eventID'
    BY <1>a, <2>1, <2>2, <2>5
  <2> QED BY <2>1, <2>5, <2>6, <2>9, <2>10 DEF PassInv, Settled, WantsFire, WantsStop
<1>8. ASSUME NEW id \in DOMAIN events, VisitLast(id) PROVE PassInv'
  BY <1>8 DEF VisitLast, Handlers, PassInv
<1>9. ASSUME NEW id \in DOMAIN events, VisitHangs(id) PROVE PassInv'
  BY <1>9 DEF VisitHangs, PassInv
<1>10. CASE ThreadCancelled
  BY <1>10 DEF ThreadCancelled, PassInv
<1>11. CASE Tick
  <2>1. UNCHANGED <<thread, events, eventID>> /\ now' = now + 1
    BY <1>11 DEF Tick
  <2>2. tnow <= now => tnow <= now + 1
    BY <1>a
  <2> QED BY <2>1, <2>2 DEF PassInv, Settled, WantsFire, WantsStop
<1>12. CASE PowerLoss \/ \E byTimer \in BOOLEAN : Boot(byTimer)
  BY <1>12 DEF PowerLoss, Boot, PassInv
<1>13. CASE UNCHANGED vars
  BY <1>13, <1>b DEF vars
<1> QED BY <1>1, <1>2, <1>3, <1>4, <1>5, <1>6, <1>7, <1>8, <1>9, <1>10, <1>11, <1>12, <1>13
        DEF Next, TimerThread

(***************************************************************************)
(* PassComplete holds in every state: a pass of timerThread that erased    *)
(* nothing leaves nothing undone at the time it has read, whatever events  *)
(* there are, whichever it reschedules and whatever shutdown events it     *)
(* adds on the way.                                                        *)
(***************************************************************************)
THEOREM PassesComplete == Spec => []PassComplete
<1>1. Init => PassInv
  BY DEF Init, PassInv
<1>2. PassInv => PassComplete
  BY DEF PassInv, PassComplete, PassOver, Settled
<1> QED BY <1>1, <1>2, TypeCorrect, MutexHeld, PassStep, PTL DEF Spec

-----------------------------------------------------------------------------
(* Saves.                                                                  *)

(***************************************************************************)
(* The state of a save: shutdown saves when the timer thread has ended,    *)
(* what is to be written is the table, what has been written is the table, *)
(* and whenever the flag m_saveEvents is down outside a save by the timer  *)
(* thread, the file holds the table.                                       *)
(***************************************************************************)
SaveInv ==
  /\ mt \in {"write", "clear"} => tt = "dead"
  /\ tt \in {"checktime", "load"} => ~loaded
  /\ tt \in {"write", "loadwrite"} \/ mt = "write" => config.evs = events
  /\ (tt \in {"clear", "loadclear"} \/ mt = "clear") /\ saveOK => file.evs = events
  /\ loaded /\ saveOK /\ ~saveEvents /\ (mutex # "timer" \/ tt \in {"pass", "hung"})
       => SameTimers(file.evs, events)

(* A table is saved by itself.                                             *)
LEMMA SameSelf ==
  ASSUME NEW evs
  PROVE  SameTimers(evs, evs)
BY DEF SameTimers

(* Every step keeps the invariant of the saves.                            *)
LEMMA SaveStep == TypeOK /\ LockInv /\ SaveInv /\ [Next]_vars => SaveInv'
<1> SUFFICES ASSUME TypeOK, LockInv, SaveInv, [Next]_vars PROVE SaveInv'
  OBVIOUS
<1> USE DEF thread, manager, box, history
<1>a. /\ IsTable(events) /\ IsTable(file.evs) /\ eventID \in Nat
      /\ DOMAIN events \subseteq 1..eventID
  BY DEF TypeOK, IsConfig
<1>1. CASE ClientCommand
  <2>a. /\ mt = "accept" /\ mt' \notin {"write", "clear"}
        /\ UNCHANGED <<thread, loaded, saveOK, file, config>>
    BY <1>1 DEF ClientCommand, AddTimer, RemoveTimer, StopTimer, EndEvent, ModifyTimer,
       SetAPid, RescheduleTimer, SetRecordingSafety, SetZaptoSafety, SetSafety, GetTimerList,
       Shutdown, Command
  <2>b. CASE mutex = "free" /\ mutex' = mutex /\ saveEvents' = TRUE
    BY <2>a, <2>b DEF LockInv, SaveInv
  <2>c. CASE UNCHANGED events /\ (saveEvents' \/ saveEvents' = saveEvents)
             /\ (mutex = "timer" => mutex' = "timer")
    BY <2>a, <2>c DEF SaveInv
  <2>1. CASE \E r \in AddRequests : AddTimer(r)
    BY <2>1, <2>b DEF AddTimer, Locked
  <2>2. ASSUME NEW id \in DOMAIN events, NEW state \in {"TERMINATED", "HASFINISHED"},
               EndEvent(id, state)
        PROVE  SaveInv'
    <3> DEFINE e == [events[id] EXCEPT !.state = state]
               stops == Stoppable(events[id])
    <3>1. e \in Event /\ stops \in BOOLEAN
      BY <1>a, EventOfTable DEF Event, States, Stoppable
    <3>2. /\ mutex = "free" /\ mutex' = mutex
          /\ events' = Updated(id, e, stops)
          /\ saveEvents' = (saveEvents \/ AddsShutdown(id, stops))
      BY <2>2 DEF EndEvent, Locked
    <3> HIDE DEF stops
    <3>3. CASE AddsShutdown(id, stops)
      BY <2>b, <3>2, <3>3
    <3>4. CASE ~AddsShutdown(id, stops)
      <4>1. events' = With(events, id, e)
        BY <3>2, <3>4 DEF Updated
      <4>2. /\ DOMAIN events' = DOMAIN events
            /\ events'[id] = [events[id] EXCEPT !.state = state]
            /\ \A i \in DOMAIN events \ {id} : events'[i] = events[i]
        BY <4>1 DEF With
      <4> HIDE DEF e
      <4>3. ASSUME SameTimers(file.evs, events) PROVE SameTimers(file.evs, events')
        <5>1. file.evs[id] \in Event /\ events[id] \in Event
          BY <1>a, <4>3 DEF IsTable, SameTimers
        <5>2. events'[id] = [file.evs[id] EXCEPT !.state = state]
          <6>1. CASE file.evs[id] = events[id]
            BY <4>2, <6>1
          <6>2. CASE events[id] = [file.evs[id] EXCEPT !.state = events[id].state]
            BY <4>2, <5>1, <6>2 DEF Event
          <6> QED BY <4>3, <6>1, <6>2 DEF SameTimers
        <5>3. events'[id].state = state
          BY <5>1, <5>2 DEF Event
        <5> QED BY <4>2, <4>3, <5>2, <5>3 DEF SameTimers
      <4>4. ~saveEvents' => ~saveEvents
        BY <3>2
      <4> QED BY <2>a, <3>2, <4>3, <4>4 DEF LockInv, SaveInv
    <3> QED BY <3>3, <3>4
  <2>3. CASE \/ \E id \in DOMAIN events, r \in ModifyRequests : ModifyTimer(id, r)
             \/ \E id \in DOMAIN events, x \in Apids : SetAPid(id, x)
             \/ \E id \in DOMAIN events : RescheduleTimer(id)
    BY <2>3, <2>b DEF ModifyTimer, SetAPid, RescheduleTimer, Locked
  <2>4. CASE \/ \E x \in Extras : SetRecordingSafety(x)
             \/ \E x \in Extras : SetZaptoSafety(x)
             \/ GetTimerList \/ Shutdown
    BY <2>4, <2>c DEF SetRecordingSafety, SetZaptoSafety, SetSafety, GetTimerList, Shutdown
  <2> QED BY <1>1, <2>1, <2>2, <2>3, <2>4 DEF ClientCommand, RemoveTimer, StopTimer
<1>2. CASE MainThread
  <2>1. CASE AddReturn \/ ListSent \/ ShutdownNoSave \/ ProgramWakeup \/ ShutdownBusy
    BY <2>1 DEF SaveInv, LockInv, AddReturn, ListSent, ShutdownNoSave, ProgramWakeup,
       ShutdownBusy
  <2>2. CASE ShutdownSave
    BY <2>2 DEF SaveInv, LockInv, ShutdownSave, Snapshot
  <2>3. CASE ShutdownWrite
    BY <2>3, SameSelf DEF SaveInv, LockInv, ShutdownWrite, SaveConfig
  <2>4. CASE ShutdownClear
    BY <2>4, SameSelf DEF SaveInv, LockInv, ShutdownClear
  <2> QED BY <1>2, <2>1, <2>2, <2>3, <2>4 DEF MainThread
<1>3. CASE TimeSet \/ ReadClock \/ BeginPass \/ EndPass \/ PassNoSave
  BY <1>3 DEF SaveInv, LockInv, TimeSet, ReadClock, BeginPass, EndPass, PassNoSave, PassOver
<1>4. CASE LoadEvent
  BY <1>4 DEF SaveInv, LoadEvent
<1>5. CASE LoadDone \/ PassSave
  BY <1>5 DEF SaveInv, LockInv, LoadDone, PassSave, Snapshot
<1>6. ASSUME NEW id \in DOMAIN events, Visit(id) \/ VisitLast(id) \/ VisitHangs(id)
      PROVE  SaveInv'
  <2> DEFINE e == events[id]
             c == Checked(e, tnow)
             stops == Stops(e, tnow)
  <2>1. PICK done \in BOOLEAN :
          /\ Handlers(id, done)
          /\ tt = "pass" /\ tt' \in {"pass", "hung"}
          /\ done \/ events' = Updated(id, c, stops)
    <3>1. CASE Visit(id)
      <4>1. Ends(c) \in BOOLEAN /\ (Ends(c) \/ Finished(c) = c)
        BY DEF Ends, Finished
      <4> QED BY <3>1, <4>1 DEF Visit
    <3>2. CASE VisitLast(id)
      BY <3>2 DEF VisitLast
    <3>3. CASE VisitHangs(id)
      BY <3>3 DEF VisitHangs
    <3> QED BY <1>6, <3>1, <3>2, <3>3
  <2>2. UNCHANGED <<mutex, mt, config, file, loaded, saveOK>>
    BY <2>1 DEF Handlers
  <2>3. saveEvents' = (saveEvents \/ c # e \/ done)
    BY <2>1, Zenon DEF Handlers
  <2>4. mt \notin {"write", "clear"}
    BY <2>1 DEF SaveInv
  <2>5. ~saveEvents' => events' = events
    <3> SUFFICES ASSUME c = e, ~done PROVE events' = events
      BY <2>3
    <3>1. e \in Event /\ tnow \in Nat
      BY <1>a, EventOfTable DEF TypeOK
    <3>2. ~stops
      BY <3>1 DEF Checked, Stops, Announced, Fired, Stopped, WantsAnnounce, WantsFire,
         WantsStop, Event
    <3>3. events' = With(events, id, e)
      BY <2>1, <3>2 DEF Updated, AddsShutdown
    <3> QED BY <1>a, <3>3 DEF With, IsTable
  <2>6. ~saveEvents' => ~saveEvents
    BY <2>3
  <2> HIDE DEF c, e, stops
  <2> QED BY <2>1, <2>2, <2>4, <2>5, <2>6 DEF SaveInv
<1>7. CASE ThreadWrite
  BY <1>7, SameSelf DEF SaveInv, LockInv, ThreadWrite, SaveConfig
<1>8. CASE ThreadClear
  BY <1>8, SameSelf DEF SaveInv, LockInv, ThreadClear
<1>9. CASE ThreadCancelled \/ Tick
  BY <1>9 DEF SaveInv, LockInv, ThreadCancelled, Tick
<1>10. CASE PowerLoss \/ \E byTimer \in BOOLEAN : Boot(byTimer)
  BY <1>10 DEF SaveInv, PowerLoss, Boot, Forgotten
<1>11. CASE UNCHANGED vars
  BY <1>11 DEF SaveInv, vars
<1> QED BY <1>1, <1>2, <1>3, <1>4, <1>5, <1>6, <1>7, <1>8, <1>9, <1>10, <1>11
        DEF Next, TimerThread

(***************************************************************************)
(* CleanMeansSaved holds in every state: m_saveEvents, set and cleared by  *)
(* two threads, never claims that a change is in timerd.conf which is not, *)
(* as long as the saves themselves succeed.                                *)
(***************************************************************************)
THEOREM FlagIsHonest == Spec => []CleanMeansSaved
<1>1. Init => SaveInv
  BY DEF Init, SaveInv
<1>2. SaveInv => CleanMeansSaved
  BY DEF SaveInv, CleanMeansSaved
<1> QED BY <1>1, <1>2, TypeCorrect, MutexHeld, SaveStep, PTL DEF Spec

=============================================================================
