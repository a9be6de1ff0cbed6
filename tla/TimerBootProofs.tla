--------------------------- MODULE TimerBootProofs --------------------------
(***************************************************************************)
(* Proofs about what timerd leaves behind for the next boot, and about the *)
(* shutdown it decides on by itself, for every value of the constants.     *)
(***************************************************************************)
EXTENDS TimerManagerProofs

(* The later of two points in time.                                        *)
LEMMA MaxIsLater ==
  ASSUME NEW a \in Int, NEW b \in Int
  PROVE  Max({a, b}) \in {a, b} /\ Max({a, b}) >= a /\ Max({a, b}) >= b
<1>1. PICK m \in {a, b} : \A y \in {a, b} : m >= y
  <2>1. CASE a >= b
    BY <2>1
  <2>2. CASE ~(a >= b)
    BY <2>2
  <2> QED BY <2>1, <2>2
<1>2. Max({a, b}) \in {a, b} /\ \A y \in {a, b} : Max({a, b}) >= y
  BY <1>1 DEF Max
<1> QED BY <1>2

(* The loop of shutdownOnWakeup and of shutdown finds the next             *)
(* announcement, if every event that it looks at has one.                  *)
AllAnnounced(S) == \A i \in S : events[i].announce > 0

LEMMA NextOfAnnounced ==
  ASSUME IsTable(events), NEW S, S \subseteq DOMAIN events, AllAnnounced(S)
  PROVE  /\ NextAnnounce(S) \in Nat
         /\ NextAnnounce(S) = 0 <=> S = {}
         /\ \A i \in S : NextAnnounce(S) <= events[i].announce
<1> DEFINE zeros == {i \in S : events[i].announce = 0}
           after == {i \in S : \A z \in zeros : z < i}
           times == {events[i].announce : i \in S}
<1>1. \A i \in S : events[i].announce \in Nat /\ events[i].announce > 0
  BY DEF AllAnnounced, IsTable, Event
<1>2. zeros = {}
  BY <1>1
<1>3. after = S
  BY <1>2
<1>4. NextAnnounce(S) = IF after = {} THEN 0
                        ELSE Min({events[i].announce : i \in after})
  BY DEF NextAnnounce
<1>5. NextAnnounce(S) = IF S = {} THEN 0 ELSE Min(times)
  BY <1>3, <1>4
<1>6. times \subseteq Nat \ {0} /\ times \subseteq Nat /\ (S # {} => times # {})
  BY <1>1
<1>7. \A i \in S : events[i].announce \in times
  OBVIOUS
<1> HIDE DEF zeros, after, times
<1>8. S # {} => Min(times) \in times /\ \A y \in times : Min(times) <= y
  BY <1>6, MinNat
<1>9. CASE S = {}
  BY <1>5, <1>9
<1>10. CASE S # {}
  <2>1. NextAnnounce(S) \in times /\ \A y \in times : NextAnnounce(S) <= y
    BY <1>5, <1>8, <1>10
  <2>2. NextAnnounce(S) \in Nat \ {0}
    BY <1>6, <2>1
  <2> QED BY <1>7, <1>10, <2>1, <2>2
<1> QED BY <1>9, <1>10

-----------------------------------------------------------------------------
(* The wake-up.                                                            *)

(* Once the timer thread has ended nothing changes the table any more.     *)
WakeInv ==
  /\ mt \in {"write", "clear", "program", "off"} => tt = "dead"
  /\ AllAnnounced(Scheduled) => WakeupProgrammed

(* The wake-up time that shutdown computes.                                *)
LEMMA ProgramWakes ==
  ASSUME TypeOK, ProgramWakeup, AllAnnounced(Scheduled)
  PROVE  WakeupProgrammed'
<1> DEFINE next == NextAnnounce(Scheduled)
<1>1. /\ wakeTimer' = IF next = 0 THEN 0 ELSE Max({next - Lead, now + 1})
      /\ offAt' = now
      /\ UNCHANGED events
  BY DEF ProgramWakeup, manager
<1>2. /\ IsTable(events) /\ now \in Nat /\ Lead \in Nat
      /\ Scheduled \subseteq DOMAIN events
      /\ \A i \in Scheduled : events[i].announce \in Nat
  BY ConstantAssumption DEF TypeOK, Scheduled, IsTable, Event
<1>3. /\ next \in Nat
      /\ next = 0 <=> Scheduled = {}
      /\ \A i \in Scheduled : next <= events[i].announce
  BY <1>2, NextOfAnnounced
<1> HIDE DEF next
<1>4. ASSUME NEW i \in Scheduled
      PROVE  /\ wakeTimer' # 0
             /\ wakeTimer' <= events[i].announce - Lead \/ wakeTimer' <= offAt' + 1
  <2>1. next # 0 /\ next <= events[i].announce /\ events[i].announce \in Nat
    BY <1>2, <1>3
  <2>2. next - Lead \in Int /\ now + 1 \in Int
    BY <1>2, <1>3
  <2>3. /\ wakeTimer' \in {next - Lead, now + 1}
        /\ wakeTimer' >= next - Lead /\ wakeTimer' >= now + 1
    BY <1>1, <2>1, <2>2, MaxIsLater
  <2> QED BY <1>1, <1>2, <1>3, <2>1, <2>3
<1>5. Scheduled' = Scheduled
  BY <1>1 DEF Scheduled, WakesTheBox
<1> QED BY <1>1, <1>4, <1>5 DEF WakeupProgrammed

(* Every step keeps what shutdown has set.                                 *)
LEMMA WakeStep == TypeOK /\ WakeInv /\ [Next]_vars => WakeInv'
<1> SUFFICES ASSUME TypeOK, WakeInv, [Next]_vars PROVE WakeInv'
  OBVIOUS
<1> USE DEF thread, manager, box, history
<1>a. ASSUME mt' \notin {"write", "clear", "program", "off"} PROVE WakeInv'
  BY <1>a DEF WakeInv, WakeupProgrammed
<1>b. ASSUME mt' = mt,
             mt \in {"write", "clear", "program", "off"} =>
               UNCHANGED <<tt, events, mutex, wakeTimer, offAt>>
      PROVE  WakeInv'
  <2>1. ASSUME mt = "off", mutex = "free", AllAnnounced(Scheduled)' PROVE WakeupProgrammed'
    <3>1. UNCHANGED <<events, mutex, wakeTimer, offAt>> /\ Scheduled' = Scheduled
      BY <1>b, <2>1 DEF Scheduled, WakesTheBox
    <3>2. AllAnnounced(Scheduled)
      BY <2>1, <3>1 DEF AllAnnounced
    <3> QED BY <1>b, <2>1, <3>1, <3>2 DEF WakeInv, WakeupProgrammed
  <2> QED BY <1>b, <2>1 DEF WakeInv, WakeupProgrammed
<1>1. CASE ClientCommand
  <2>1. mt' \in {"accept", "addret", "list", "join"}
    BY <1>1 DEF ClientCommand, AddTimer, RemoveTimer, StopTimer, EndEvent, ModifyTimer,
       SetAPid, RescheduleTimer, SetRecordingSafety, SetZaptoSafety, SetSafety, GetTimerList,
       Shutdown, Command
  <2> QED BY <1>a, <2>1
<1>2. CASE AddReturn \/ ListSent
  BY <1>2, <1>a DEF AddReturn, ListSent
<1>3. CASE ShutdownSave \/ ShutdownNoSave \/ ShutdownWrite \/ ShutdownClear
  BY <1>3 DEF ShutdownSave, ShutdownNoSave, ShutdownWrite, ShutdownClear, WakeInv,
     WakeupProgrammed
<1>4. CASE ProgramWakeup
  <2>1. /\ mt = "program" /\ tt' = tt /\ events' = events
    BY <1>4 DEF ProgramWakeup
  <2>2. AllAnnounced(Scheduled)' => AllAnnounced(Scheduled)
    BY <2>1 DEF AllAnnounced, Scheduled, WakesTheBox
  <2> QED BY <1>4, <2>1, <2>2, ProgramWakes DEF WakeInv
<1>5. CASE ShutdownBusy
  BY <1>5 DEF ShutdownBusy, WakeInv, WakeupProgrammed
<1>6. CASE TimerThread
  <2>1. ASSUME NEW id \in DOMAIN events, Visit(id) \/ VisitLast(id) \/ VisitHangs(id)
        PROVE  tt = "pass" /\ UNCHANGED <<mt, now>>
    BY <2>1 DEF Visit, VisitLast, VisitHangs, Handlers
  <2>2. tt # "dead" /\ UNCHANGED <<mt, now>>
    BY <1>6, <2>1 DEF TimerThread, TimeSet, LoadEvent, LoadDone, ReadClock, BeginPass, EndPass,
       PassOver, PassSave, PassNoSave, ThreadWrite, ThreadClear
  <2>3. mt \notin {"write", "clear", "program", "off"}
    BY <2>2 DEF WakeInv
  <2> QED BY <1>a, <2>2, <2>3
<1>7. CASE ThreadCancelled \/ Tick
  BY <1>7, <1>a, <1>b DEF ThreadCancelled, Tick
<1>8. CASE PowerLoss \/ \E byTimer \in BOOLEAN : Boot(byTimer)
  BY <1>8, <1>a DEF PowerLoss, Boot
<1>9. CASE UNCHANGED vars
  BY <1>9, <1>b DEF vars
<1> QED BY <1>1, <1>2, <1>3, <1>4, <1>5, <1>6, <1>7, <1>8, <1>9 DEF Next, MainThread

(***************************************************************************)
(* The box is woken in time for every scheduled recording and zap, or at   *)
(* the minimum of one minute after the programming                         *)
(* (timermanager.cpp:743-745), whatever commands, passes, boots and power  *)
(* failures came before, if every one of them has an announcement: the     *)
(* loop that looks for the next announcement takes 0 for "none yet" and    *)
(* forgets the events before one without.                                  *)
(***************************************************************************)
THEOREM WakeupIsProgrammed == Spec => [](AllAnnounced(Scheduled) => WakeupProgrammed)
<1>1. Init => WakeInv
  BY DEF Init, WakeInv, WakeupProgrammed
<1>2. WakeInv => (AllAnnounced(Scheduled) => WakeupProgrammed)
  BY DEF WakeInv
<1> QED BY <1>1, <1>2, TypeCorrect, WakeStep, PTL DEF Spec

-----------------------------------------------------------------------------
(* The timers that a save must not lose.  S and T are sets of events, t is *)
(* a time and tags are those that a client has touched.                    *)

(* An event that does not end before it begins, and has not ended if it    *)
(* has not begun.                                                          *)
Sound(e, t) ==
  /\ e.stop = 0 \/ e.alarm <= e.stop
  /\ e.state \in {"HASFINISHED", "TERMINATED"} => e.alarm <= t

AllSound(S, t, tags) == \A e \in S : e.what \notin tags => Sound(e, t)

(* What is still to come of S is in T, at the same time or later.          *)
Keeps(S, T, t, tags) ==
  \A e \in S : e.alarm > t /\ e.what \notin tags =>
    \E f \in T : f.what = e.what /\ f.alarm >= e.alarm

LEMMA SoundLater ==
  ASSUME NEW S, S \subseteq Event, NEW t \in Nat, NEW u \in Nat, t <= u,
         NEW tags, NEW more, tags \subseteq more, AllSound(S, t, tags)
  PROVE  AllSound(S, u, more)
<1>1. \A e \in S : e.alarm \in Nat
  BY DEF Event
<1> QED BY <1>1 DEF AllSound, Sound

LEMMA KeepsLater ==
  ASSUME NEW S, S \subseteq Event, NEW T, NEW t \in Nat, NEW u \in Nat, t <= u,
         NEW tags, NEW more, tags \subseteq more, Keeps(S, T, t, tags)
  PROVE  Keeps(S, T, u, more)
<1>1. \A e \in S : e.alarm \in Nat /\ (e.alarm > u => e.alarm > t)
  BY DEF Event
<1> QED BY <1>1 DEF Keeps

LEMMA KeepsAll ==
  ASSUME NEW S, S \subseteq Event, NEW T, S \subseteq T, NEW t, NEW tags
  PROVE  Keeps(S, T, t, tags)
<1>1. \A e \in S : e.alarm >= e.alarm
  BY DEF Event
<1> QED BY <1>1 DEF Keeps

LEMMA KeepsOn ==
  ASSUME NEW S, S \subseteq Event, NEW T, T \subseteq Event, NEW U, U \subseteq Event,
         NEW t \in Nat, NEW tags, Keeps(S, T, t, tags), Keeps(T, U, t, tags)
  PROVE  Keeps(S, U, t, tags)
<1> SUFFICES ASSUME NEW e \in S, e.alarm > t, e.what \notin tags
             PROVE  \E g \in U : g.what = e.what /\ g.alarm >= e.alarm
  BY DEF Keeps
<1>1. PICK f \in T : f.what = e.what /\ f.alarm >= e.alarm
  BY DEF Keeps
<1>2. e.alarm \in Nat /\ f.alarm \in Nat
  BY DEF Event
<1>3. f.alarm > t /\ f.what \notin tags
  BY <1>1, <1>2
<1>4. PICK g \in U : g.what = f.what /\ g.alarm >= f.alarm
  BY <1>3 DEF Keeps
<1>5. g.alarm \in Nat
  BY DEF Event
<1> QED BY <1>1, <1>2, <1>4, <1>5

(* The events of a table.                                                  *)
LEMMA RangeOfTable ==
  ASSUME NEW evs, IsTable(evs)
  PROVE  Range(evs) \subseteq Event /\ \A i \in DOMAIN evs : evs[i] \in Range(evs)
BY DEF IsTable, Range

(***************************************************************************)
(* The file, what is being loaded or written and the table are sound; once *)
(* the load is over the table keeps the timers of the file, and during the *)
(* load the table and what is left of the load do.                         *)
(***************************************************************************)
SoundInv ==
  /\ AllSound(Range(events), now, touched)
  /\ AllSound(Range(config.evs), now, touched)
  /\ AllSound(Range(file.evs), now, touched)
KeepInv ==
  /\ tnow <= now
  /\ SoundInv
  /\ loaded => Keeps(Range(file.evs), Range(events), now, touched)
  /\ tt = "load" => Keeps(Range(file.evs), Range(events) \cup Range(config.evs), now, touched)

LEMMA TablesType ==
  ASSUME TypeOK
  PROVE  /\ IsTable(events) /\ IsTable(config.evs) /\ IsTable(file.evs) /\ now \in Nat
         /\ Range(events) \subseteq Event /\ Range(config.evs) \subseteq Event
         /\ Range(file.evs) \subseteq Event /\ Range(NoEvents) = {}
<1>1. /\ IsTable(events) /\ IsTable(config.evs) /\ IsTable(file.evs) /\ now \in Nat
  BY DEF TypeOK, IsConfig
<1>2. Range(NoEvents) = {}
  BY DEF Range, NoEvents
<1> QED BY <1>1, <1>2, RangeOfTable

(* A step that leaves the table and the file alone.                        *)
LEMMA KeepQuiet ==
  ASSUME TypeOK, KeepInv, now' \in Nat, now <= now', touched \subseteq touched',
         tnow' <= now', UNCHANGED <<events, file>>, loaded' => loaded,
         config'.evs \in {config.evs, events, file.evs, NoEvents},
         tt' = "load" => tt = "load" /\ config' = config
  PROVE  KeepInv'
<1>1. /\ now \in Nat
      /\ Range(events) \subseteq Event /\ Range(config.evs) \subseteq Event
      /\ Range(file.evs) \subseteq Event /\ Range(NoEvents) = {}
  BY TablesType
<1>2. \A S \in {Range(events), Range(config.evs), Range(file.evs), Range(NoEvents)} :
         S \subseteq Event /\ AllSound(S, now, touched)
  BY <1>1 DEF KeepInv, SoundInv, AllSound
<1>3. \A S \in {Range(events), Range(config.evs), Range(file.evs), Range(NoEvents)} :
         AllSound(S, now', touched')
  BY <1>1, <1>2, SoundLater
<1>4. SoundInv'
  BY <1>3 DEF SoundInv
<1>5. loaded' => Keeps(Range(file.evs), Range(events), now', touched')
  BY <1>1, KeepsLater DEF KeepInv
<1>6. tt' = "load" =>
         Keeps(Range(file.evs), Range(events) \cup Range(config.evs), now', touched')
  BY <1>1, KeepsLater DEF KeepInv
<1> QED BY <1>4, <1>5, <1>6 DEF KeepInv

(* A step on the table.                                                    *)
LEMMA KeepTable ==
  ASSUME TypeOK, TypeOK', KeepInv, touched \subseteq touched',
         UNCHANGED <<now, tnow, file, config, loaded>>, tt' = "load" => tt = "load",
         AllSound(Range(events'), now, touched'),
         Keeps(Range(events), Range(events'), now, touched')
  PROVE  KeepInv'
<1>1. /\ now \in Nat
      /\ Range(events) \subseteq Event /\ Range(config.evs) \subseteq Event
      /\ Range(file.evs) \subseteq Event /\ Range(events') \subseteq Event
  BY TablesType, RangeOfTable DEF TypeOK
<1>2. SoundInv'
  BY <1>1, SoundLater DEF KeepInv, SoundInv
<1>3. ASSUME loaded PROVE Keeps(Range(file.evs), Range(events'), now, touched')
  <2>1. Keeps(Range(file.evs), Range(events), now, touched')
    BY <1>1, <1>3, KeepsLater DEF KeepInv
  <2> QED BY <1>1, <2>1, KeepsOn
<1>4. ASSUME tt = "load"
      PROVE  Keeps(Range(file.evs), Range(events') \cup Range(config.evs), now, touched')
  <2>1. Keeps(Range(file.evs), Range(events) \cup Range(config.evs), now, touched')
    BY <1>1, <1>4, KeepsLater DEF KeepInv
  <2>2. Keeps(Range(config.evs), Range(config.evs), now, touched')
    BY <1>1, KeepsAll
  <2>3. Keeps(Range(events) \cup Range(config.evs), Range(events') \cup Range(config.evs),
              now, touched')
    BY <2>2 DEF Keeps
  <2> QED BY <1>1, <2>1, <2>3, KeepsOn
<1> QED BY <1>2, <1>3, <1>4 DEF KeepInv

(* One event is changed or erased, and others may be added.                *)
LEMMA OneChange ==
  ASSUME TypeOK, TypeOK', SoundInv, touched \subseteq touched', NEW id \in DOMAIN events,
         \A i \in DOMAIN events \ {id} : i \in DOMAIN events' /\ events'[i] = events[i],
         \A i \in DOMAIN events' \ DOMAIN events : Sound(events'[i], now),
         (id \in DOMAIN events' /\ events'[id].what \notin touched') => Sound(events'[id], now),
         (events[id].what \notin touched' /\ events[id].alarm > now) =>
            /\ id \in DOMAIN events'
            /\ events'[id].what = events[id].what /\ events'[id].alarm >= events[id].alarm
  PROVE  /\ AllSound(Range(events'), now, touched')
         /\ Keeps(Range(events), Range(events'), now, touched')
<1>1. /\ IsTable(events) /\ IsTable(events')
      /\ \A i \in DOMAIN events : events[i] \in Event
  BY TablesType DEF TypeOK, IsTable
<1>2. ASSUME NEW i \in DOMAIN events', events'[i].what \notin touched'
      PROVE  Sound(events'[i], now)
  <2>1. CASE i = id
    BY <1>2, <2>1
  <2>2. CASE i \in DOMAIN events \ {id}
    <3>1. events'[i] = events[i] /\ events[i] \in Range(events)
      BY <2>2 DEF Range
    <3> QED BY <1>2, <3>1 DEF SoundInv, AllSound
  <2>3. CASE i \in DOMAIN events' \ DOMAIN events
    BY <2>3
  <2> QED BY <2>1, <2>2, <2>3
<1>3. AllSound(Range(events'), now, touched')
  BY <1>2 DEF AllSound, Range
<1>4. ASSUME NEW i \in DOMAIN events, events[i].alarm > now, events[i].what \notin touched'
      PROVE  \E k \in DOMAIN events' :
                events'[k].what = events[i].what /\ events'[k].alarm >= events[i].alarm
  <2>1. CASE i = id
    BY <1>4, <2>1
  <2>2. CASE i # id
    <3>1. events[i].alarm >= events[i].alarm
      BY <1>1 DEF Event
    <3> QED BY <2>2, <3>1
  <2> QED BY <2>1, <2>2
<1>5. Keeps(Range(events), Range(events'), now, touched')
  BY <1>4 DEF Keeps, Range
<1> QED BY <1>3, <1>5

(***************************************************************************)
(* Clients send recordings that do not end before they begin, and no timer *)
(* of the first file is over without having begun.                         *)
(***************************************************************************)
TimersSane ==
  /\ \A r \in AddRequests : r.type \in {"RECORD", "IMMEDIATE_RECORD"} => r.alarm <= r.stop
  /\ \A f \in InitialFiles : AllSound(Range(f.evs), 1, {})

(* An event that a client adds, with its margins.                          *)
LEMMA NewEventSound ==
  ASSUME NEW r \in AddRequests, extra \in Extra, TimersSane, now \in Nat
  PROVE  Sound([NewEvent(r) EXCEPT !.rep = Normalised(@)], now)
<1> DEFINE e == NewEvent(r)
<1>1. r \in AddRequest /\ extra \in [pre : Nat, post : Nat, zap : Nat]
  BY RequestAssumption DEF Extra
<1>2. r.alarm \in Nat /\ r.stop \in Nat /\ extra.pre \in Nat /\ extra.post \in Nat
  BY <1>1 DEF AddRequest
<1>3. /\ e \in Event /\ e.state \notin {"HASFINISHED", "TERMINATED"}
      /\ r.type \notin {"RECORD", "IMMEDIATE_RECORD"} => e.stop = 0
      /\ r.type = "IMMEDIATE_RECORD" => e.stop = r.stop + 0 /\ e.alarm = r.alarm - 0
      /\ r.type = "RECORD" =>
           \/ e.stop = r.stop + 0 /\ e.alarm = r.alarm - 0
           \/ e.stop = r.stop + extra.post /\ e.alarm = r.alarm - extra.pre
  BY NewEventType DEF NewEvent
<1> HIDE DEF e
<1>4. e.stop = 0 \/ e.alarm <= e.stop
  BY <1>2, <1>3 DEF TimersSane
<1> QED BY <1>3, <1>4 DEF Sound, Event, e

LEMMA AutoShutdownSound ==
  ASSUME now \in Nat
  PROVE  Sound([AutoShutdown EXCEPT !.rep = Normalised(@)], now)
BY DEF AutoShutdown, Sound

(* Reschedule moves an event on, to be due again.                          *)
LEMMA MovedOn ==
  ASSUME NEW e \in Event, NEW n \in Nat, NEW t
  PROVE  /\ e.stop = 0 \/ e.alarm <= e.stop => Sound(Moved(e, n), t)
         /\ Moved(e, n).what = e.what /\ Moved(e, n).alarm >= e.alarm
<1> DEFINE diff == n * Turn(e.rep)
<1>1. e.rep \in Repeats /\ e.alarm \in Nat /\ e.stop \in Nat
  BY DEF Event
<1>2. diff \in Nat
  BY <1>1, TurnType, TimesType
<1>3. /\ Moved(e, n).alarm = e.alarm + diff
      /\ Moved(e, n).stop = IF e.stop > 0 THEN e.stop + diff ELSE e.stop
      /\ Moved(e, n).state = "SCHEDULED" /\ Moved(e, n).what = e.what
  BY DEF Moved, Event
<1> HIDE DEF diff
<1> QED BY <1>1, <1>2, <1>3 DEF Sound

(* An event is stopped or done with only after its alarm.                  *)
LEMMA CheckedSound ==
  ASSUME NEW e \in Event, NEW t \in Nat, NEW u \in Nat, t <= u, Sound(e, u)
  PROVE  LET c == Checked(e, t)
         IN  /\ c \in Event /\ Sound(c, u) /\ c.what = e.what /\ c.alarm = e.alarm
             /\ e.alarm > u => c.state \notin {"HASFINISHED", "TERMINATED"}
<1> DEFINE c == Checked(e, t)
<1>1. c \in Event
  BY CheckedType
<1>2. /\ c.what = e.what /\ c.alarm = e.alarm /\ c.stop = e.stop
      /\ \/ c.state \notin {"HASFINISHED", "TERMINATED"}
         \/ c.state = e.state
         \/ c.alarm <= t
         \/ c.stop > 0 /\ c.stop <= t
  BY DEF Checked, Announced, Fired, Stopped, WantsAnnounce, WantsFire, WantsStop, Event
<1>3. c.alarm \in Nat /\ c.stop \in Nat
  BY <1>1 DEF Event
<1> HIDE DEF c
<1>4. Sound(c, u) /\ (e.alarm > u => c.state \notin {"HASFINISHED", "TERMINATED"})
  BY <1>2, <1>3 DEF Sound
<1> QED BY <1>1, <1>2, <1>4 DEF c

(* The end of a visit to a sound event.                                    *)
LEMMA FinishedSound ==
  ASSUME NEW e \in Event, now \in Nat, Sound(e, now), ~Hangs(e)
  PROVE  /\ Sound(Finished(e), now) /\ Finished(e).what = e.what
         /\ Finished(e).alarm >= e.alarm
<1>0. e.alarm \in Nat /\ e.state \in States
  BY DEF Event
<1>1. CASE ~Ends(e)
  BY <1>0, <1>1 DEF Finished
<1>2. CASE Ends(e) /\ Repeating(e)
  <2>1. Turns(e, now) \in Nat
    BY <1>2, TurnsType DEF Hangs
  <2>2. Finished(e) = Moved(e, Turns(e, now))
    BY <1>2 DEF Finished, Rescheduled
  <2> QED BY <2>1, <2>2, MovedOn DEF Sound
<1>3. CASE Ends(e) /\ ~Repeating(e)
  <2>1. Finished(e) = [e EXCEPT !.state = "TERMINATED"]
    BY <1>3 DEF Finished
  <2>2. /\ Finished(e).state = "TERMINATED" /\ Finished(e).alarm = e.alarm
        /\ Finished(e).stop = e.stop /\ Finished(e).what = e.what
    BY <2>1 DEF Event
  <2> QED BY <1>0, <1>3, <2>2 DEF Sound, Ends
<1> QED BY <1>1, <1>2, <1>3

(* addEvent on the table.                                                  *)
LEMMA OneAdded ==
  ASSUME TypeOK, SoundInv, NEW id \in Nat \ {0}, id \notin DOMAIN events, NEW e \in Event,
         e.what \notin touched => Sound([e EXCEPT !.rep = Normalised(@)], now),
         events' = Inserted(events, id, e)
  PROVE  /\ AllSound(Range(events'), now, touched)
         /\ Range(events) \subseteq Range(events')
         /\ [e EXCEPT !.rep = Normalised(@)] \in Range(events')
         /\ Keeps(Range(events), Range(events'), now, touched)
<1>1. /\ DOMAIN events' = DOMAIN events \cup {id}
      /\ \A i \in DOMAIN events : events'[i] = events[i]
      /\ events'[id] = [e EXCEPT !.rep = Normalised(@)]
  BY DEF Inserted, With
<1>2. [e EXCEPT !.rep = Normalised(@)].what = e.what
  BY DEF Event
<1>3. AllSound(Range(events'), now, touched)
  <2>1. ASSUME NEW i \in DOMAIN events', events'[i].what \notin touched
        PROVE  Sound(events'[i], now)
    <3>1. CASE i = id
      BY <1>1, <1>2, <2>1, <3>1
    <3>2. CASE i \in DOMAIN events
      <4>1. events'[i] = events[i] /\ events[i] \in Range(events)
        BY <1>1, <3>2 DEF Range
      <4> QED BY <2>1, <4>1 DEF SoundInv, AllSound
    <3> QED BY <1>1, <3>1, <3>2
  <2> QED BY <2>1 DEF AllSound, Range
<1>4. /\ Range(events) \subseteq Range(events')
      /\ [e EXCEPT !.rep = Normalised(@)] \in Range(events')
  BY <1>1 DEF Range
<1>5. Range(events) \subseteq Event
  BY TablesType
<1> QED BY <1>3, <1>4, <1>5, KeepsAll

(* What Updated leaves, with the shutdown event that it may add.           *)
LEMMA UpdatedRest ==
  ASSUME TypeOK, NEW id \in DOMAIN events, NEW e \in Event, NEW stops \in BOOLEAN
  PROVE  LET t == Updated(id, e, stops)
         IN  /\ \A i \in DOMAIN events \ {id} : i \in DOMAIN t /\ t[i] = events[i]
             /\ id \in DOMAIN t /\ t[id] = e
             /\ \A i \in DOMAIN t \ DOMAIN events :
                   /\ AddsShutdown(id, stops) /\ i = eventID + 1
                   /\ t[i] = [AutoShutdown EXCEPT !.rep = Normalised(@)]
<1> DEFINE t == Updated(id, e, stops)
<1>1. /\ DOMAIN t = DOMAIN events \cup (IF AddsShutdown(id, stops) THEN {eventID + 1} ELSE {})
      /\ t[id] = e
      /\ \A i \in DOMAIN events \ {id} : t[i] = events[i]
  BY UpdatedType
<1>2. AddsShutdown(id, stops) => t[eventID + 1] = [AutoShutdown EXCEPT !.rep = Normalised(@)]
  BY DEF Updated, Inserted, With
<1> HIDE DEF t
<1>3. \A i \in DOMAIN t \ DOMAIN events : AddsShutdown(id, stops) /\ i = eventID + 1
  BY <1>1
<1>4. DOMAIN events \subseteq DOMAIN t
  BY <1>1
<1> QED BY <1>1, <1>2, <1>3, <1>4 DEF t

LEMMA CommandKeeps ==
  ASSUME TypeOK, TypeOK', KeepInv, TimersSane, ClientCommand
  PROVE  KeepInv'
<1> USE DEF thread, manager, box, history
<1>a. /\ IsTable(events) /\ now \in Nat /\ eventID \in Nat /\ DOMAIN events \subseteq 1..eventID
      /\ extra \in Extra /\ SoundInv /\ tnow <= now
  BY DEF TypeOK, KeepInv
<1>1. ASSUME NEW r \in AddRequests, AddTimer(r) PROVE KeepInv'
  <2>1. /\ events' = Inserted(events, eventID + 1, NewEvent(r))
        /\ UNCHANGED <<now, tnow, tt, file, config, loaded, touched>>
    BY <1>1 DEF AddTimer
  <2>2. eventID + 1 \in Nat \ {0} /\ eventID + 1 \notin DOMAIN events
    BY <1>a
  <2>3. NewEvent(r) \in Event /\ Sound([NewEvent(r) EXCEPT !.rep = Normalised(@)], now)
    BY <1>a, NewEventType, NewEventSound
  <2>4. /\ AllSound(Range(events'), now, touched)
        /\ Keeps(Range(events), Range(events'), now, touched)
    BY <1>a, <2>1, <2>2, <2>3, OneAdded
  <2> QED BY <2>1, <2>4, KeepTable
<1>2. ASSUME NEW id \in DOMAIN events, NEW state \in {"TERMINATED", "HASFINISHED"},
             EndEvent(id, state)
      PROVE  KeepInv'
  <2> DEFINE e == [events[id] EXCEPT !.state = state]
             stops == Stoppable(events[id])
  <2>1. e \in Event /\ stops \in BOOLEAN /\ e.what = events[id].what
    BY <1>a, EventOfTable DEF Event, States, Stoppable
  <2>2. /\ events' = Updated(id, e, stops)
        /\ touched' = touched \cup {events[id].what}
        /\ UNCHANGED <<now, tnow, tt, file, config, loaded>>
    BY <1>2 DEF EndEvent
  <2> HIDE DEF e, stops
  <2>3. /\ \A i \in DOMAIN events \ {id} : i \in DOMAIN events' /\ events'[i] = events[i]
        /\ events'[id] = e
        /\ \A i \in DOMAIN events' \ DOMAIN events :
              events'[i] = [AutoShutdown EXCEPT !.rep = Normalised(@)]
    BY <2>1, <2>2, UpdatedRest
  <2>4. \A i \in DOMAIN events' \ DOMAIN events : Sound(events'[i], now)
    BY <1>a, <2>3, AutoShutdownSound
  <2>5. events[id].what \in touched' /\ touched \subseteq touched'
    BY <2>2
  <2>6. /\ AllSound(Range(events'), now, touched')
        /\ Keeps(Range(events), Range(events'), now, touched')
    BY <1>a, <2>1, <2>3, <2>4, <2>5, OneChange
  <2> QED BY <2>2, <2>5, <2>6, KeepTable
<1>3. ASSUME NEW id \in DOMAIN events, NEW r \in ModifyRequests, ModifyTimer(id, r)
      PROVE  KeepInv'
  <2>1. /\ events' = [events EXCEPT ![id] = Modified(events[id], r)]
        /\ touched' = touched \cup {events[id].what}
        /\ UNCHANGED <<now, tnow, tt, file, config, loaded>>
    BY <1>3 DEF ModifyTimer
  <2>2. events[id] \in Event /\ Modified(events[id], r).what = events[id].what
    BY <1>a, EventOfTable DEF Modified, Event
  <2>3. /\ DOMAIN events' = DOMAIN events /\ events'[id] = Modified(events[id], r)
        /\ \A i \in DOMAIN events \ {id} : events'[i] = events[i]
    BY <1>a, <2>1 DEF IsTable
  <2>4. /\ AllSound(Range(events'), now, touched')
        /\ Keeps(Range(events), Range(events'), now, touched')
    BY <1>a, <2>1, <2>2, <2>3, OneChange
  <2> QED BY <2>1, <2>4, KeepTable
<1>4. ASSUME NEW id \in DOMAIN events, NEW f \in Event, events' = [events EXCEPT ![id] = f],
             f.what = events[id].what, f.alarm >= events[id].alarm,
             Sound(events[id], now) => Sound(f, now),
             UNCHANGED <<now, tnow, tt, file, config, loaded, touched>>
      PROVE  KeepInv'
  <2>1. /\ DOMAIN events' = DOMAIN events /\ events'[id] = f
        /\ \A i \in DOMAIN events \ {id} : events'[i] = events[i]
    BY <1>a, <1>4 DEF IsTable
  <2>2. events[id].what \notin touched => Sound(events[id], now)
    BY <1>a DEF SoundInv, AllSound, Range
  <2>3. /\ AllSound(Range(events'), now, touched')
        /\ Keeps(Range(events), Range(events'), now, touched')
    BY <1>a, <1>4, <2>1, <2>2, OneChange
  <2> QED BY <1>4, <2>3, KeepTable
<1>5. ASSUME NEW id \in DOMAIN events, NEW a \in Apids, SetAPid(id, a) PROVE KeepInv'
  <2> DEFINE f == [events[id] EXCEPT !.apids = a]
  <2>1. events[id] \in Event
    BY <1>a, EventOfTable
  <2>2. /\ f \in Event /\ f.what = events[id].what /\ f.alarm = events[id].alarm
        /\ f.stop = events[id].stop /\ f.state = events[id].state /\ f.alarm \in Nat
    BY <2>1 DEF Event
  <2>3. /\ events' = [events EXCEPT ![id] = f]
        /\ UNCHANGED <<now, tnow, tt, file, config, loaded, touched>>
    BY <1>5 DEF SetAPid
  <2> HIDE DEF f
  <2>4. f.alarm >= events[id].alarm /\ (Sound(events[id], now) => Sound(f, now))
    BY <2>2 DEF Sound
  <2> QED BY <1>4, <2>2, <2>3, <2>4
<1>6. ASSUME NEW id \in DOMAIN events, RescheduleTimer(id) PROVE KeepInv'
  <2> DEFINE f == Moved(events[id], 1)
  <2>1. events[id] \in Event
    BY <1>a, EventOfTable
  <2>2. /\ events' = [events EXCEPT ![id] = f]
        /\ UNCHANGED <<now, tnow, tt, file, config, loaded, touched>>
    BY <1>6 DEF RescheduleTimer, ForcedOn
  <2>3. f \in Event /\ f.what = events[id].what /\ f.alarm >= events[id].alarm
    BY <2>1, MovedOn, MovedType
  <2>4. Sound(events[id], now) => Sound(f, now)
    BY <2>1, MovedOn DEF Sound
  <2> HIDE DEF f
  <2> QED BY <1>4, <2>2, <2>3, <2>4
<1>7. CASE \/ \E x \in Extras : SetRecordingSafety(x)
           \/ \E x \in Extras : SetZaptoSafety(x)
           \/ GetTimerList \/ Shutdown
  <2>1. UNCHANGED <<now, tnow, tt, events, file, config, loaded, touched>>
    BY <1>7 DEF SetRecordingSafety, SetZaptoSafety, SetSafety, GetTimerList, Shutdown
  <2> QED BY <1>a, <2>1, KeepQuiet
<1> QED BY <1>1, <1>2, <1>3, <1>5, <1>6, <1>7 DEF ClientCommand, RemoveTimer, StopTimer

(* A visit of the timer thread.                                            *)
LEMMA VisitKeeps ==
  ASSUME TypeOK, TypeOK', KeepInv, NEW id \in DOMAIN events,
         Visit(id) \/ VisitLast(id) \/ VisitHangs(id)
  PROVE  KeepInv'
<1> DEFINE e == events[id]
           c == Checked(e, tnow)
           stops == Stops(e, tnow)
<1>a. /\ IsTable(events) /\ now \in Nat /\ tnow \in Nat /\ tnow <= now
      /\ SoundInv /\ e \in Event /\ stops \in BOOLEAN
  BY EventOfTable DEF TypeOK, KeepInv, Stops, WantsStop
<1>b. c \in Event
  BY <1>a, CheckedType
<1>c. UNCHANGED <<now, tnow, file, config, loaded, touched>> /\ tt' \in {"pass", "hung"}
  BY DEF Visit, VisitLast, VisitHangs, Handlers, box
<1>d. ASSUME e.what \notin touched
      PROVE  /\ Sound(c, now) /\ c.what = e.what /\ c.alarm = e.alarm
             /\ e.alarm > now => c.state \notin {"HASFINISHED", "TERMINATED"}
  <2>1. Sound(e, now)
    BY <1>a, <1>d DEF SoundInv, AllSound, Range
  <2> QED BY <1>a, <2>1, CheckedSound
<1>e. ASSUME NEW f \in Event, events' = Updated(id, f, stops),
             f.what \notin touched => Sound(f, now),
             e.what \notin touched => f.what = e.what /\ f.alarm >= e.alarm
      PROVE  KeepInv'
  <2> HIDE DEF e, c, stops
  <2>1. /\ \A i \in DOMAIN events \ {id} : i \in DOMAIN events' /\ events'[i] = events[i]
        /\ id \in DOMAIN events' /\ events'[id] = f
        /\ \A i \in DOMAIN events' \ DOMAIN events :
              events'[i] = [AutoShutdown EXCEPT !.rep = Normalised(@)]
    BY <1>a, <1>e, UpdatedRest
  <2>2. \A i \in DOMAIN events' \ DOMAIN events : Sound(events'[i], now)
    BY <1>a, <2>1, AutoShutdownSound
  <2>3. /\ AllSound(Range(events'), now, touched')
        /\ Keeps(Range(events), Range(events'), now, touched')
    BY <1>a, <1>c, <1>e, <2>1, <2>2, OneChange DEF e
  <2> QED BY <1>c, <2>3, KeepTable
<1>f. c.what = e.what /\ c.alarm = e.alarm /\ e.alarm \in Nat
  BY <1>a DEF Checked, Announced, Fired, Stopped, WantsAnnounce, WantsFire, WantsStop, Event
<1>1. CASE Visit(id)
  <2>1. events' = Updated(id, Finished(c), stops) /\ ~Hangs(c)
    BY <1>1 DEF Visit
  <2>2. Finished(c) \in Event
    BY <1>a, <1>b, <2>1, FinishedType
  <2>3. Finished(c).what = e.what
    <3>1. Finished(c) \in {c, [c EXCEPT !.state = "TERMINATED"], Moved(c, Turns(c, now))}
      BY DEF Finished, Rescheduled
    <3>2. \A n : Moved(c, n).what = c.what
      BY <1>b DEF Moved, Event
    <3>3. [c EXCEPT !.state = "TERMINATED"].what = c.what
      BY <1>b DEF Event
    <3> HIDE DEF c, e
    <3> QED BY <1>f, <3>1, <3>2, <3>3
  <2>4. e.what \notin touched => Sound(Finished(c), now) /\ Finished(c).alarm >= e.alarm
    BY <1>a, <1>b, <1>d, <1>f, <2>1, FinishedSound
  <2> HIDE DEF c, stops
  <2> QED BY <1>e, <2>1, <2>2, <2>3, <2>4
<1>2. CASE VisitHangs(id)
  <2>1. events' = Updated(id, c, stops)
    BY <1>2 DEF VisitHangs
  <2>2. c.alarm >= e.alarm
    BY <1>f
  <2> HIDE DEF c, e, stops
  <2> QED BY <1>b, <1>d, <1>e, <1>f, <2>1, <2>2
<1>3. CASE VisitLast(id)
  <2> DEFINE f == Finished(c)
             t == Updated(id, f, stops)
  <2>1. /\ events' = Restrict(t, DOMAIN t \ {id}) /\ ~Hangs(c) /\ f.state = "TERMINATED"
    BY <1>3 DEF VisitLast
  <2>2. f \in Event
    BY <1>a, <1>b, <2>1, FinishedType
  <2>3. e.what \notin touched => e.alarm <= now
    <3>1. SUFFICES ASSUME e.what \notin touched, e.alarm > now PROVE FALSE
      BY <1>a, <1>f
    <3>2. c.state \notin {"HASFINISHED", "TERMINATED"}
      BY <1>d, <3>1
    <3>3. f = c
      BY <3>2 DEF Finished, Ends
    <3> QED BY <2>1, <3>2, <3>3
  <2> HIDE DEF c, e, stops, f
  <2>4. /\ \A i \in DOMAIN events \ {id} : i \in DOMAIN t /\ t[i] = events[i]
        /\ \A i \in DOMAIN t \ DOMAIN events :
              t[i] = [AutoShutdown EXCEPT !.rep = Normalised(@)]
    BY <1>a, <2>2, UpdatedRest
  <2>5. IsTable(t)
    BY <1>a, <2>2, UpdatedType
  <2> HIDE DEF t
  <2>6. /\ DOMAIN events' = DOMAIN t \ {id}
        /\ \A i \in DOMAIN events' : events'[i] = t[i]
    BY <2>1, <2>5, RestrictType
  <2>7. \A i \in DOMAIN events' \ DOMAIN events : Sound(events'[i], now)
    BY <1>a, <2>4, <2>6, AutoShutdownSound
  <2>8. \A i \in DOMAIN events \ {id} : i \in DOMAIN events' /\ events'[i] = events[i]
    BY <2>4, <2>6
  <2>9. id \notin DOMAIN events' /\ ~(e.what \notin touched' /\ e.alarm > now)
    BY <1>a, <1>c, <1>f, <2>3, <2>6
  <2>10. /\ AllSound(Range(events'), now, touched')
         /\ Keeps(Range(events), Range(events'), now, touched')
    BY <1>a, <1>c, <2>7, <2>8, <2>9, OneChange DEF e
  <2> QED BY <1>c, <2>10, KeepTable
<1> QED BY <1>1, <1>2, <1>3

(* One event of the load: it goes from the file to the table, unless it is *)
(* of no use any more.                                                     *)
LEMMA LoadKeeps ==
  ASSUME TypeOK, TypeOK', SaveInv, KeepInv, LoadEvent
  PROVE  KeepInv'
<1> USE DEF thread, manager, box, history
<1>1. /\ tt = "load" /\ UNCHANGED <<now, tnow, tt, file, loaded, touched>>
      /\ ~loaded /\ tnow <= now /\ SoundInv
  BY DEF LoadEvent, SaveInv, KeepInv
<1>2. /\ IsTable(events) /\ IsTable(config.evs) /\ now \in Nat
      /\ Range(events) \subseteq Event /\ Range(config.evs) \subseteq Event
      /\ Range(file.evs) \subseteq Event /\ eventID \in Nat /\ DOMAIN events \subseteq 1..eventID
      /\ config = [evs |-> config.evs, extra |-> config.extra]
  BY TablesType DEF TypeOK, IsConfig
<1>3. PICK id \in DOMAIN config.evs :
        /\ config' = [config EXCEPT !.evs = Restrict(@, DOMAIN @ \ {id})]
        /\ \/ /\ Kept(config.evs[id], now)
              /\ eventID' = eventID + 1
              /\ events' = Inserted(events, eventID + 1, Restored(config.evs[id], now))
           \/ /\ ~Kept(config.evs[id], now)
              /\ UNCHANGED <<events, eventID>>
  BY DEF LoadEvent
<1> DEFINE e == config.evs[id]
           r == Restored(e, now)
<1>4. e \in Event /\ e \in Range(config.evs)
  BY <1>2 DEF IsTable, Range
<1>5. /\ r \in Event /\ r.what = e.what /\ r.alarm = e.alarm
      /\ [r EXCEPT !.rep = Normalised(@)].what = e.what
      /\ [r EXCEPT !.rep = Normalised(@)].alarm = e.alarm
  BY <1>4 DEF Restored, Event, States
<1>6. e.what \notin touched => Sound([r EXCEPT !.rep = Normalised(@)], now)
  <2>1. e.what \notin touched => Sound(e, now)
    BY <1>1, <1>4 DEF SoundInv, AllSound
  <2>2. \/ /\ [r EXCEPT !.rep = Normalised(@)].state = e.state
        \/ /\ [r EXCEPT !.rep = Normalised(@)].state = "HASFINISHED"
           /\ ~(e.alarm >= now)
    BY <1>4 DEF Restored, StillOfUse, Event
  <2>3. [r EXCEPT !.rep = Normalised(@)].stop = e.stop /\ e.alarm \in Nat
    BY <1>4 DEF Restored, Event
  <2> QED BY <1>2, <1>5, <2>1, <2>2, <2>3 DEF Sound
<1>7. ~Kept(e, now) => ~(e.alarm > now)
  <2>1. e.alarm \in Nat
    BY <1>4 DEF Event
  <2> QED BY <1>2, <2>1 DEF Kept, StillOfUse
<1>8. config'.evs = Restrict(config.evs, DOMAIN config.evs \ {id})
  BY <1>2, <1>3
<1>9. /\ Range(config'.evs) \subseteq Range(config.evs)
      /\ \A f \in Range(config.evs) : f = e \/ f \in Range(config'.evs)
  <2>1. /\ DOMAIN config'.evs = DOMAIN config.evs \ {id}
        /\ \A i \in DOMAIN config.evs \ {id} : config'.evs[i] = config.evs[i]
    BY <1>2, <1>8, RestrictType
  <2> QED BY <2>1 DEF Range
<1> HIDE DEF e, r
<1>10. /\ AllSound(Range(events'), now, touched)
       /\ Range(events) \subseteq Range(events')
       /\ e.alarm > now => \E f \in Range(events') : f.what = e.what /\ f.alarm >= e.alarm
  <2>1. CASE UNCHANGED events /\ ~Kept(e, now)
    BY <1>1, <1>7, <2>1 DEF SoundInv
  <2>2. CASE events' = Inserted(events, eventID + 1, r)
    <3>1. eventID + 1 \in Nat \ {0} /\ eventID + 1 \notin DOMAIN events
      BY <1>2
    <3>2. /\ AllSound(Range(events'), now, touched)
          /\ Range(events) \subseteq Range(events')
          /\ [r EXCEPT !.rep = Normalised(@)] \in Range(events')
      BY <1>1, <1>5, <1>6, <2>2, <3>1, OneAdded
    <3>3. e.alarm >= e.alarm
      BY <1>4 DEF Event
    <3> QED BY <1>5, <3>2, <3>3
  <2> QED BY <1>3, <2>1, <2>2 DEF e, r
<1>11. Keeps(Range(events) \cup Range(config.evs), Range(events') \cup Range(config'.evs),
             now, touched)
  <2>1. \A f \in Event : f.alarm >= f.alarm
    BY DEF Event
  <2> QED BY <1>2, <1>9, <1>10, <2>1 DEF Keeps
<1>12. Range(events') \subseteq Event /\ Range(config'.evs) \subseteq Event
  BY <1>2, <1>9, RangeOfTable DEF TypeOK
<1>13. Keeps(Range(file.evs), Range(events') \cup Range(config'.evs), now, touched)
  BY <1>1, <1>2, <1>11, <1>12, KeepsOn DEF KeepInv
<1>14. AllSound(Range(config'.evs), now, touched)
  BY <1>1, <1>9 DEF SoundInv, AllSound
<1> QED BY <1>1, <1>10, <1>13, <1>14 DEF KeepInv, SoundInv

(* saveConfig of a snapshot.                                               *)
LEMMA SaveKeeps ==
  ASSUME TypeOK, KeepInv, config.evs = events, SaveConfig, tt' # "load",
         UNCHANGED <<now, tnow, events, config, loaded, touched>>
  PROVE  /\ KeepInv'
         /\ loaded /\ saveOK' => KeepsTimers
<1>1. /\ now \in Nat /\ Range(events) \subseteq Event
      /\ Range(file.evs) \subseteq Event /\ Range(NoEvents) = {}
      /\ \A i \in DOMAIN file.evs : file.evs[i] \in Range(file.evs)
  BY TablesType, RangeOfTable
<1>2. file' \in {config, file, NoConfig} /\ (saveOK' => file' = config)
  BY DEF SaveConfig
<1>3. NoConfig.evs = NoEvents
  BY DEF NoConfig
<1>4. Range(file'.evs) \in {Range(events), Range(file.evs), {}}
  BY <1>1, <1>2, <1>3
<1>5. SoundInv'
  BY <1>4 DEF KeepInv, SoundInv, AllSound
<1>6. loaded => Keeps(Range(file'.evs), Range(events), now, touched)
  <2>1. Keeps(Range(events), Range(events), now, touched)
    BY <1>1, KeepsAll
  <2> QED BY <1>4, <2>1 DEF KeepInv, Keeps
<1>7. ASSUME loaded, saveOK', NEW id \in DOMAIN file.evs, file.evs[id].alarm > now,
             file.evs[id].what \notin touched
      PROVE  \E k \in DOMAIN file'.evs : file'.evs[k].what = file.evs[id].what
  <2>1. PICK f \in Range(events) : f.what = file.evs[id].what
    BY <1>1, <1>7 DEF KeepInv, Keeps
  <2>2. file'.evs = events
    BY <1>2, <1>7
  <2> QED BY <2>1, <2>2 DEF Range
<1> QED BY <1>5, <1>6, <1>7 DEF KeepInv, KeepsTimers

(* Every step keeps the timers to come, and a save writes them.            *)
LEMMA KeepStep ==
  ASSUME TypeOK, TypeOK', LockInv, SaveInv, KeepInv, TimersSane, [Next]_vars
  PROVE  /\ KeepInv'
         /\ [loaded /\ saveOK' => KeepsTimers]_file
<1> USE DEF thread, manager, box, history
<1>a. now \in Nat /\ tnow <= now /\ NoConfig.evs = NoEvents
  BY DEF TypeOK, KeepInv, NoConfig
<1>1. CASE ClientCommand
  <2>1. UNCHANGED file
    BY <1>1 DEF ClientCommand, AddTimer, RemoveTimer, StopTimer, EndEvent, ModifyTimer,
       SetAPid, RescheduleTimer, SetRecordingSafety, SetZaptoSafety, SetSafety, GetTimerList,
       Shutdown
  <2> QED BY <1>1, <2>1, CommandKeeps
<1>2. CASE \/ AddReturn \/ ListSent \/ ShutdownNoSave \/ ProgramWakeup \/ ShutdownBusy
           \/ ThreadCancelled \/ BeginPass \/ PassNoSave \/ Tick \/ ReadClock
           \/ EndPass \/ UNCHANGED vars
  <2>1. /\ UNCHANGED <<events, config, file, loaded, touched>> /\ now' \in {now, now + 1}
        /\ tnow' \in {tnow, now, 0} /\ (tt' = "load" => tt = "load")
    BY <1>2 DEF AddReturn, ListSent, ShutdownNoSave, ProgramWakeup, ShutdownBusy,
       ThreadCancelled, BeginPass, PassNoSave, Tick, ReadClock, EndPass, PassOver, vars
  <2>2. now' \in Nat /\ now <= now' /\ tnow' <= now'
    BY <1>a, <2>1 DEF TypeOK
  <2> QED BY <2>1, <2>2, KeepQuiet
<1>3. CASE ShutdownSave \/ ShutdownClear \/ PassSave \/ ThreadClear
  <2>1. /\ UNCHANGED <<now, tnow, events, file, loaded, touched>>
        /\ config'.evs \in {events, NoEvents} /\ tt' # "load"
    <3>1. tt # "load" => /\ UNCHANGED <<now, tnow, events, file, loaded, touched>>
                         /\ config' \in {Snapshot, NoConfig} /\ tt' # "load"
      BY <1>3 DEF ShutdownSave, ShutdownClear, PassSave, ThreadClear
    <3>2. tt # "load"
      BY <1>3 DEF ShutdownSave, ShutdownClear, PassSave, ThreadClear, SaveInv
    <3> QED BY <1>a, <3>1, <3>2 DEF Snapshot
  <2> QED BY <1>a, <2>1, KeepQuiet
<1>4. CASE ShutdownWrite \/ ThreadWrite
  <2>1. /\ config.evs = events /\ SaveConfig /\ tt' # "load"
        /\ UNCHANGED <<now, tnow, events, config, loaded, touched>>
    BY <1>4 DEF ShutdownWrite, ThreadWrite, SaveInv
  <2> QED BY <2>1, SaveKeeps
<1>5. CASE TimeSet
  <2>1. /\ UNCHANGED <<now, tnow, events, file, loaded, touched>> /\ config' = file
        /\ ~loaded
    BY <1>5 DEF TimeSet, SaveInv
  <2>2. Keeps(Range(file.evs), Range(events) \cup Range(file.evs), now, touched)
    BY TablesType, KeepsAll
  <2> QED BY <2>1, <2>2 DEF KeepInv, SoundInv
<1>6. CASE LoadEvent
  BY <1>6, LoadKeeps DEF LoadEvent
<1>7. CASE LoadDone
  <2>1. /\ UNCHANGED <<now, tnow, events, file, touched>> /\ config' = Snapshot
        /\ tt = "load" /\ tt' # "load" /\ DOMAIN config.evs = {}
    BY <1>7 DEF LoadDone
  <2>2. Range(config.evs) = {}
    BY <2>1 DEF Range
  <2>3. Keeps(Range(file.evs), Range(events) \cup {}, now, touched)
    BY <2>1, <2>2 DEF KeepInv
  <2>4. Keeps(Range(file.evs), Range(events), now, touched)
    BY <2>3 DEF Keeps
  <2> QED BY <2>1, <2>4 DEF KeepInv, SoundInv, Snapshot
<1>8. ASSUME NEW id \in DOMAIN events, Visit(id) \/ VisitLast(id) \/ VisitHangs(id)
      PROVE  /\ KeepInv'
             /\ [loaded /\ saveOK' => KeepsTimers]_file
  <2>1. UNCHANGED file
    BY <1>8 DEF Visit, VisitLast, VisitHangs, Handlers
  <2> QED BY <1>8, <2>1, VisitKeeps
<1>9. CASE PowerLoss \/ \E byTimer \in BOOLEAN : Boot(byTimer)
  <2>1. /\ UNCHANGED <<now, file, touched>> /\ tnow' = 0 /\ events' = NoEvents
        /\ config' = NoConfig /\ loaded' = FALSE /\ tt' # "load"
    BY <1>9 DEF PowerLoss, Boot, Forgotten
  <2>2. AllSound(Range(NoEvents), now, touched)
    BY TablesType DEF AllSound
  <2> QED BY <1>a, <2>1, <2>2 DEF KeepInv, SoundInv
<1> QED BY <1>1, <1>2, <1>3, <1>4, <1>5, <1>6, <1>7, <1>8, <1>9
        DEF Next, MainThread, TimerThread

(***************************************************************************)
(* Whatever commands, passes, boots and power failures come, in whatever   *)
(* order: a save that succeeds, after the load of its boot, loses no timer *)
(* that is still to come and that no client has touched                    *)
(* (timermanager.cpp:639, :692), if no client asks for a recording that    *)
(* ends before it begins.                                                  *)
(***************************************************************************)
THEOREM SavesLoseNothing ==
  ASSUME TimersSane
  PROVE  Spec => SavesKeepTimers
<1>1. Init => KeepInv
  <2> SUFFICES ASSUME Init PROVE KeepInv
    OBVIOUS
  <2>1. /\ now = 1 /\ tnow = 0 /\ events = NoEvents /\ config = NoConfig /\ ~loaded
        /\ tt # "load" /\ touched = {} /\ file \in InitialFiles
    BY DEF Init
  <2>2. Range(NoEvents) = {} /\ NoConfig.evs = NoEvents
    BY DEF Range, NoEvents, NoConfig
  <2> QED BY <2>1, <2>2 DEF KeepInv, SoundInv, AllSound, TimersSane
<1>2. Init => SaveInv
  BY DEF Init, SaveInv
<1>3. TypeOK /\ TypeOK' /\ LockInv /\ SaveInv /\ KeepInv /\ [Next]_vars
         => KeepInv' /\ [loaded /\ saveOK' => KeepsTimers]_file
  BY KeepStep
<1> QED BY <1>1, <1>2, <1>3, TypeCorrect, MutexHeld, SaveStep, PTL DEF Spec, SavesKeepTimers

-----------------------------------------------------------------------------
(* The shutdown that timerd adds by itself.                                *)

ClockInv == tnow <= now

(* A pass works with a time that has come.                                 *)
LEMMA ClockStep ==
  ASSUME TypeOK, ClockInv, [Next]_vars
  PROVE  ClockInv'
<1> USE DEF thread
<1>1. now \in Nat /\ tnow \in Nat
  BY DEF TypeOK
<1>2. now' \in {now, now + 1} /\ tnow' \in {tnow, now, 0}
  <2>1. CASE ClientCommand
    BY <2>1 DEF ClientCommand, AddTimer, RemoveTimer, StopTimer, EndEvent, ModifyTimer,
       SetAPid, RescheduleTimer, SetRecordingSafety, SetZaptoSafety, SetSafety, GetTimerList,
       Shutdown
  <2>2. CASE MainThread
    BY <2>2 DEF MainThread, AddReturn, ListSent, ShutdownSave, ShutdownNoSave, ShutdownWrite,
       ShutdownClear, ProgramWakeup, ShutdownBusy
  <2>3. CASE TimerThread
    <3>1. ASSUME NEW id \in DOMAIN events, Visit(id) \/ VisitLast(id) \/ VisitHangs(id)
          PROVE  UNCHANGED <<now, tnow>>
      BY <3>1 DEF Visit, VisitLast, VisitHangs, Handlers
    <3> QED BY <2>3, <3>1 DEF TimerThread, TimeSet, LoadEvent, LoadDone, ReadClock, BeginPass,
               EndPass, PassSave, PassNoSave, ThreadWrite, ThreadClear
  <2>4. CASE ThreadCancelled \/ Tick \/ PowerLoss \/ \E byTimer \in BOOLEAN : Boot(byTimer)
    BY <2>4 DEF ThreadCancelled, Tick, PowerLoss, Boot, Forgotten
  <2>5. CASE UNCHANGED vars
    BY <2>5 DEF vars
  <2> QED BY <2>1, <2>2, <2>3, <2>4, <2>5 DEF Next
<1> QED BY <1>1, <1>2 DEF ClockInv

(* What shutdownOnWakeup has seen when it decides on a shutdown.           *)
LEMMA DueHasTime ==
  ASSUME TypeOK, AllAnnounced(Pending(0)), NEW id \in DOMAIN events, ShutdownDue(id)
  PROVE  \A i \in Pending(0) \ {id} : events[i].announce - now > Quiet
<1> DEFINE next == NextAnnounce(Pending(id))
<1>1. /\ IsTable(events) /\ now \in Nat /\ Quiet \in Nat /\ Pending(id) \subseteq DOMAIN events
      /\ Pending(id) = Pending(0) \ {id}
  BY ConstantAssumption DEF TypeOK, Pending, IsTable
<1>2. AllAnnounced(Pending(id)) /\ \A i \in Pending(id) : events[i].announce \in Nat
  BY <1>1 DEF AllAnnounced, IsTable, Event
<1>3. /\ next \in Nat /\ (next = 0 <=> Pending(id) = {})
      /\ \A i \in Pending(id) : next <= events[i].announce
  BY <1>1, <1>2, NextOfAnnounced
<1>4. next - now > Quiet \/ next = 0
  BY DEF ShutdownDue
<1> HIDE DEF next
<1> QED BY <1>1, <1>2, <1>3, <1>4

(* A visit that stops an event changes it for good: Reschedule moves it    *)
(* away from the time at which it began.                                   *)
LEMMA StopChanges ==
  ASSUME NEW e \in Event, NEW t \in Nat, now \in Nat, t <= now, Stops(e, t)
  PROVE  LET c == Checked(e, t)
         IN  c # e /\ (~Hangs(c) => Finished(c) # e)
<1> DEFINE c == Checked(e, t)
<1>1. /\ c \in Event /\ c.state = "HASFINISHED" /\ c.rep = e.rep
      /\ e.state \notin {"HASFINISHED", "TERMINATED"}
      /\ e.state = "SCHEDULED" => e.alarm <= t
  BY CheckedType DEF Stops, Checked, Announced, Fired, Stopped, WantsAnnounce, WantsFire,
     WantsStop, Event
<1>2. e.alarm \in Nat
  BY DEF Event
<1> HIDE DEF c
<1>3. ASSUME ~Hangs(c), Repeating(c) PROVE Finished(c) # e
  <2>1. Finished(c) = Rescheduled(c, now) /\ ~NeverCatchesUp(c, now)
    BY <1>1, <1>3 DEF Finished, Ends, Hangs
  <2>2. Finished(c).state = "SCHEDULED" /\ Finished(c).alarm > now
    BY <1>1, <2>1, RescheduledLiesAhead
  <2> QED BY <1>1, <1>2, <2>2
<1>4. ASSUME ~Repeating(c) PROVE Finished(c) # e
  <2>1. Finished(c) = [c EXCEPT !.state = "TERMINATED"]
    BY <1>1, <1>4 DEF Finished, Ends
  <2>2. Finished(c).state = "TERMINATED"
    BY <1>1, <2>1 DEF Event
  <2> QED BY <1>1, <2>2
<1> QED BY <1>1, <1>3, <1>4 DEF c

LEMMA ShutdownStep ==
  ASSUME TypeOK, ClockInv, [Next]_vars, AllAnnounced(Pending(0))
  PROVE  [ShutdownHasTime]_vars
<1> USE DEF thread, manager, box, history
<1>a. /\ IsTable(events) /\ now \in Nat /\ tnow \in Nat /\ tnow <= now /\ eventID \in Nat
      /\ DOMAIN events \subseteq 1..eventID
  BY DEF TypeOK, ClockInv
<1>b. ASSUME eventID' <= eventID, eventID' \in Nat PROVE ShutdownHasTime
  <2>1. ~(eventID' > eventID)
    BY <1>a, <1>b
  <2> QED BY <2>1 DEF ShutdownHasTime
<1>c. ASSUME UNCHANGED eventID PROVE ShutdownHasTime
  BY <1>a, <1>b, <1>c
<1>d. ASSUME NEW id \in DOMAIN events, NEW stops \in BOOLEAN,
             eventID' = IF AddsShutdown(id, stops) THEN eventID + 1 ELSE eventID,
             (stops /\ id \in DOMAIN events') => events'[id] # events[id]
      PROVE  ShutdownHasTime
  <2>1. CASE AddsShutdown(id, stops)
    <3>1. stops /\ ShutdownDue(id)
      BY <2>1 DEF AddsShutdown
    <3>2. \A i \in Pending(0) \ {id} : events[i].announce - now > Quiet
      BY <3>1, DueHasTime
    <3> QED BY <1>d, <3>1, <3>2 DEF ShutdownHasTime
  <2>2. CASE ~AddsShutdown(id, stops)
    BY <1>c, <1>d, <2>2
  <2> QED BY <2>1, <2>2
<1>1. ASSUME NEW r \in AddRequests, AddTimer(r) PROVE ShutdownHasTime
  <2>1. /\ events' = Inserted(events, eventID + 1, NewEvent(r)) /\ eventID' = eventID + 1
    BY <1>1 DEF AddTimer
  <2>2. NewEvent(r) \in Event /\ NewEvent(r).what = r.what
    BY NewEventType DEF TypeOK, NewEvent
  <2>3. events'[eventID'].what = r.what
    BY <2>1, <2>2 DEF Inserted, With, Event
  <2> QED BY <2>3, TagAssumption DEF ShutdownHasTime
<1>2. ASSUME NEW id \in DOMAIN events, NEW state \in {"TERMINATED", "HASFINISHED"},
             EndEvent(id, state)
      PROVE  ShutdownHasTime
  <2> DEFINE e == [events[id] EXCEPT !.state = state]
             stops == Stoppable(events[id])
  <2>1. e \in Event /\ stops \in BOOLEAN /\ e.state = state
    BY <1>a, EventOfTable DEF Event, States, Stoppable
  <2>2. /\ events' = Updated(id, e, stops)
        /\ eventID' = IF AddsShutdown(id, stops) THEN eventID + 1 ELSE eventID
    BY <1>2 DEF EndEvent
  <2>3. stops => e # events[id]
    BY <2>1 DEF Stoppable
  <2> HIDE DEF e, stops
  <2>4. events'[id] = e
    BY <2>1, <2>2, UpdatedType
  <2> QED BY <1>d, <2>1, <2>2, <2>3, <2>4
<1>3. ASSUME NEW id \in DOMAIN events, Visit(id) \/ VisitLast(id) \/ VisitHangs(id)
      PROVE  ShutdownHasTime
  <2> DEFINE e == events[id]
             c == Checked(e, tnow)
             stops == Stops(e, tnow)
  <2>1. e \in Event /\ stops \in BOOLEAN /\ c \in Event
    BY <1>a, EventOfTable, CheckedType DEF Stops, WantsStop
  <2>2. eventID' = IF AddsShutdown(id, stops) THEN eventID + 1 ELSE eventID
    BY <1>3 DEF Visit, VisitLast, VisitHangs, Handlers
  <2>3. stops => c # e /\ (~Hangs(c) => Finished(c) # e)
    BY <1>a, <2>1, StopChanges
  <2>4. CASE Visit(id)
    <3>1. events' = Updated(id, Finished(c), stops) /\ ~Hangs(c)
      BY <2>4 DEF Visit
    <3>2. Finished(c) \in Event
      BY <1>a, <2>1, <3>1, FinishedType
    <3> HIDE DEF c, stops
    <3>3. events'[id] = Finished(c)
      BY <2>1, <3>1, <3>2, UpdatedType
    <3> QED BY <1>d, <2>1, <2>2, <2>3, <3>1, <3>3
  <2>5. CASE VisitHangs(id)
    <3>1. events' = Updated(id, c, stops)
      BY <2>5 DEF VisitHangs
    <3> HIDE DEF c, stops
    <3>2. events'[id] = c
      BY <2>1, <3>1, UpdatedType
    <3> QED BY <1>d, <2>1, <2>2, <2>3, <3>2
  <2>6. CASE VisitLast(id)
    <3> DEFINE t == Updated(id, Finished(c), stops)
    <3>1. events' = Restrict(t, DOMAIN t \ {id})
      BY <2>6 DEF VisitLast
    <3> HIDE DEF c, stops, t
    <3>2. id \notin DOMAIN events'
      BY <3>1 DEF Restrict
    <3> QED BY <1>d, <2>1, <2>2, <3>2
  <2> QED BY <1>3, <2>4, <2>5, <2>6
<1>4. CASE ClientCommand
  <2>1. CASE \/ \E id \in DOMAIN events, r \in ModifyRequests : ModifyTimer(id, r)
             \/ \E id \in DOMAIN events, x \in Apids : SetAPid(id, x)
             \/ \E id \in DOMAIN events : RescheduleTimer(id)
             \/ \E x \in Extras : SetRecordingSafety(x)
             \/ \E x \in Extras : SetZaptoSafety(x)
             \/ GetTimerList \/ Shutdown
    BY <2>1, <1>c DEF ModifyTimer, SetAPid, RescheduleTimer, SetRecordingSafety,
       SetZaptoSafety, SetSafety, GetTimerList, Shutdown
  <2> QED BY <1>1, <1>2, <1>4, <2>1 DEF ClientCommand, RemoveTimer, StopTimer
<1>5. CASE MainThread
  BY <1>5, <1>c DEF MainThread, AddReturn, ListSent, ShutdownSave, ShutdownNoSave,
     ShutdownWrite, ShutdownClear, ProgramWakeup, ShutdownBusy
<1>6. CASE TimerThread
  <2>1. CASE LoadEvent
    BY <2>1 DEF LoadEvent, ShutdownHasTime
  <2>2. CASE \/ TimeSet \/ LoadDone \/ ReadClock \/ BeginPass \/ EndPass \/ PassSave
             \/ PassNoSave \/ ThreadWrite \/ ThreadClear
    BY <2>2, <1>c DEF TimeSet, LoadDone, ReadClock, BeginPass, EndPass, PassSave, PassNoSave,
       ThreadWrite, ThreadClear
  <2> QED BY <1>3, <1>6, <2>1, <2>2 DEF TimerThread
<1>7. CASE ThreadCancelled \/ Tick
  BY <1>7, <1>c DEF ThreadCancelled, Tick
<1>8. CASE PowerLoss \/ \E byTimer \in BOOLEAN : Boot(byTimer)
  <2>1. eventID' = 0
    BY <1>8 DEF PowerLoss, Boot, Forgotten
  <2> QED BY <1>a, <1>b, <2>1
<1> QED BY <1>4, <1>5, <1>6, <1>7, <1>8 DEF Next

(***************************************************************************)
(* shutdownOnWakeup (timermanager.cpp:789) adds a shutdown event only if   *)
(* every other recording and zap, due or running, has more than ten        *)
(* minutes to its announcement: in every step before which each of these   *)
(* has an announcement at all.  An immediate recording has none; that it   *)
(* is shut down upon is a finding.                                         *)
(***************************************************************************)
THEOREM ShutdownLeavesTime ==
  Spec => [][AllAnnounced(Pending(0)) => ShutdownHasTime]_vars
<1>1. Init => ClockInv
  BY DEF Init, ClockInv
<1>2. TypeOK /\ ClockInv /\ [Next]_vars
        => ClockInv' /\ [AllAnnounced(Pending(0)) => ShutdownHasTime]_vars
  BY ClockStep, ShutdownStep
<1> QED BY <1>1, <1>2, TypeCorrect, PTL DEF Spec

(***************************************************************************)
(* As long as every recording and zap that is due or running has an        *)
(* announcement, timerd never shuts the box down on one of them or within  *)
(* ten minutes of one.                                                     *)
(***************************************************************************)
THEOREM NoShutdownWhenAnnounced ==
  Spec /\ []AllAnnounced(Pending(0)) => NoShutdownDuringRecording
<1>1. AllAnnounced(Pending(0)) /\ [AllAnnounced(Pending(0)) => ShutdownHasTime]_vars
        => [ShutdownHasTime]_vars
  OBVIOUS
<1> QED BY <1>1, ShutdownLeavesTime, PTL DEF NoShutdownDuringRecording

=============================================================================
