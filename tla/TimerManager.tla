---------------------------- MODULE TimerManager ----------------------------
(***************************************************************************)
(* timerd: the timer thread and the command (main) thread of CTimerManager,*)
(* the mutex tm_eventsMutex between them, timerd.conf, and the box around  *)
(* them, which is shut down, loses power and boots again.                  *)
(*                                                                         *)
(* A step is what one thread does between two points where the other       *)
(* thread, the clock or a power failure can be seen to interfere.          *)
(***************************************************************************)
EXTENDS TimerEvent, FiniteSetsExt

CONSTANTS
  AddRequests,       \* bodies of CMD_ADDTIMER
  ModifyRequests,    \* bodies of CMD_MODIFYTIMER
  Extras,            \* safety margins [pre, post, zap]
  InitialFiles,      \* possible contents of timerd.conf at the first boot
  AutoWhat,          \* tag of the shutdown event timerd adds by itself
  NoApids,           \* the audio PIDs of an event that asks for none
  Quiet,             \* the ten minutes of shutdownOnWakeup
  AutoAnnounce,      \* announcement of its shutdown event, two minutes ahead
  AutoAlarm,         \* alarm of its shutdown event, three minutes ahead
  Lead,              \* how long before the announcement the box is woken
  SaveMayFail,       \* the flash may be full or not writable
  MaxTime,           \* bound on the clock
  MaxCmds,           \* bound on the commands of one boot
  MaxBoots           \* bound on the boots

IsTable(t) == DOMAIN t \subseteq Nat \ {0} /\ t \in [DOMAIN t -> Event]

AddRequest ==
  [type : (Types \ {"NEXTPROGRAM"}) \cup {"IMMEDIATE_RECORD"}, rep : Repeats,
   count : Nat, announce : Nat, alarm : Nat, stop : Nat, what : What,
   apids : Apids, safety : BOOLEAN]

ModifyRequest ==
  [rep : Repeats, count : Nat, announce : Nat, alarm : Nat, stop : Nat]

(* Clients send points in time, which no safety margin brings below 0.     *)
Extra ==
  {x \in [pre : Nat, post : Nat, zap : Nat] :
     \A r \in AddRequests : r.safety =>
       \A m \in {x.pre, x.zap} : m <= r.announce /\ m <= r.alarm}

IsConfig(c) ==
  c = [evs |-> c.evs, extra |-> c.extra] /\ IsTable(c.evs) /\ c.extra \in Extra

ASSUME RequestAssumption ==
  /\ AddRequests \subseteq AddRequest
  /\ ModifyRequests \subseteq ModifyRequest
  /\ Extras \subseteq Extra
  /\ \A f \in InitialFiles : IsConfig(f)

ASSUME ConstantAssumption ==
  /\ AutoWhat \in What /\ NoApids \in Apids
  /\ {Quiet, AutoAnnounce, AutoAlarm, Lead, MaxTime, MaxCmds, MaxBoots} \subseteq Nat
  /\ 0 < AutoAnnounce /\ AutoAnnounce < AutoAlarm /\ AutoAlarm < Quiet
  /\ SaveMayFail \in BOOLEAN

(* The tag tells the shutdown events of timerd from those of clients.      *)
ASSUME TagAssumption == \A r \in AddRequests : r.what # AutoWhat

VARIABLES
  now,         \* time(NULL)
  events,      \* CTimerManager::events, event id -> event
  eventID,     \* CTimerManager::eventID, the last id given out
  saveEvents,  \* CTimerManager::m_saveEvents
  wakeup,      \* CTimerManager::timer_wakeup
  extra,       \* m_extraTimeStart, m_extraTimeEnd, m_zaptoExtraTimeStart
  mutex,       \* holder of tm_eventsMutex: "free", "timer" or "main"
  tt,          \* where the timer thread is
  tnow,        \* timerThread: now
  pos,         \* timerThread: the event of its last visit, 0 before the first
  erased,      \* timerThread: an event was erased in this pass
  config,      \* the CConfigFile being loaded from or written out
  mt,          \* where the main thread is
  added,       \* addEvent: the id it gave to the event it inserted
  file,        \* timerd.conf
  wakeTimer,   \* front processor: when to switch the box on, 0 for never
  cmds, boots, \* commands of this boot and boots so far, both bounded
  loaded,      \* history: the saved events of this boot are in the table
  saveOK,      \* history: the last save stored what it was given
  recOn,       \* history: recordings started to be stopped, and not stopped yet
  adrift,      \* history: those of them that a command has left without a stop
  offAt,       \* history: when the wake-up was programmed, 0 if it was not
  touched      \* history: tags of the events a client removed, stopped, modified

thread  == <<tt, tnow, pos, erased>>
manager == <<events, eventID, saveEvents, wakeup, extra>>
box     == <<file, wakeTimer, boots>>
history == <<loaded, saveOK, recOn, adrift, offAt, touched>>
vars    == <<now, manager, mutex, thread, config, mt, added, box, cmds, history>>

NoEvents == [id \in {} |-> id]
NoConfig == [evs |-> NoEvents, extra |-> [pre |-> 0, post |-> 0, zap |-> 0]]

Serving == mt \in {"accept", "addret", "list"}
Down    == mt \in {"off", "lost"}

(* Points where a pthread_cancel takes effect: cancellation is disabled    *)
(* during a pass and its save, and the loop of the load has no such point. *)
CancelPoints == {"checktime", "loadwrite", "loadclear", "sleep"}

ThreadStates == CancelPoints \cup
  {"load", "ready", "lock", "pass", "saveq", "write", "clear", "hung", "dead"}

MainStates == {"accept", "addret", "list", "join", "write", "clear", "program", "off", "lost"}

(***************************************************************************)
(* Every variable holds a value of its kind, and no event has an id that   *)
(* was not given out yet.                                                  *)
(***************************************************************************)
TypeOK ==
  /\ now \in Nat /\ tnow \in Nat /\ pos \in Nat /\ added \in Nat
  /\ wakeTimer \in Nat /\ cmds \in Nat /\ boots \in Nat /\ eventID \in Nat
  /\ IsTable(events) /\ DOMAIN events \subseteq 1..eventID
  /\ IsConfig(config) /\ IsConfig(file)
  /\ extra \in Extra
  /\ saveEvents \in BOOLEAN /\ wakeup \in BOOLEAN /\ erased \in BOOLEAN
  /\ loaded \in BOOLEAN /\ saveOK \in BOOLEAN
  /\ mutex \in {"free", "timer", "main"}
  /\ tt \in ThreadStates /\ mt \in MainStates
  /\ recOn \subseteq Nat /\ adrift \subseteq Nat /\ offAt \in Nat
  /\ touched \subseteq What

-----------------------------------------------------------------------------
(* Operations on the table.                                                *)

With(evs, id, e) == [i \in DOMAIN evs \cup {id} |-> IF i = id THEN e ELSE evs[i]]

Snapshot == [evs |-> events, extra |-> extra]

(* The event built from the body of CMD_ADDTIMER: a safety margin widens a *)
(* recording and brings forward a zap, an immediate recording runs at once,*)
(* and only recordings have a stop time and audio PIDs.                    *)
NewEvent(r) ==
  LET records == r.type \in {"RECORD", "IMMEDIATE_RECORD"}
      pre  == IF ~r.safety THEN 0
              ELSE IF r.type = "RECORD" THEN extra.pre
              ELSE IF r.type = "ZAPTO" THEN extra.zap ELSE 0
      post == IF r.safety /\ r.type = "RECORD" THEN extra.post ELSE 0
  IN  [type     |-> IF records THEN "RECORD" ELSE r.type,
       state    |-> IF r.type = "IMMEDIATE_RECORD" THEN "ISRUNNING" ELSE "SCHEDULED",
       rep      |-> r.rep,
       count    |-> r.count,
       announce |-> r.announce - pre,
       alarm    |-> r.alarm - pre,
       stop     |-> IF records THEN r.stop + post ELSE 0,
       what     |-> r.what,
       apids    |-> IF records THEN r.apids ELSE NoApids]

(* CTimerManager::addEvent on the table. *)
Inserted(evs, id, e) == With(evs, id, [e EXCEPT !.rep = Normalised(@)])

AutoShutdown ==
  [type |-> "SHUTDOWN", state |-> "SCHEDULED", rep |-> "ONCE", count |-> 1,
   announce |-> now + AutoAnnounce, alarm |-> now + AutoAlarm, stop |-> 0,
   what |-> AutoWhat, apids |-> NoApids]

WakesTheBox(e) == e.type \in {"RECORD", "ZAPTO"}

(* The recordings and zaps other than cur that are due or running.         *)
Pending(cur) ==
  {i \in DOMAIN events \ {cur} :
     WakesTheBox(events[i]) /\ events[i].state \in {"SCHEDULED", "PREANNOUNCE", "ISRUNNING"}}

(* Mutant of NextAnnounce: the last announcement instead of the next.      *)
LastAnnounce(S) ==
  IF S = {} THEN 0 ELSE Max({events[i].announce : i \in S})

(***************************************************************************)
(* The loop "if (announceTime < next || next == 0) next = announceTime"    *)
(* over the events of S in the order of their ids: an event without        *)
(* announcement makes the loop forget the ones before it.                  *)
(***************************************************************************)
NextAnnounce(S) ==
  LET zeros == {i \in S : events[i].announce = 0}
      after == {i \in S : \A z \in zeros : z < i}
  IN  IF after = {} THEN 0 ELSE Min({events[i].announce : i \in after})

(* Mutant of ShutdownDue: off by one at the end of the ten minutes.        *)
ShutdownDueEarly(cur) ==
  LET next == NextAnnounce(Pending(cur))
  IN  wakeup /\ (next - now >= Quiet \/ next = 0)

(* shutdownOnWakeup(cur) decides to add a shutdown event.                  *)
ShutdownDue(cur) ==
  LET next == NextAnnounce(Pending(cur))
  IN  wakeup /\ (next - now > Quiet \/ next = 0)

(* Event id becomes e; if its handler stopEvent ran for a recording, the   *)
(* handler also called shutdownOnWakeup.                                   *)
AddsShutdown(id, stops) == stops /\ events[id].type = "RECORD" /\ ShutdownDue(id)

Updated(id, e, stops) ==
  IF AddsShutdown(id, stops)
  THEN Inserted(With(events, id, e), eventID + 1, AutoShutdown)
  ELSE With(events, id, e)

(* A running event with a stop time: removeEvent and stopEvent stop it.    *)
Stoppable(e) == e.state = "ISRUNNING" /\ e.stop > 0

-----------------------------------------------------------------------------
(* The main thread: the commands of parse_command.                         *)

Command == mt = "accept" /\ cmds < MaxCmds /\ cmds' = cmds + 1

(* Commands take the mutex, and only the unlocked ones may run while the   *)
(* timer thread has it.                                                    *)
Locked == mutex = "free" /\ UNCHANGED mutex

AddTimer(r) ==
  /\ Command /\ Locked
  /\ LET id == eventID + 1
         e  == NewEvent(r)
     IN  /\ events' = Inserted(events, id, e)
         /\ eventID' = id
         /\ added' = id
         /\ recOn' = IF Stoppable(e) THEN recOn \cup {id} ELSE recOn
  /\ saveEvents' = TRUE
  /\ mt' = "addret"
  /\ UNCHANGED <<now, wakeup, extra, thread, config, box, loaded, saveOK, adrift, offAt,
                 touched>>

(* addEvent reads eventID again after it has unlocked the mutex; what it   *)
(* reads is the answer to the client.                                      *)
AddReturn ==
  /\ mt = "addret"
  /\ mt' = "accept"
  /\ added' = 0
  /\ UNCHANGED <<now, manager, mutex, thread, config, box, cmds, history>>

(* removeEvent and stopEvent, which differ in the state they set.  Neither *)
(* asks for a save: the timer thread is to do the rest.                    *)
EndEvent(id, state) ==
  /\ Command /\ Locked
  /\ LET e     == events[id]
         stops == Stoppable(e)
     IN  /\ events' = Updated(id, [e EXCEPT !.state = state], stops)
         /\ eventID' = IF AddsShutdown(id, stops) THEN eventID + 1 ELSE eventID
         /\ saveEvents' = (saveEvents \/ AddsShutdown(id, stops))
         /\ recOn' = IF stops THEN recOn \ {id} ELSE recOn
         /\ adrift' = IF stops THEN adrift \ {id} ELSE adrift
         /\ touched' = touched \cup {e.what}
  /\ UNCHANGED <<now, wakeup, extra, thread, config, mt, added, box, loaded, saveOK, offAt>>

RemoveTimer(id) == EndEvent(id, "TERMINATED")

StopTimer(id) == EndEvent(id, "HASFINISHED")

(* modifyEvent with new times and repetition.  A running recording whose   *)
(* stop time is taken away goes on, and no RECORD_STOP is to come.         *)
ModifyTimer(id, r) ==
  /\ Command /\ Locked
  /\ events' = [events EXCEPT ![id] = Modified(@, r)]
  /\ saveEvents' = TRUE
  /\ adrift' = IF r.stop = 0 THEN adrift \cup (recOn \cap {id}) ELSE adrift
  /\ touched' = touched \cup {events[id].what}
  /\ UNCHANGED <<now, eventID, wakeup, extra, thread, config, mt, added, box,
                 loaded, saveOK, recOn, offAt>>

(* modifyEvent with new audio PIDs, for recordings and zaps only.          *)
SetAPid(id, apids) ==
  /\ Command /\ Locked
  /\ WakesTheBox(events[id])
  /\ events' = [events EXCEPT ![id].apids = apids]
  /\ saveEvents' = TRUE
  /\ UNCHANGED <<now, eventID, wakeup, extra, thread, config, mt, added, box, history>>

(* Mutant of RescheduleTimer: m_saveEvents is not set.                     *)
RescheduleUnsaved(id) ==
  /\ Command /\ Locked
  /\ Repeating(events[id])
  /\ events' = [events EXCEPT ![id] = ForcedOn(@)]
  /\ adrift' = adrift \cup (recOn \cap {id})
  /\ UNCHANGED <<now, eventID, saveEvents, wakeup, extra, thread, config, mt, added, box,
                 loaded, saveOK, recOn, offAt, touched>>

(* rescheduleEvent: one period on, whatever the event is doing.  A running *)
(* recording goes on, and its event is scheduled again without a           *)
(* RECORD_STOP.                                                            *)
RescheduleTimer(id) ==
  /\ Command /\ Locked
  /\ Repeating(events[id])
  /\ events' = [events EXCEPT ![id] = ForcedOn(@)]
  /\ saveEvents' = TRUE
  /\ adrift' = adrift \cup (recOn \cap {id})
  /\ UNCHANGED <<now, eventID, wakeup, extra, thread, config, mt, added, box,
                 loaded, saveOK, recOn, offAt, touched>>

(* The setters of the safety margins do not take the mutex.                *)
SetSafety(x) ==
  /\ Command
  /\ extra' = x
  /\ saveEvents' = TRUE
  /\ UNCHANGED <<now, events, eventID, wakeup, mutex, thread, config, mt, added,
                 box, history>>

SetRecordingSafety(x) == SetSafety([extra EXCEPT !.pre = x.pre, !.post = x.post])

SetZaptoSafety(x) == SetSafety([extra EXCEPT !.zap = x.zap])

(* CMD_GETTIMERLIST answers the client with the mutex held.                *)
GetTimerList ==
  /\ Command
  /\ mutex = "free"
  /\ mutex' = "main"
  /\ mt' = "list"
  /\ UNCHANGED <<now, manager, thread, config, added, box, history>>

ListSent ==
  /\ mt = "list"
  /\ mutex' = "free"
  /\ mt' = "accept"
  /\ UNCHANGED <<now, manager, thread, config, added, box, cmds, history>>

-----------------------------------------------------------------------------
(* CTimerManager::shutdown, by CMD_SHUTDOWN or a signal.                   *)

Shutdown ==
  /\ Command
  /\ mt' = "join"
  /\ UNCHANGED <<now, manager, mutex, thread, config, added, box, history>>

(* The timer thread ends at a cancellation point; a mutex it holds there   *)
(* stays locked.                                                           *)
ThreadCancelled ==
  /\ mt = "join"
  /\ tt \in CancelPoints
  /\ tt' = "dead"
  /\ UNCHANGED <<now, manager, mutex, tnow, pos, erased, config, mt, added, box,
                 cmds, history>>

ShutdownSave ==
  /\ mt = "join" /\ tt = "dead"
  /\ saveEvents
  /\ mutex = "free"
  /\ mutex' = "main"
  /\ config' = Snapshot
  /\ mt' = "write"
  /\ UNCHANGED <<now, manager, thread, added, box, cmds, history>>

ShutdownNoSave ==
  /\ mt = "join" /\ tt = "dead"
  /\ ~saveEvents
  /\ mt' = "program"
  /\ UNCHANGED <<now, manager, mutex, thread, config, added, box, cmds, history>>

(***************************************************************************)
(* CConfigFile::saveConfig: the new file is written aside and renamed, so  *)
(* timerd.conf changes at once.  If the file cannot be opened nothing      *)
(* changes; if it cannot be filled, what was written replaces the old      *)
(* contents all the same (here: nothing of the table).                     *)
(***************************************************************************)
SaveConfig ==
  \/ /\ file' = config
     /\ saveOK' = TRUE
  \/ /\ SaveMayFail
     /\ file' \in {file, NoConfig}
     /\ saveOK' = FALSE

ShutdownWrite ==
  /\ mt = "write"
  /\ SaveConfig
  /\ mt' = "clear"
  /\ UNCHANGED <<now, manager, mutex, thread, config, added, wakeTimer, boots, cmds,
                 loaded, recOn, adrift, offAt, touched>>

ShutdownClear ==
  /\ mt = "clear"
  /\ saveEvents' = FALSE
  /\ mutex' = "free"
  /\ config' = NoConfig
  /\ mt' = "program"
  /\ UNCHANGED <<now, events, eventID, wakeup, extra, thread, added, box, cmds, history>>

(* The box is woken for scheduled recordings and zaps only.                *)
Scheduled == {i \in DOMAIN events : WakesTheBox(events[i]) /\ events[i].state = "SCHEDULED"}

ProgramWakeup ==
  /\ mt = "program"
  /\ mutex = "free"
  /\ LET next == NextAnnounce(Scheduled)
     IN  wakeTimer' = IF next = 0 THEN 0 ELSE Max({next - Lead, now + 1})
  /\ mt' = "off"
  /\ offAt' = now
  /\ UNCHANGED <<now, manager, mutex, thread, config, added, file, boots, cmds, loaded,
                 saveOK, recOn, adrift, touched>>

(* trylock fails: the thread died with the mutex.                          *)
ShutdownBusy ==
  /\ mt = "program"
  /\ mutex # "free"
  /\ mt' = "off"
  /\ UNCHANGED <<now, manager, mutex, thread, config, added, box, cmds, history>>

-----------------------------------------------------------------------------
(* The timer thread.                                                       *)

(* sectionsd says the time is set: loadEventsFromConfig reads the file,    *)
(* unless the thread is to be cancelled.                                   *)
TimeSet ==
  /\ tt = "checktime" /\ mt # "join"
  /\ tt' = "load"
  /\ config' = file
  /\ UNCHANGED <<now, manager, mutex, tnow, pos, erased, mt, added, box, cmds, history>>

(* One saved event, in the order of the ids.  A kept one goes through      *)
(* addEvent, under the mutex and with a new id.                            *)
LoadEvent ==
  /\ tt = "load"
  /\ \E id \in DOMAIN config.evs :
       /\ \A k \in DOMAIN config.evs : id <= k
       /\ config' = [config EXCEPT !.evs = Restrict(@, DOMAIN @ \ {id})]
       /\ \/ /\ Kept(config.evs[id], now)
             /\ mutex = "free"
             /\ eventID' = eventID + 1
             /\ events' = Inserted(events, eventID + 1, Restored(config.evs[id], now))
          \/ /\ ~Kept(config.evs[id], now)
             /\ UNCHANGED <<events, eventID>>
  /\ UNCHANGED <<now, saveEvents, wakeup, extra, mutex, thread, mt, added, box, cmds,
                 history>>

(* The end of the load saves the table whatever m_saveEvents says.         *)
LoadDone ==
  /\ tt = "load"
  /\ DOMAIN config.evs = {}
  /\ mutex = "free"
  /\ mutex' = "timer"
  /\ config' = Snapshot
  /\ tt' = "loadwrite"
  /\ loaded' = TRUE
  /\ UNCHANGED <<now, manager, tnow, pos, erased, mt, added, box, cmds, saveOK, recOn,
                 adrift, offAt, touched>>

(* The time of a pass is read before the mutex is taken.  The wait of the  *)
(* sleep may end at any time, as condition variables wake up spuriously,   *)
(* except that a thread to be cancelled does not come out of it.           *)
ReadClock ==
  /\ tt = "ready" \/ (tt = "sleep" /\ mt # "join")
  /\ tnow' = now
  /\ tt' = "lock"
  /\ UNCHANGED <<now, manager, mutex, pos, erased, config, mt, added, box, cmds, history>>

BeginPass ==
  /\ tt = "lock"
  /\ mutex = "free"
  /\ mutex' = "timer"
  /\ tt' = "pass"
  /\ pos' = 0
  /\ erased' = FALSE
  /\ UNCHANGED <<now, manager, tnow, config, mt, added, box, cmds, history>>

(* The event the iterator of the pass comes to next.                       *)
Comes(id) == id > pos /\ \A k \in DOMAIN events : k > pos => id <= k

(* Announce, fire and stop, in this order, what is due at the time t.      *)
Checked(e, t) == Stopped(Fired(Announced(e, t), t), t)

Fires(e, t) == WantsFire(Announced(e, t), t)

Stops(e, t) == WantsStop(Fired(Announced(e, t), t), t)

Ends(e) == e.state = "HASFINISHED"

(* What becomes of an event after Checked, when Reschedule comes to an end.*)
Finished(e) ==
  IF ~Ends(e) THEN e
  ELSE IF Repeating(e) THEN Rescheduled(e, now)
  ELSE [e EXCEPT !.state = "TERMINATED"]

(* Reschedule is called on e and does not come to an end.                  *)
Hangs(e) == Ends(e) /\ Repeating(e) /\ NeverCatchesUp(e, now)

(* What the handlers of one visit tell the clients and remember; a visit   *)
(* that has done with an occurrence asks for a save as well.               *)
Handlers(id, done) ==
  LET e     == events[id]
      fires == Fires(e, tnow)
      stops == Stops(e, tnow)
      starts == fires /\ e.type = "RECORD" /\ e.stop > 0 /\ ~stops
  IN  /\ eventID' = IF AddsShutdown(id, stops) THEN eventID + 1 ELSE eventID
      /\ wakeup' = (wakeup /\ ~(fires /\ e.type = "ZAPTO"))
      /\ recOn' = IF stops THEN recOn \ {id}
                  ELSE IF starts THEN recOn \cup {id} ELSE recOn
      /\ adrift' = IF stops \/ starts THEN adrift \ {id} ELSE adrift
      /\ saveEvents' = (saveEvents \/ Checked(e, tnow) # e \/ done)
      /\ UNCHANGED <<now, extra, mutex, tnow, config, mt, added, box, cmds, loaded,
                     saveOK, offAt, touched>>

(* One turn of the loop over the events, for an event that stays.          *)
Visit(id) ==
  LET e == Checked(events[id], tnow)
  IN  /\ tt = "pass" /\ Comes(id)
      /\ ~Hangs(e) /\ Finished(e).state # "TERMINATED"
      /\ events' = Updated(id, Finished(e), Stops(events[id], tnow))
      /\ pos' = id
      /\ Handlers(id, Ends(e))
      /\ UNCHANGED <<tt, erased>>

(* One turn for an event that is erased.  The loop then increments the     *)
(* iterator of the erased element: it may come to any event or to the end. *)
VisitLast(id) ==
  LET e == Checked(events[id], tnow)
      t == Updated(id, Finished(e), Stops(events[id], tnow))
  IN  /\ tt = "pass" /\ Comes(id)
      /\ ~Hangs(e) /\ Finished(e).state = "TERMINATED"
      /\ Handlers(id, TRUE)
      /\ events' = Restrict(t, DOMAIN t \ {id})
      /\ pos' \in 0..eventID'
      /\ erased' = TRUE
      /\ UNCHANGED tt

(* One turn that never comes out of Reschedule, with the mutex held.       *)
VisitHangs(id) ==
  LET e == Checked(events[id], tnow)
  IN  /\ tt = "pass" /\ Comes(id)
      /\ Hangs(e)
      /\ events' = Updated(id, e, Stops(events[id], tnow))
      /\ tt' = "hung"
      /\ pos' = id
      /\ Handlers(id, FALSE)
      /\ UNCHANGED erased

PassOver == tt = "pass" /\ \A id \in DOMAIN events : id <= pos

(* Mutant of EndPass: the mutex is not unlocked.                           *)
EndPassLocked ==
  /\ PassOver
  /\ tt' = "saveq"
  /\ tnow' = 0 /\ pos' = 0 /\ erased' = FALSE
  /\ UNCHANGED <<now, manager, mutex, config, mt, added, box, cmds, history>>

EndPass ==
  /\ PassOver
  /\ mutex' = "free"
  /\ tt' = "saveq"
  /\ tnow' = 0 /\ pos' = 0 /\ erased' = FALSE
  /\ UNCHANGED <<now, manager, config, mt, added, box, cmds, history>>

PassSave ==
  /\ tt = "saveq"
  /\ saveEvents
  /\ mutex = "free"
  /\ mutex' = "timer"
  /\ config' = Snapshot
  /\ tt' = "write"
  /\ UNCHANGED <<now, manager, tnow, pos, erased, mt, added, box, cmds, history>>

PassNoSave ==
  /\ tt = "saveq"
  /\ ~saveEvents
  /\ tt' = "sleep"
  /\ UNCHANGED <<now, manager, mutex, tnow, pos, erased, config, mt, added, box, cmds,
                 history>>

ThreadWrite ==
  /\ tt \in {"write", "loadwrite"}
  /\ SaveConfig
  /\ tt' = IF tt = "write" THEN "clear" ELSE "loadclear"
  /\ UNCHANGED <<now, manager, mutex, tnow, pos, erased, config, mt, added, wakeTimer,
                 boots, cmds, loaded, recOn, adrift, offAt, touched>>

(* Mutant of ThreadClear: the mutex is not unlocked.                       *)
ThreadClearLocked ==
  /\ tt \in {"clear", "loadclear"}
  /\ saveEvents' = FALSE
  /\ config' = NoConfig
  /\ tt' = IF tt = "clear" THEN "sleep" ELSE "ready"
  /\ UNCHANGED <<now, events, eventID, wakeup, extra, mutex, tnow, pos, erased, mt, added,
                 box, cmds, history>>

ThreadClear ==
  /\ tt \in {"clear", "loadclear"}
  /\ saveEvents' = FALSE
  /\ mutex' = "free"
  /\ config' = NoConfig
  /\ tt' = IF tt = "clear" THEN "sleep" ELSE "ready"
  /\ UNCHANGED <<now, events, eventID, wakeup, extra, tnow, pos, erased, mt, added, box,
                 cmds, history>>

-----------------------------------------------------------------------------
(* The box.                                                                *)

Tick ==
  /\ now < MaxTime
  /\ now' = now + 1
  /\ UNCHANGED <<manager, mutex, thread, config, mt, added, box, cmds, history>>

(* What a process that has just started, or none at all, has in memory.    *)
Forgotten ==
  /\ events' = NoEvents /\ eventID' = 0 /\ saveEvents' = FALSE
  /\ mutex' = "free" /\ config' = NoConfig /\ added' = 0
  /\ tnow' = 0 /\ pos' = 0 /\ erased' = FALSE
  /\ loaded' = FALSE /\ recOn' = {} /\ adrift' = {} /\ offAt' = 0 /\ cmds' = 0

PowerLoss ==
  /\ ~Down
  /\ mt' = "lost" /\ tt' = "dead"
  /\ wakeTimer' = 0
  /\ Forgotten
  /\ UNCHANGED <<now, wakeup, extra, file, boots, saveOK, touched>>

(* The constructor of CTimerManager: the margins are read from the file,   *)
(* the front processor says whether its timer switched the box on.         *)
Boot(byTimer) ==
  /\ Down /\ boots < MaxBoots
  /\ byTimer => wakeTimer # 0 /\ wakeTimer <= now
  /\ boots' = boots + 1
  /\ mt' = "accept" /\ tt' = "checktime"
  /\ wakeup' = byTimer
  /\ wakeTimer' = 0
  /\ extra' = file.extra
  /\ Forgotten
  /\ UNCHANGED <<now, file, saveOK, touched>>

-----------------------------------------------------------------------------
Init ==
  /\ now = 1
  /\ file \in InitialFiles
  /\ events = NoEvents /\ eventID = 0 /\ saveEvents = FALSE
  /\ wakeup = FALSE /\ extra = file.extra
  /\ mutex = "free" /\ config = NoConfig /\ added = 0
  /\ tt = "checktime" /\ tnow = 0 /\ pos = 0 /\ erased = FALSE
  /\ mt = "accept" /\ wakeTimer = 0
  /\ cmds = 0 /\ boots = 1
  /\ loaded = FALSE /\ saveOK = TRUE /\ recOn = {} /\ adrift = {} /\ offAt = 0
  /\ touched = {}

ClientCommand ==
  \/ \E r \in AddRequests : AddTimer(r)
  \/ \E id \in DOMAIN events : RemoveTimer(id)
  \/ \E id \in DOMAIN events : StopTimer(id)
  \/ \E id \in DOMAIN events, r \in ModifyRequests : ModifyTimer(id, r)
  \/ \E id \in DOMAIN events, a \in Apids : SetAPid(id, a)
  \/ \E id \in DOMAIN events : RescheduleTimer(id)
  \/ \E x \in Extras : SetRecordingSafety(x)
  \/ \E x \in Extras : SetZaptoSafety(x)
  \/ GetTimerList
  \/ Shutdown

MainThread ==
  \/ AddReturn \/ ListSent
  \/ ShutdownSave \/ ShutdownNoSave \/ ShutdownWrite \/ ShutdownClear
  \/ ProgramWakeup \/ ShutdownBusy

TimerThread ==
  \/ TimeSet \/ LoadEvent \/ LoadDone
  \/ ReadClock \/ BeginPass
  \/ \E id \in DOMAIN events : Visit(id)
  \/ \E id \in DOMAIN events : VisitLast(id)
  \/ \E id \in DOMAIN events : VisitHangs(id)
  \/ EndPass \/ PassSave \/ PassNoSave \/ ThreadWrite \/ ThreadClear

Next ==
  \/ ClientCommand \/ MainThread \/ TimerThread \/ ThreadCancelled
  \/ Tick \/ PowerLoss \/ \E byTimer \in BOOLEAN : Boot(byTimer)

Spec == Init /\ [][Next]_vars

(***************************************************************************)
(* The threads are scheduled, the clock runs and sectionsd learns the time *)
(* sooner or later.  Clients and power failures are free to come or not.   *)
(***************************************************************************)
Fairness ==
  /\ WF_vars(MainThread) /\ WF_vars(TimerThread) /\ WF_vars(ThreadCancelled)
  /\ WF_vars(Tick)

FairSpec == Spec /\ Fairness

-----------------------------------------------------------------------------
(* Properties.                                                             *)

(* The saved table is the table, up to the ends a client has ordered and   *)
(* the timer thread has not seen yet.                                      *)
SameTimers(saved, evs) ==
  /\ DOMAIN saved = DOMAIN evs
  /\ \A id \in DOMAIN evs :
       \/ saved[id] = evs[id]
       \/ /\ evs[id].state \in {"HASFINISHED", "TERMINATED"}
          /\ evs[id] = [saved[id] EXCEPT !.state = evs[id].state]

(***************************************************************************)
(* m_saveEvents never forgets a change: whenever the mutex is free and     *)
(* m_saveEvents is FALSE, timerd.conf holds the table, although the flag   *)
(* is set and cleared by two threads around saveEventsToConfig, the load   *)
(* adds events without setting it and removeEvent does not set it either.  *)
(***************************************************************************)
CleanMeansSaved ==
  loaded /\ saveOK /\ mutex = "free" /\ ~saveEvents => SameTimers(file.evs, events)

(***************************************************************************)
(* A recording that was started with a stop time and has had no            *)
(* RECORD_STOP has its event in the table, running and with a stop time:   *)
(* neither the passes (erasure and Reschedule(false) included) nor         *)
(* removeEvent, stopEvent or a modifyEvent with a stop time leave it       *)
(* behind.  Two commands do, and they alone: rescheduleEvent of a running  *)
(* recording (timermanager.cpp:426) and modifyEvent with no stop time      *)
(* (:346); such a recording is adrift until its event starts or stops      *)
(* again.                                                                  *)
(***************************************************************************)
RecordingHasOwner ==
  \A id \in recOn \ adrift : id \in DOMAIN events /\ Stoppable(events[id])

(***************************************************************************)
(* A pass of timerThread that erased nothing leaves no event that was due  *)
(* to fire or to stop at the time the pass has read, and none that is      *)
(* finished or terminated: events added to the table and moved by          *)
(* Reschedule during the pass included.                                    *)
(***************************************************************************)
PassComplete ==
  PassOver /\ ~erased =>
    \A id \in DOMAIN events :
      /\ ~WantsFire(events[id], tnow) /\ ~WantsStop(events[id], tnow)
      /\ events[id].state \notin {"HASFINISHED", "TERMINATED"}

(* A step that adds a shutdown event of timerd leaves every recording and  *)
(* zap that it does not change ten minutes to its announcement.            *)
ShutdownHasTime ==
  tt # "load" /\ eventID' > eventID /\ events'[eventID'].what = AutoWhat
    => \A id \in Pending(0) :
         id \in DOMAIN events' /\ events'[id] = events[id]
           => events[id].announce - now > Quiet

(***************************************************************************)
(* shutdownOnWakeup does not shut the box down on a recording or a zap     *)
(* that is running or to be announced within the next ten minutes (the     *)
(* event being stopped, the one that changes, does not count).             *)
(***************************************************************************)
NoShutdownDuringRecording == [][ShutdownHasTime]_vars

(***************************************************************************)
(* When timerd has ended in order, the front processor is set to wake the  *)
(* box in time for every scheduled recording and zap, or one minute (here  *)
(* a tick) after the programming if the lead was no longer to be had       *)
(* (timermanager.cpp:744).                                                 *)
(***************************************************************************)
WakeupProgrammed ==
  mt = "off" /\ mutex = "free" =>
    \A id \in Scheduled :
      /\ wakeTimer # 0
      /\ wakeTimer <= events[id].announce - Lead \/ wakeTimer <= offAt + 1

(* Every timer of the old file that is still to come and that no client    *)
(* has touched is in the new file.                                         *)
KeepsTimers ==
  \A id \in DOMAIN file.evs :
    file.evs[id].alarm > now /\ file.evs[id].what \notin touched
      => \E k \in DOMAIN file'.evs : file'.evs[k].what = file.evs[id].what

(***************************************************************************)
(* Saving the table, at the end of the load, after a pass or in shutdown,  *)
(* loses no timer still to come, across any number of boots and power      *)
(* failures, once the load of the boot has come to its end.                *)
(***************************************************************************)
SavesKeepTimers == [][loaded /\ saveOK' => KeepsTimers]_file

(***************************************************************************)
(* doku.html: all timers are kept in non-volatile memory, they survive     *)
(* shutting down.  The same as SavesKeepTimers, with no exception for a    *)
(* shutdown before the load.                                               *)
(***************************************************************************)
TimersSurviveShutdown == [][saveOK' => KeepsTimers]_file

(***************************************************************************)
(* removeEvent leaves the rest to the timer thread: when timerd has ended  *)
(* in order, no event a client removed is in the file to be loaded again.  *)
(***************************************************************************)
RemovedStaysRemoved ==
  mt = "off" /\ mutex = "free" /\ saveOK =>
    \A id \in DOMAIN events \cap DOMAIN file.evs :
      events[id].state = "TERMINATED" => file.evs[id].state = "TERMINATED"

(***************************************************************************)
(* addEvent answers the client with the id of the event it has added.      *)
(***************************************************************************)
AddReturnsItsId == [][mt = "addret" /\ mt' = "accept" => eventID = added]_vars

(***************************************************************************)
(* While timerd is serving, an event whose alarm has come is fired, or     *)
(* stopped, removed or moved by a client, even if some pass skips it.      *)
(***************************************************************************)
DueIsFired ==
  \A id \in 1..MaxCmds :
    (Serving /\ loaded /\ id \in DOMAIN events /\ WantsFire(events[id], now))
      ~> (~Serving \/ id \notin DOMAIN events \/ ~WantsFire(events[id], now))

(***************************************************************************)
(* While timerd is serving, a recording whose stop time has come is        *)
(* stopped, unless a command leaves it adrift.                             *)
(***************************************************************************)
RecordingIsStopped ==
  \A id \in 1..MaxCmds :
    (Serving /\ id \in recOn /\ (id \in DOMAIN events => events[id].stop <= now))
      ~> (~Serving \/ id \notin recOn \/ id \in adrift)

(***************************************************************************)
(* doku.html: a WEEKDAYS timer is executed on the configured weekdays.  An *)
(* occurrence that has ended is followed by a next one.                    *)
(***************************************************************************)
WeekdaysComeAgain ==
  \A id \in 1..MaxCmds :
    (Serving /\ id \in DOMAIN events /\ events[id].rep = "ONWEEKDAYS" /\ Ends(events[id]))
      ~> (~Serving \/ id \notin DOMAIN events \/ ~Ends(events[id]))

(***************************************************************************)
(* A shutdown that finds the timer thread past its load comes to an end.   *)
(***************************************************************************)
ShutdownEnds ==
  (mt = "join" /\ tt \in {"lock", "pass", "saveq", "write", "clear", "sleep"}) ~> Down

=============================================================================
