-------------------------- MODULE SchedulesProofs ---------------------------
(***************************************************************************)
(* Schedules.tla for any number of websites, channels, requests and        *)
(* workers: the cron entries mirror the rows behind the last request for a *)
(* target, unless a scrape's Save or overlapping requests came between.    *)
(***************************************************************************)
EXTENDS Schedules, TLAPS

RequestType == [at : {"idle", "loaded", "saved", "unscheduled"},
                target : Target \union {None},
                copy : Settings \union {None}]

ScrapeType == [at : {"idle", "begun", "loaded"},
               site : Sites \union {None},
               copy : Settings \union {None},
               inserted : BOOLEAN]

(* A worker's fields fit its place in processJob. *)
ScrapeSane(w) ==
    /\ scrape[w].at = "idle" <=> scrape[w].site = None
    /\ scrape[w].at = "idle" => ~scrape[w].inserted
    /\ scrape[w].at = "loaded" => scrape[w].copy \in Settings

(* A request's fields fit its place in the handler. *)
RequestSane(r) ==
    /\ req[r].at = "idle" <=> req[r].target = None
    /\ req[r].at \in {"loaded", "saved"} => req[r].copy \in Settings

TypeInv ==
    /\ TypeOK
    /\ \A r \in Requests : RequestSane(r)
    /\ \A w \in ScrapeWorkers : ScrapeSane(w)

(* Never, Gone and None are no settings of a row.                           *)
LEMMA RowValues ==
    /\ Never \notin Settings /\ Gone \notin Settings /\ None \notin Settings
    /\ Never # Gone
    /\ None \notin Target /\ None \notin Sites /\ None \notin ValidSchedules
  BY SchedulesAssumption DEF Target

(* What requests give a target is a string cron accepts or refuses. *)
LEMMA RequestedValid ==
    \A t \in Target : Requested[t] \subseteq ValidSchedules \union BadSchedules
  BY SchedulesAssumption

(* Save leaves settings in the row. *)
LEMMA SavedAsSettings ==
    ASSUME NEW t, NEW c \in Settings
    PROVE  SavedAs(t, c) \in Settings
  BY DEF SavedAs, Settings

(* Telling the scheduler keeps the entries' type. *)
LEMMA ScheduleType ==
    ASSUME entries \in [Target -> ValidSchedules \union {None}],
           NEW t, NEW c \in Settings, Schedule(t, c) \/ Unschedule(t)
    PROVE  entries' \in [Target -> ValidSchedules \union {None}]
  BY DEF Schedule, Unschedule

(* The types hold with empty tables.                                        *)
LEMMA InitTypeInv == Init => TypeInv
  BY DEF Init, TypeInv, TypeOK, RequestSane, ScrapeSane, IdleRequest,
         IdleWorker

(* Every handler, every step of a scrape and Start keep the types.          *)
LEMMA NextTypeInv == TypeInv /\ [Next]_vars => TypeInv'
<1> SUFFICES ASSUME TypeInv, [Next]_vars  PROVE TypeInv'
  OBVIOUS
<1> USE RowValues DEF TypeInv, TypeOK, RequestSane, ScrapeSane
<1>1. ASSUME NEW r \in Requests, NEW t \in Target,
             NEW schedule \in ValidSchedules \union BadSchedules,
             Create(r, t, schedule)
      PROVE  TypeInv'
  <2>1. [enabled |-> TRUE, schedule |-> schedule] \in Settings
    BY DEF Settings
  <2> QED BY <1>1, <2>1 DEF Create, Proceed, Interference
<1>2. ASSUME NEW r \in Requests, NEW t \in Target, NEW c \in Settings,
             UpdateLoad(r, t, c)
      PROVE  TypeInv'
  BY <1>2 DEF UpdateLoad, Proceed
<1>3. ASSUME NEW r \in Requests, NEW t \in Target, DeleteUnschedule(r, t)
      PROVE  TypeInv'
  BY <1>3 DEF DeleteUnschedule, Unschedule, Proceed, Interference
<1>4. ASSUME NEW r \in Requests, UpdateSave(r)  PROVE TypeInv'
  <2>1. /\ req[r].target \in Target
        /\ SavedAs(req[r].target, req[r].copy) \in Settings
    BY <1>4, SavedAsSettings DEF UpdateSave
  <2> QED BY <1>4, <2>1 DEF UpdateSave, Proceed, Interference
<1>5. ASSUME NEW r \in Requests, UpdateFails(r)  PROVE TypeInv'
  BY <1>5 DEF UpdateFails, Respond, IdleRequest
<1>6. ASSUME NEW r \in Requests, TellScheduler(r)  PROVE TypeInv'
  <2>1. entries' \in [Target -> ValidSchedules \union {None}]
    BY <1>6, ScheduleType DEF TellScheduler
  <2> QED BY <1>6, <2>1 DEF TellScheduler, Respond, IdleRequest
<1>7. ASSUME NEW r \in Requests, DeleteRow(r)  PROVE TypeInv'
  BY <1>7 DEF DeleteRow, Respond, IdleRequest
<1>8. ASSUME NEW r \in Requests, DeleteFails(r)  PROVE TypeInv'
  BY <1>8 DEF DeleteFails, Respond, IdleRequest
<1>9. ASSUME NEW s \in Sites, EnqueueJob(s)  PROVE TypeInv'
  BY <1>9 DEF EnqueueJob
<1>11. ASSUME NEW w \in ScrapeWorkers, NEW s \in Sites,
              NEW inserted \in BOOLEAN, ScrapeBegins(w, s, inserted)
       PROVE  TypeInv'
  BY <1>11 DEF ScrapeBegins
<1>12. ASSUME NEW w \in ScrapeWorkers, ScrapeLoads(w)  PROVE TypeInv'
  <2> DEFINE next == [at |-> "loaded", site |-> scrape[w].site,
                      copy |-> row[scrape[w].site],
                      inserted |-> scrape[w].inserted]
  <2>1. /\ scrape[w].site \in Sites
        /\ row[scrape[w].site] \in Settings
    BY <1>12 DEF ScrapeLoads, Stored
  <2>2. scrape' = [scrape EXCEPT ![w] = next]
    BY <1>12 DEF ScrapeLoads
  <2>3. next \in ScrapeType
    BY <2>1 DEF ScrapeType
  <2>4. scrape' \in [ScrapeWorkers -> ScrapeType]
    BY <2>2, <2>3 DEF ScrapeType
  <2>5. \A v \in ScrapeWorkers : ScrapeSane(v)'
    BY <2>1, <2>2
  <2> QED BY <1>12, <2>4, <2>5 DEF ScrapeLoads, ScrapeType
<1>13. ASSUME NEW w \in ScrapeWorkers, ScrapeSaves(w)  PROVE TypeInv'
  <2>1. /\ scrape[w].site \in Sites
        /\ SavedAs(scrape[w].site, scrape[w].copy) \in Settings
    BY <1>13, SavedAsSettings DEF ScrapeSaves
  <2> QED BY <1>13, <2>1 DEF ScrapeSaves, IdleWorker, Target
<1>14. ASSUME NEW w \in ScrapeWorkers, NEW retry \in BOOLEAN,
              ScrapeFails(w, retry)
       PROVE  TypeInv'
  BY <1>14 DEF ScrapeFails, IdleWorker, Target
<1>15. ASSUME NEW channelsRead \in BOOLEAN, Restart(channelsRead)
       PROVE  TypeInv'
  <2>1. entries' \in [Target -> ValidSchedules \union {None}]
    BY <1>15 DEF Restart
  <2>2. /\ orphaned' \subseteq Target
        /\ overwritten' \subseteq Target /\ overlapped' \subseteq Target
        /\ queued' \subseteq Sites
    BY <1>15 DEF Restart, Target
  <2>3. /\ req' \in [Requests -> RequestType]
        /\ \A r \in Requests : RequestSane(r)'
    BY <1>15 DEF Restart, IdleRequest, RequestType
  <2>4. /\ scrape' \in [ScrapeWorkers -> ScrapeType]
        /\ \A w \in ScrapeWorkers : ScrapeSane(w)'
    BY <1>15 DEF Restart, IdleWorker, ScrapeType
  <2> QED BY <1>15, <2>1, <2>2, <2>3, <2>4 DEF Restart, RequestType, ScrapeType
<1>16. CASE UNCHANGED vars
  BY <1>16 DEF vars
<1> QED
  BY <1>1, <1>2, <1>3, <1>4, <1>5, <1>6, <1>7, <1>8, <1>9, <1>11,
     <1>12, <1>13, <1>14, <1>15, <1>16, RequestedValid
  DEF Next, ApiStep, WorkerStep

(* The types, and the shape of requests and scrapes. *)
LEMMA TypeInvHolds == Spec => []TypeInv
  BY InitTypeInv, NextTypeInv, PTL DEF Spec

(* Type correctness of Schedules. *)
THEOREM TypeCorrect == Spec => []TypeOK
<1>1. TypeInv => TypeOK
  BY DEF TypeInv
<1>2. QED
  BY <1>1, TypeInvHolds, PTL

-----------------------------------------------------------------------------
(* The inductive invariant of the mirroring.  Between its statement and its *)
(* call of the scheduler a request owns its target's entry; everywhere else *)
(* entry and row agree; and requests that share a target are known.         *)
OneEach ==
    \A q, r \in Requests :
        req[q].target = req[r].target /\ req[q].target # None =>
            q = r \/ req[q].target \in overlapped

Changing(t) ==
    \E r \in Requests :
        req[r].target = t /\ req[r].at \in {"saved", "unscheduled"}

Agree(t) ==
    t \notin overwritten \union overlapped =>
        /\ entries[t] # None => Live(t) /\ row[t].schedule = entries[t]
        /\ /\ t \notin orphaned
           /\ Live(t)
           /\ row[t].schedule \in ValidSchedules
           => entries[t] = row[t].schedule

Pending(r) ==
    req[r].target \notin overlapped =>
        /\ req[r].at = "saved" /\ req[r].target \notin overwritten =>
              row[req[r].target] = req[r].copy
        /\ req[r].at = "unscheduled" => entries[req[r].target] = None

MirrorInv ==
    /\ OneEach
    /\ \A t \in Target : Changing(t) \/ Agree(t)
    /\ \A r \in Requests : Pending(r)

(* What an invariant of one target needs to survive a step elsewhere. *)
Untouched(t) ==
    /\ row'[t] = row[t]
    /\ entries'[t] = entries[t]
    /\ t \in overwritten' <=> t \in overwritten
    /\ t \in orphaned' <=> t \in orphaned
    /\ t \in overlapped' <=> t \in overlapped

(* Row and entry of a target agree as long as neither changes.              *)
LEMMA AgreeUntouched ==
    ASSUME NEW t \in Target, Untouched(t), Agree(t)
    PROVE  Agree(t)'
  BY DEF Untouched, Agree, Live, Stored

(* A step of request r on target t that touches no other target. *)
LEMMA OtherTargets ==
    ASSUME TypeInv, MirrorInv, NEW r \in Requests, NEW t \in Target,
           req[r].target \in {t, None},
           NEW next \in RequestType,
           req' = [req EXCEPT ![r] = next],
           next.target \in {t, None},
           \A u \in Target \ {t} : Untouched(u)
    PROVE  /\ \A u \in Target \ {t} : (Changing(u) \/ Agree(u))'
           /\ \A q \in Requests \ {r} :
                 req[q].target # t => Pending(q)'
<1>0. /\ req \in [Requests -> RequestType]
      /\ None \notin Target
  BY RowValues DEF TypeInv, TypeOK, RequestType
<1>1. ASSUME NEW u \in Target \ {t}  PROVE (Changing(u) \/ Agree(u))'
  <2>1. CASE Changing(u)
    <3>1. PICK q \in Requests :
              req[q].target = u /\ req[q].at \in {"saved", "unscheduled"}
      BY <2>1 DEF Changing
    <3>2. q # r
      BY <1>0, <3>1
    <3>3. req'[q] = req[q]
      BY <1>0, <3>2
    <3> QED BY <3>1, <3>3 DEF Changing
  <2>2. CASE Agree(u)
    BY <2>2, AgreeUntouched
  <2> QED BY <2>1, <2>2 DEF MirrorInv
<1>2. ASSUME NEW q \in Requests \ {r}, req[q].target # t
      PROVE  Pending(q)'
  <2>1. req'[q] = req[q] /\ Pending(q)
    BY <1>0 DEF MirrorInv
  <2>2. CASE req[q].target = None
    <3>1. req[q].at = "idle"
      BY <2>2 DEF TypeInv, RequestSane
    <3> QED BY <2>1, <3>1 DEF Pending
  <2>3. CASE req[q].target \in Target
    <3>1. Untouched(req[q].target)
      BY <1>2, <2>3
    <3> QED BY <2>1, <3>1 DEF Pending, Untouched
  <2> QED BY <1>0, <2>2, <2>3 DEF RequestType
<1> QED BY <1>1, <1>2

(* A step of request r keeps the rest if it leaves its own target in order  *)
(* and a request for the same target is noticed.                            *)
LEMMA RequestStep ==
    ASSUME TypeInv, MirrorInv, NEW r \in Requests, NEW t \in Target,
           req[r].target \in {t, None},
           \A q \in Requests \ {r} : req[q].target = t => t \in overlapped',
           NEW next \in RequestType,
           req' = [req EXCEPT ![r] = next],
           next.target \in {t, None},
           \A u \in Target \ {t} : Untouched(u),
           (Changing(t) \/ Agree(t))',
           Pending(r)'
    PROVE  MirrorInv'
<1>0. /\ req \in [Requests -> RequestType]
      /\ None \notin Target
  BY RowValues DEF TypeInv, TypeOK, RequestType
<1>1. req'[r] = next /\ \A q \in Requests \ {r} : req'[q] = req[q]
  BY <1>0
<1>2. OneEach'
  <2>1. ASSUME NEW q \in Requests \ {r}, req[q].target = next.target,
               next.target # None
        PROVE  next.target \in overlapped'
    BY <2>1
  <2>2. ASSUME NEW p \in Requests \ {r}, NEW q \in Requests \ {r}, p # q,
               req[p].target = req[q].target, req[p].target # None
        PROVE  req[p].target \in overlapped'
    <3>1. req[p].target \in overlapped /\ req[p].target \in Target
      BY <1>0, <2>2 DEF MirrorInv, OneEach, RequestType
    <3> QED BY <2>2, <3>1 DEF Untouched
  <2>3. ASSUME NEW p \in Requests, NEW q \in Requests, p # q,
               req'[p].target = req'[q].target, req'[p].target # None
        PROVE  req'[p].target \in overlapped'
    <3>1. CASE p = r
      BY <1>1, <2>1, <2>3, <3>1
    <3>2. CASE q = r
      BY <1>1, <2>1, <2>3, <3>2
    <3>3. CASE p # r /\ q # r
      BY <1>1, <2>2, <2>3, <3>3
    <3> QED BY <3>1, <3>2, <3>3
  <2> QED BY <2>3 DEF OneEach
<1>3. \A u \in Target \ {t} : (Changing(u) \/ Agree(u))'
  BY OtherTargets
<1>4. ASSUME NEW q \in Requests \ {r}  PROVE Pending(q)'
  <2>1. CASE req[q].target = t
    BY <1>1, <2>1 DEF Pending
  <2>2. CASE req[q].target # t
    BY <2>2, OtherTargets
  <2> QED BY <2>1, <2>2
<1> QED BY <1>2, <1>3, <1>4 DEF MirrorInv

(* With empty tables there is nothing to mirror.                            *)
LEMMA InitMirror == Init => MirrorInv
  BY RowValues
  DEF Init, MirrorInv, OneEach, Agree, Pending, Live, Stored, IdleRequest

(* One step per action; the requests' steps by RequestStep, each with its   *)
(* own target's case.                                                       *)
LEMMA NextMirror == TypeInv /\ MirrorInv /\ [Next]_vars => MirrorInv'
<1> SUFFICES ASSUME TypeInv, MirrorInv, [Next]_vars  PROVE MirrorInv'
  OBVIOUS
<1>0. /\ req \in [Requests -> RequestType]
      /\ row \in [Target -> Settings \union {Never, Gone}]
      /\ entries \in [Target -> ValidSchedules \union {None}]
      /\ \A r \in Requests : RequestSane(r)
  BY DEF TypeInv, TypeOK, RequestType
<1>1. IdleRequest \in RequestType /\ IdleRequest.target = None
  BY DEF IdleRequest, RequestType
<1>2. /\ \A r \in Requests : req[r].at = "idle" => req[r].target = None
      /\ \A r \in Requests, t \in Target :
            req[r].target = t =>
                \A q \in Requests \ {r} : req[q].target = t => t \in overlapped
  BY <1>0, RowValues DEF RequestSane, MirrorInv, OneEach
<1>14. ASSUME NEW r \in Requests, NEW t \in Target,
              overlapped \subseteq Target, Interference(r, t)
       PROVE  /\ \A q \in Requests \ {r} :
                     req[q].target = t => t \in overlapped'
              /\ \A u \in Target \ {t} : u \in overlapped' <=> u \in overlapped
  BY <1>14 DEF Interference, Alone
<1>15. overlapped \subseteq Target
  BY DEF TypeInv, TypeOK
<1>3. ASSUME NEW r \in Requests, NEW t \in Target,
             NEW schedule \in ValidSchedules \union BadSchedules,
             Create(r, t, schedule)
      PROVE  MirrorInv'
  <2> DEFINE settings == [enabled |-> TRUE, schedule |-> schedule]
             next == [at |-> "saved", target |-> t, copy |-> settings]
  <2>1. settings \in Settings
    BY DEF Settings
  <2>2. next \in RequestType
    BY <2>1 DEF RequestType
  <2> HIDE DEF settings
  <2>3. /\ req[r].target = None
        /\ row' = [row EXCEPT ![t] = settings]
        /\ req' = [req EXCEPT ![r] = next]
        /\ Interference(r, t)
        /\ UNCHANGED <<entries, overwritten, orphaned>>
    BY <1>2, <1>3 DEF Create, Proceed, settings
  <2>4. \A u \in Target \ {t} : Untouched(u)
    BY <1>0, <1>14, <1>15, <2>3 DEF Untouched
  <2>5. req'[r] = next /\ row'[t] = settings
    BY <1>0, <2>3
  <2>6. Changing(t)' /\ Pending(r)'
    BY <2>5 DEF Changing, Pending
  <2> QED BY <1>14, <1>15, <2>2, <2>3, <2>4, <2>6, RequestStep
<1>4. ASSUME NEW r \in Requests, NEW t \in Target, NEW c \in Settings,
             UpdateLoad(r, t, c)
      PROVE  MirrorInv'
  <2> DEFINE next == [at |-> "loaded", target |-> t, copy |-> c]
  <2>1. next \in RequestType
    BY DEF RequestType
  <2>2. /\ req[r].target = None
        /\ req' = [req EXCEPT ![r] = next]
        /\ overlapped' = IF Alone(r, t) THEN overlapped
                                        ELSE overlapped \union {t}
        /\ UNCHANGED <<row, entries, overwritten, orphaned>>
    BY <1>2, <1>4 DEF UpdateLoad, Proceed
  <2>3. \A u \in Target \ {t} : Untouched(u)
    BY <2>2 DEF Untouched
  <2>4. \A q \in Requests \ {r} : req[q].target = t => t \in overlapped'
    BY <2>2 DEF Alone
  <2>5. Agree(t)'
    <3>1. CASE Alone(r, t)
      <4>1. Untouched(t)
        BY <2>2, <3>1 DEF Untouched
      <4>2. ~Changing(t)
        BY <2>2, <3>1, RowValues DEF Changing, Alone
      <4> QED BY <4>1, <4>2, AgreeUntouched DEF MirrorInv
    <3>2. CASE ~Alone(r, t)
      BY <2>2, <3>2 DEF Agree
    <3> QED BY <3>1, <3>2
  <2>6. Pending(r)'
    BY <1>0, <2>2 DEF Pending
  <2> QED BY <2>1, <2>2, <2>3, <2>4, <2>5, <2>6, RequestStep
<1>5. ASSUME NEW r \in Requests, NEW t \in Target, DeleteUnschedule(r, t)
      PROVE  MirrorInv'
  <2> DEFINE next == [at |-> "unscheduled", target |-> t, copy |-> None]
  <2>1. next \in RequestType
    BY DEF RequestType
  <2>2. /\ req[r].target = None
        /\ entries' = [entries EXCEPT ![t] = None]
        /\ req' = [req EXCEPT ![r] = next]
        /\ Interference(r, t)
        /\ UNCHANGED <<row, overwritten, orphaned>>
    BY <1>2, <1>5 DEF DeleteUnschedule, Unschedule, Proceed
  <2>3. \A u \in Target \ {t} : Untouched(u)
    BY <1>0, <1>14, <1>15, <2>2 DEF Untouched
  <2>4. req'[r] = next /\ entries'[t] = None
    BY <1>0, <2>2
  <2>5. Changing(t)' /\ Pending(r)'
    BY <2>4 DEF Changing, Pending
  <2> QED BY <1>14, <1>15, <2>1, <2>2, <2>3, <2>5, RequestStep
<1>6. ASSUME NEW r \in Requests, UpdateSave(r)  PROVE MirrorInv'
  <2>1. PICK t \in Target : req[r].target = t
    BY <1>0, <1>6 DEF UpdateSave, RequestSane, RequestType
  <2>2. PICK c \in Settings : c = SavedAs(t, req[r].copy)
    BY <1>0, <1>6, SavedAsSettings DEF UpdateSave, RequestSane
  <2> DEFINE next == [at |-> "saved", target |-> t, copy |-> c]
  <2>3. next \in RequestType
    BY DEF RequestType
  <2>4. /\ row' = [row EXCEPT ![t] = c]
        /\ req' = [req EXCEPT ![r] = next]
        /\ overwritten' = overwritten \ {t}
        /\ Interference(r, t)
        /\ UNCHANGED <<entries, orphaned>>
    BY <1>6, <2>1, <2>2 DEF UpdateSave, Proceed
  <2>5. \A u \in Target \ {t} : Untouched(u)
    BY <1>0, <1>14, <1>15, <2>4 DEF Untouched
  <2>6. req'[r] = next /\ row'[t] = c
    BY <1>0, <2>4
  <2>7. Changing(t)' /\ Pending(r)'
    BY <2>6 DEF Changing, Pending
  <2> QED BY <1>14, <1>15, <2>1, <2>3, <2>4, <2>5, <2>7, RequestStep
<1>7. ASSUME NEW r \in Requests, UpdateFails(r)  PROVE MirrorInv'
  <2>1. PICK t \in Target : req[r].target = t
    BY <1>0, <1>7 DEF UpdateFails, RequestSane, RequestType
  <2>2. /\ req[r].at = "loaded"
        /\ req' = [req EXCEPT ![r] = IdleRequest]
        /\ UNCHANGED <<row, entries, overwritten, orphaned, overlapped>>
    BY <1>7 DEF UpdateFails, Respond
  <2>3. \A u \in Target : Untouched(u)
    BY <2>2 DEF Untouched
  <2>4. Changing(t) => t \in overlapped
    BY <1>2, <2>1, <2>2 DEF Changing
  <2>5. Agree(t)'
    BY <2>2, <2>3, <2>4, AgreeUntouched DEF MirrorInv, Agree
  <2>6. Pending(r)'
    BY <1>0, <2>2 DEF Pending, IdleRequest
  <2> QED BY <1>1, <1>2, <2>1, <2>2, <2>3, <2>5, <2>6, RequestStep
<1>8. ASSUME NEW r \in Requests, TellScheduler(r)  PROVE MirrorInv'
  <2>1. PICK t \in Target : req[r].target = t
    BY <1>0, <1>8 DEF TellScheduler, RequestSane, RequestType
  <2>2. PICK c \in Settings : c = req[r].copy
    BY <1>0, <1>8 DEF TellScheduler, RequestSane
  <2>3. /\ req[r].at = "saved"
        /\ entries' = [entries EXCEPT
              ![t] = IF c.enabled /\ c.schedule \in ValidSchedules
                       THEN c.schedule ELSE None]
        /\ req' = [req EXCEPT ![r] = IdleRequest]
        /\ orphaned' = orphaned \ {t}
        /\ UNCHANGED <<row, overwritten, overlapped>>
    BY <1>8, <2>1, <2>2 DEF TellScheduler, Schedule, Respond
  <2>4. \A u \in Target \ {t} : Untouched(u)
    BY <1>0, <2>3 DEF Untouched
  <2>5. t \notin overwritten \union overlapped => row[t] = c
    BY <2>1, <2>2, <2>3 DEF MirrorInv, Pending
  <2>6. Agree(t)'
    BY <1>0, <2>3, <2>5, RowValues DEF Agree, Live, Stored
  <2>7. Pending(r)'
    BY <1>0, <2>3 DEF Pending, IdleRequest
  <2> QED BY <1>1, <1>2, <2>1, <2>3, <2>4, <2>6, <2>7, RequestStep
<1>9. ASSUME NEW r \in Requests, DeleteRow(r) \/ DeleteFails(r)
      PROVE  MirrorInv'
  <2>1. PICK t \in Target : req[r].target = t
    BY <1>0, <1>9 DEF DeleteRow, DeleteFails, RequestSane, RequestType
  <2>2. /\ req[r].at = "unscheduled"
        /\ req' = [req EXCEPT ![r] = IdleRequest]
        /\ UNCHANGED <<entries, overwritten, overlapped>>
        /\ \/ row' = [row EXCEPT ![t] = Gone] /\ UNCHANGED orphaned
           \/ UNCHANGED row /\ orphaned' = orphaned \union {t}
    BY <1>9, <2>1 DEF DeleteRow, DeleteFails, Respond
  <2>3. \A u \in Target \ {t} : Untouched(u)
    BY <1>0, <2>2 DEF Untouched
  <2>4. t \notin overlapped => entries[t] = None
    BY <2>1, <2>2 DEF MirrorInv, Pending
  <2>5. Agree(t)'
    <3>1. CASE row' = [row EXCEPT ![t] = Gone]
      BY <1>0, <2>2, <2>4, <3>1, RowValues DEF Agree, Live, Stored
    <3>2. CASE UNCHANGED row /\ orphaned' = orphaned \union {t}
      BY <2>2, <2>4, <3>2 DEF Agree
    <3> QED BY <2>2, <3>1, <3>2
  <2>6. Pending(r)'
    BY <1>0, <2>2 DEF Pending, IdleRequest
  <2> QED BY <1>1, <1>2, <2>1, <2>2, <2>3, <2>5, <2>6, RequestStep
<1>10. CASE UNCHANGED <<row, entries, req, overwritten, orphaned, overlapped>>
  BY <1>10 DEF MirrorInv, OneEach, Changing, Agree, Pending, Live, Stored
<1>11. ASSUME NEW w \in ScrapeWorkers, ScrapeSaves(w)  PROVE MirrorInv'
  <2>1. PICK s \in Sites, c \in Settings :
            /\ row' = [row EXCEPT ![s] = c]
            /\ overwritten' = IF row[s] = c THEN overwritten
                                            ELSE overwritten \union {s}
            /\ UNCHANGED <<req, entries, orphaned, overlapped>>
    <3>1. scrape[w].site \in Sites /\ scrape[w].copy \in Settings
      BY <1>11 DEF ScrapeSaves, TypeInv, TypeOK, ScrapeSane
    <3> QED BY <1>11, <3>1, SavedAsSettings DEF ScrapeSaves
  <2>2. CASE row[s] = c
    <3>1. UNCHANGED row
      BY <1>0, <2>1, <2>2
    <3> QED BY <1>10, <2>1, <2>2, <3>1
  <2>3. CASE row[s] # c
    <3>1. /\ s \in overwritten'
          /\ \A u \in Target \ {s} : Untouched(u)
      BY <1>0, <2>1, <2>3 DEF Untouched
    <3>2. ASSUME NEW u \in Target  PROVE (Changing(u) \/ Agree(u))'
      <4>1. CASE u = s
        BY <3>1, <4>1 DEF Agree
      <4>2. CASE u # s
        BY <2>1, <3>1, <4>2, AgreeUntouched DEF MirrorInv, Changing
      <4> QED BY <4>1, <4>2
    <3>3. ASSUME NEW r \in Requests  PROVE Pending(r)'
      <4>1. Pending(r)
        BY DEF MirrorInv
      <4> QED BY <1>0, <2>1, <2>3, <4>1 DEF Pending
    <3>4. OneEach'
      BY <2>1 DEF MirrorInv, OneEach
    <3> QED BY <3>2, <3>3, <3>4 DEF MirrorInv
  <2> QED BY <2>2, <2>3
<1>12. ASSUME NEW channelsRead \in BOOLEAN, Restart(channelsRead)
       PROVE  MirrorInv'
  <2>1. /\ entries' = [t \in Target |->
              IF Live(t) /\ row[t].schedule \in ValidSchedules
                   /\ Loads(t, channelsRead)
                THEN row[t].schedule ELSE None]
        /\ req' = [r \in Requests |-> IdleRequest]
        /\ orphaned' = {t \in Target : Live(t) /\ ~Loads(t, channelsRead)}
        /\ UNCHANGED row
    BY <1>12 DEF Restart
  <2>2. ASSUME NEW t \in Target  PROVE Agree(t)'
    <3>1. Live(t)' <=> Live(t)
      BY <2>1 DEF Live, Stored
    <3>2. Live(t) /\ t \notin orphaned' => Loads(t, channelsRead)
      BY <2>1
    <3>3. /\ entries'[t] # None => Live(t) /\ row[t].schedule = entries'[t]
          /\ Live(t) /\ row[t].schedule \in ValidSchedules
                /\ Loads(t, channelsRead) => entries'[t] = row[t].schedule
      BY <2>1
    <3> QED BY <2>1, <3>1, <3>2, <3>3 DEF Agree
  <2>3. OneEach' /\ \A r \in Requests : Pending(r)'
    BY <2>1 DEF OneEach, Pending, IdleRequest
  <2> QED BY <2>2, <2>3 DEF MirrorInv
<1> QED
  <2>1. ASSUME NEW r \in Requests, ApiStep(r)  PROVE MirrorInv'
    BY <1>3, <1>4, <1>5, <1>6, <1>7, <1>8, <1>9, <2>1, RequestedValid
    DEF ApiStep
  <2>2. ASSUME NEW w \in ScrapeWorkers, WorkerStep(w)  PROVE MirrorInv'
    BY <1>10, <1>11, <2>2
    DEF WorkerStep, ScrapeBegins, ScrapeLoads, ScrapeFails
  <2>3. ASSUME NEW s \in Sites, EnqueueJob(s)  PROVE MirrorInv'
    BY <1>10, <2>3 DEF EnqueueJob
  <2>4. CASE UNCHANGED vars
    BY <1>10, <2>4 DEF vars
  <2> QED BY <1>12, <2>1, <2>2, <2>3, <2>4 DEF Next

(* Behind the last request for a target, entry and row agree, for any       *)
(* number of targets, requests and scrapes, also if Start could not read    *)
(* the channels: only a scrape's Save, or requests for the target that      *)
(* overlapped, can have brought them apart.                                 *)
THEOREM EntriesMirrorRows == Spec => [](ScheduledAsStored /\ EnabledIsScheduled)
<1>1. MirrorInv => ScheduledAsStored /\ EnabledIsScheduled
  BY DEF MirrorInv, ScheduledAsStored, EnabledIsScheduled, Quiet, Changing,
         Agree
<1>2. TypeInv /\ MirrorInv /\ [Next]_vars => (TypeInv /\ MirrorInv)'
  BY NextTypeInv, NextMirror
<1> QED BY <1>1, <1>2, InitTypeInv, InitMirror, PTL DEF Spec

(* No website or channel that is stored as enabled with a valid schedule is *)
(* left without its entry, whatever updates, deletes and restarts went      *)
(* before, but for the cases EnabledIsScheduled names.                      *)
THEOREM EnabledHasEntry == Spec => []EnabledIsScheduled
BY EntriesMirrorRows, PTL

-----------------------------------------------------------------------------
(* A website some row refers to is there; a scrape that wrote its record    *)
(* has made such a row.                                                     *)
RecordInv ==
    /\ \A s \in recorded : Stored(s)
    /\ \A w \in ScrapeWorkers : scrape[w].inserted => scrape[w].site \in recorded

(* A row that a step does not delete stays in its table.                    *)
LEMMA StoredStays ==
    ASSUME TypeInv, RecordInv, NEW s \in recorded,
           recorded' = recorded,
           \/ UNCHANGED row
           \/ \E t \in Target, c \in Settings : row' = [row EXCEPT ![t] = c]
           \/ \E t \in Target : row' = [row EXCEPT ![t] = Gone] /\ t # s
    PROVE  Stored(s)'
<1>1. s \in Target /\ row[s] \in Settings
  BY DEF RecordInv, TypeInv, TypeOK, Stored, Target
<1> QED BY <1>1 DEF Stored, TypeInv, TypeOK

(* Every step keeps the website of a recorded scrape: DeleteRow is refused  *)
(* by the reference from scrape_jobs.                                       *)
LEMMA NextRecord == TypeInv /\ RecordInv /\ [Next]_vars => RecordInv'
<1> SUFFICES ASSUME TypeInv, RecordInv, [Next]_vars  PROVE RecordInv'
  OBVIOUS
<1>1. ASSUME recorded' = recorded, UNCHANGED scrape,
             \/ UNCHANGED row
             \/ \E t \in Target, c \in Settings : row' = [row EXCEPT ![t] = c]
             \/ \E t \in Target :
                   row' = [row EXCEPT ![t] = Gone] /\ t \notin recorded
      PROVE  RecordInv'
  <2>1. ASSUME NEW s \in recorded  PROVE Stored(s)'
    BY <1>1, StoredStays
  <2> QED BY <1>1, <2>1 DEF RecordInv
<1>2. ASSUME NEW r \in Requests, ApiStep(r)  PROVE RecordInv'
  <2>1. ASSUME NEW t \in Target,
               NEW schedule \in ValidSchedules \union BadSchedules,
               Create(r, t, schedule)
        PROVE  RecordInv'
    <3>1. [enabled |-> TRUE, schedule |-> schedule] \in Settings
      BY DEF Settings
    <3> QED BY <1>1, <2>1, <3>1 DEF Create
  <2>2. CASE UpdateSave(r)
    <3>1. /\ req[r].target \in Target
          /\ SavedAs(req[r].target, req[r].copy) \in Settings
      BY <2>2, SavedAsSettings
      DEF UpdateSave, TypeInv, TypeOK, RequestSane
    <3> QED BY <1>1, <2>2, <3>1 DEF UpdateSave
  <2>3. CASE DeleteRow(r)
    <3>1. req[r].target \in Target
      BY <2>3 DEF DeleteRow, TypeInv, TypeOK, RequestSane
    <3>2. req[r].target \notin recorded
      BY <2>3 DEF DeleteRow, Referenced, TypeInv, TypeOK
    <3> QED BY <1>1, <2>3, <3>1, <3>2 DEF DeleteRow
  <2> QED
    BY <1>1, <1>2, <2>1, <2>2, <2>3, RequestedValid
    DEF ApiStep, UpdateLoad, DeleteUnschedule, UpdateFails, TellScheduler,
        DeleteFails
<1>3. ASSUME NEW w \in ScrapeWorkers, NEW s \in Sites,
             NEW inserted \in BOOLEAN, ScrapeBegins(w, s, inserted)
      PROVE  RecordInv'
  <2> DEFINE next == [at |-> "begun", site |-> s, copy |-> None,
                      inserted |-> inserted]
  <2>1. /\ inserted => Stored(s)
        /\ recorded' = IF inserted THEN recorded \union {s} ELSE recorded
        /\ scrape' = [scrape EXCEPT ![w] = next]
        /\ UNCHANGED row
    BY <1>3 DEF ScrapeBegins
  <2>2. \A v \in ScrapeWorkers :
            scrape'[v] = IF v = w THEN next ELSE scrape[v]
    BY <2>1 DEF TypeInv, TypeOK
  <2>3. \A v \in ScrapeWorkers :
            scrape'[v].inserted => scrape'[v].site \in recorded'
    BY <2>1, <2>2 DEF RecordInv
  <2>4. \A u \in recorded' : Stored(u)'
    BY <2>1 DEF RecordInv, Stored
  <2> QED BY <2>3, <2>4 DEF RecordInv
<1>4. ASSUME NEW w \in ScrapeWorkers, ScrapeLoads(w)  PROVE RecordInv'
  <2>1. \A v \in ScrapeWorkers : /\ scrape'[v].inserted = scrape[v].inserted
                                 /\ scrape'[v].site = scrape[v].site
    BY <1>4 DEF ScrapeLoads, TypeInv, TypeOK
  <2> QED BY <1>4, <2>1 DEF ScrapeLoads, RecordInv, Stored
<1>5. ASSUME NEW w \in ScrapeWorkers,
             ScrapeSaves(w) \/ \E retry \in BOOLEAN : ScrapeFails(w, retry)
      PROVE  RecordInv'
  <2>1. /\ scrape' = [scrape EXCEPT ![w] = IdleWorker]
        /\ UNCHANGED recorded
    BY <1>5 DEF ScrapeSaves, ScrapeFails
  <2>2. \A v \in ScrapeWorkers :
            scrape'[v].inserted => scrape'[v].site \in recorded'
    BY <2>1 DEF RecordInv, IdleWorker, TypeInv, TypeOK
  <2>3. ASSUME NEW s \in recorded  PROVE Stored(s)'
    <3>1. CASE ScrapeSaves(w)
      <4>1. /\ scrape[w].site \in Target
            /\ SavedAs(scrape[w].site, scrape[w].copy) \in Settings
        BY <3>1, SavedAsSettings
        DEF ScrapeSaves, TypeInv, TypeOK, ScrapeSane, Target
      <4> QED BY <2>1, <3>1, <4>1, StoredStays DEF ScrapeSaves
    <3>2. CASE \E retry \in BOOLEAN : ScrapeFails(w, retry)
      BY <2>1, <3>2, StoredStays DEF ScrapeFails
    <3> QED BY <1>5, <3>1, <3>2
  <2> QED BY <2>1, <2>2, <2>3 DEF RecordInv
<1>6. ASSUME NEW channelsRead \in BOOLEAN, Restart(channelsRead)
      PROVE  RecordInv'
  BY <1>6 DEF Restart, RecordInv, IdleWorker, Stored
<1>7. CASE UNCHANGED vars
  BY <1>7, <1>1 DEF vars
<1> QED
  BY <1>1, <1>2, <1>3, <1>4, <1>5, <1>6, <1>7
  DEF Next, WorkerStep, EnqueueJob

(* No Delete removes a website under a scrape whose record was written,     *)
(* also when requests overlap.                                              *)
THEOREM ScrapedSiteIsKept == Spec => []ScrapedSiteStays
<1>1. Init => RecordInv
  BY DEF Init, RecordInv, IdleWorker
<1>2. RecordInv => ScrapedSiteStays
  BY DEF RecordInv, ScrapedSiteStays
<1>3. TypeInv /\ RecordInv /\ [Next]_vars => (TypeInv /\ RecordInv)'
  BY NextTypeInv, NextRecord
<1> QED BY <1>1, <1>2, <1>3, InitTypeInv, PTL DEF Spec

-----------------------------------------------------------------------------
(* The row an Update has read is still there when it saves it, unless       *)
(* another request for the target ran beside it.                            *)
UpdateInv ==
    \A r \in Requests :
        req[r].at = "loaded" =>
            Stored(req[r].target) \/ req[r].target \in overlapped

(* No step of another request or scrape takes the row away unnoticed        *)
(* between the read and the Save of an Update.                              *)
LEMMA NextUpdate == TypeInv /\ MirrorInv /\ UpdateInv /\ [Next]_vars => UpdateInv'
<1> SUFFICES ASSUME TypeInv, MirrorInv, UpdateInv, [Next]_vars,
                    NEW q \in Requests, req'[q].at = "loaded"
             PROVE  (Stored(req[q].target) \/ req[q].target \in overlapped)'
  BY DEF UpdateInv
<1> DEFINE Goal == Stored(req[q].target) \/ req[q].target \in overlapped
<1>0. /\ req \in [Requests -> RequestType]
      /\ row \in [Target -> Settings \union {Never, Gone}]
      /\ \A r \in Requests : RequestSane(r)
      /\ None \notin Target
  BY RowValues DEF TypeInv, TypeOK, RequestType
<1>1. ASSUME \/ UNCHANGED row
             \/ \E t \in Target, c \in Settings : row' = [row EXCEPT ![t] = c]
             \/ \E t \in Target : /\ row' = [row EXCEPT ![t] = Gone]
                                  /\ t = req[q].target => t \in overlapped',
             req[q].target \in overlapped => req[q].target \in overlapped',
             req'[q] = req[q]
      PROVE  Goal'
  <2>1. /\ req[q].target \in Target
        /\ row[req[q].target] \in Settings \/ req[q].target \in overlapped
    BY <1>0, <1>1 DEF UpdateInv, Stored, RequestSane, RequestType
  <2> QED BY <1>0, <1>1, <2>1 DEF Stored
<1>2. ASSUME NEW r \in Requests, ApiStep(r)  PROVE Goal'
  <2>1. CASE q = r
    <3>1. ASSUME NEW t \in Target, NEW c \in Settings, UpdateLoad(r, t, c)
          PROVE  Goal'
      BY <1>0, <2>1, <3>1 DEF UpdateLoad, Proceed, Stored
    <3> QED
      BY <1>0, <1>2, <2>1, <3>1
      DEF ApiStep, Create, DeleteUnschedule, UpdateSave, UpdateFails,
          TellScheduler, DeleteRow, DeleteFails, Proceed, Respond, IdleRequest
  <2>2. CASE q # r
    <3>1. req'[q] = req[q]
      BY <1>0, <1>2, <2>2
      DEF ApiStep, Create, UpdateLoad, DeleteUnschedule, UpdateSave,
          UpdateFails, TellScheduler, DeleteRow, DeleteFails, Proceed, Respond
    <3>2. ASSUME NEW t \in Target, Interference(r, t)
          PROVE  req[q].target \in overlapped => req[q].target \in overlapped'
      BY <2>2, <3>2 DEF Interference, Alone
    <3>3. ASSUME NEW t \in Target,
                 NEW schedule \in ValidSchedules \union BadSchedules,
                 Create(r, t, schedule)
          PROVE  Goal'
      <4>1. [enabled |-> TRUE, schedule |-> schedule] \in Settings
        BY DEF Settings
      <4> QED BY <1>1, <3>1, <3>2, <3>3, <4>1 DEF Create
    <3>4. CASE UpdateSave(r)
      <4>1. /\ req[r].target \in Target
            /\ SavedAs(req[r].target, req[r].copy) \in Settings
        BY <1>0, <3>4, SavedAsSettings DEF UpdateSave, RequestSane, RequestType
      <4> QED BY <1>1, <3>1, <3>2, <3>4, <4>1 DEF UpdateSave
    <3>5. CASE DeleteRow(r)
      <4>1. req[r].target \in Target
        BY <1>0, <3>5 DEF DeleteRow, RequestSane, RequestType
      <4>2. req[r].target = req[q].target => req[r].target \in overlapped
        BY <1>0, <2>2, <4>1 DEF MirrorInv, OneEach
      <4> QED BY <1>1, <3>1, <3>5, <4>1, <4>2 DEF DeleteRow
    <3>6. ASSUME NEW t \in Target, DeleteUnschedule(r, t)  PROVE Goal'
      BY <1>1, <3>1, <3>2, <3>6 DEF DeleteUnschedule
    <3>7. ASSUME NEW t \in Target, NEW c \in Settings, UpdateLoad(r, t, c)
          PROVE  Goal'
      BY <1>1, <3>1, <3>7 DEF UpdateLoad
    <3>8. CASE UpdateFails(r) \/ TellScheduler(r) \/ DeleteFails(r)
      BY <1>1, <3>1, <3>8 DEF UpdateFails, TellScheduler, DeleteFails
    <3> QED
      BY <1>2, <3>3, <3>4, <3>5, <3>6, <3>7, <3>8, RequestedValid DEF ApiStep
  <2> QED BY <2>1, <2>2
<1>3. ASSUME NEW w \in ScrapeWorkers, ScrapeSaves(w)  PROVE Goal'
  <2>1. /\ scrape[w].site \in Target
        /\ SavedAs(scrape[w].site, scrape[w].copy) \in Settings
    BY <1>3, SavedAsSettings
    DEF ScrapeSaves, TypeInv, TypeOK, ScrapeSane, Target
  <2> QED BY <1>1, <1>3, <2>1 DEF ScrapeSaves
<1>4. ASSUME NEW channelsRead \in BOOLEAN, Restart(channelsRead)  PROVE Goal'
  BY <1>4 DEF Restart, IdleRequest
<1>5. CASE UNCHANGED <<row, req, overlapped>>
  BY <1>1, <1>5
<1> QED
  BY <1>2, <1>3, <1>4, <1>5
  DEF Next, vars, WorkerStep, EnqueueJob, ScrapeBegins, ScrapeLoads,
      ScrapeFails

(* The insert half of Save brings no deleted target back, unless a scrape   *)
(* went on without its record or a Delete ran beside an Update.             *)
THEOREM NothingComesBack == Spec => DeletedStaysDeleted
<1> DEFINE Inv == TypeInv /\ MirrorInv /\ RecordInv /\ UpdateInv
           Back == \A t \in Target :
                       row[t] = Gone /\ row'[t] # Gone =>
                           \/ t \in overlapped
                           \/ \E w \in ScrapeWorkers :
                                 scrape[w].site = t /\ ~scrape[w].inserted
<1>1. Init => Inv
  BY InitTypeInv, InitMirror
  DEF Init, RecordInv, UpdateInv, IdleWorker, IdleRequest
<1>2. Inv /\ [Next]_vars => Inv'
  BY NextTypeInv, NextMirror, NextRecord, NextUpdate
<1>3. Inv /\ [Next]_vars => Back
  <2> SUFFICES ASSUME Inv, [Next]_vars, NEW t \in Target,
                      row[t] = Gone, row'[t] # Gone, t \notin overlapped
               PROVE  \E w \in ScrapeWorkers :
                          scrape[w].site = t /\ ~scrape[w].inserted
    OBVIOUS
  <2>9. ~UNCHANGED row
    OBVIOUS
  <2>0. row \in [Target -> Settings \union {Never, Gone}]
    BY DEF TypeInv, TypeOK
  <2>1. ~Stored(t)
    BY RowValues DEF Stored
  <2>2. ASSUME NEW w \in ScrapeWorkers, ScrapeSaves(w)
        PROVE  scrape[w].site = t /\ ~scrape[w].inserted
    <3>1. scrape[w].site = t
      BY <2>0, <2>2 DEF ScrapeSaves
    <3> QED BY <2>1, <3>1 DEF RecordInv
  <2>3. ASSUME NEW r \in Requests, ApiStep(r)  PROVE FALSE
    <3>1. ~UpdateSave(r)
      <4> SUFFICES ASSUME UpdateSave(r)  PROVE FALSE
        OBVIOUS
      <4>1. req[r].target = t
        BY <2>0 DEF UpdateSave
      <4> QED BY <2>1, <4>1 DEF UpdateSave, UpdateInv
    <3>2. ASSUME NEW u \in Target,
                 NEW schedule \in ValidSchedules \union BadSchedules,
                 Create(r, u, schedule)
          PROVE  FALSE
      <4>1. row' = [row EXCEPT ![u] = [enabled |-> TRUE, schedule |-> schedule]]
            /\ row[u] = Never
        BY <3>2 DEF Create
      <4>2. u = t
        BY <2>0, <4>1
      <4> QED BY <4>1, <4>2, RowValues
    <3>3. ~DeleteRow(r)
      BY <2>0 DEF DeleteRow
    <3> QED
      BY <2>3, <2>9, <3>1, <3>2, <3>3, RequestedValid
      DEF ApiStep, UpdateLoad, DeleteUnschedule, UpdateFails, TellScheduler,
          DeleteFails
  <2> QED
    BY <2>2, <2>3, <2>9
    DEF Next, vars, WorkerStep, EnqueueJob, ScrapeBegins, ScrapeLoads,
        ScrapeFails, Restart
<1> QED BY <1>1, <1>2, <1>3, PTL DEF Spec, DeletedStaysDeleted
=============================================================================
