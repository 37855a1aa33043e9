----------------------------- MODULE Schedules ------------------------------
(***************************************************************************)
(* Websites and notification channels in the database, and the cron        *)
(* entries of internal/scheduler that should mirror them.  Three parties   *)
(* change them, none of them in a transaction:                             *)
(*   the API's handlers (website.go, notification.go): read a row, save    *)
(*     it, then tell the scheduler; or unschedule, then delete;            *)
(*   the scrape workers, which load a website before a scrape and save the *)
(*     whole row after it, to set LastScraped;                             *)
(*   a restart, which forgets every entry and loads them from the rows.    *)
(* A step is one database statement or one critical section of the         *)
(* scheduler's mutex.                                                      *)
(*                                                                         *)
(* The database is external (gorm on PostgreSQL).  Save updates the row,   *)
(* or inserts it again when it is gone; a website that other rows refer to *)
(* cannot be deleted; a channel is deleted softly, so its row still refers *)
(* to its website.  On an insert, the tag default:true of Enabled replaces *)
(* a false.  A channel stays with its website: Save writes the foreign key *)
(* of the preloaded Website back.  Nothing serialises the handlers: two    *)
(* requests may be anywhere in the work on one target.  Templates, and the *)
(* websites that TRUSTPILOT_URL adds at startup, are outside this module.  *)
(***************************************************************************)
CONSTANTS
    Sites, Channels,   \* identities; the database never uses one twice
    SiteOf,            \* the website of each channel
    ValidSchedules,    \* cron expressions AddFunc accepts
    BadSchedules,      \* strings it refuses; no handler looks at them
    Requested,         \* the schedules that requests give each target
    Requests,          \* API calls that can be in progress at once
    ScrapeWorkers,
    Never, Gone,       \* instead of a row: not created yet, deleted
    None,              \* no cron entry, no target, nothing loaded
    DbMayFail          \* statements may fail (references always may)

Target == Sites \union Channels

Settings == [enabled : BOOLEAN, schedule : ValidSchedules \union BadSchedules]

ASSUME SchedulesAssumption ==
    /\ Sites \intersect Channels = {}
    /\ SiteOf \in [Channels -> Sites]
    /\ ValidSchedules \intersect BadSchedules = {}
    /\ Requested \in [Target -> SUBSET (ValidSchedules \union BadSchedules)]
    /\ Never # Gone
    /\ {Never, Gone, None} \intersect Settings = {}
    /\ None \notin Target \union ValidSchedules
    /\ DbMayFail \in BOOLEAN

VARIABLES
    row,           \* websites and notification_channels: the settings
    recorded,      \* websites with rows in scrape_jobs, ratings or reviews
    entries,       \* Scheduler.entries and notificationEntries, with cron's
    queued,        \* websites with a job in the queue
    req,           \* the API calls in progress
    scrape,        \* the scrapes in progress
    overwritten,   \* history: settings changed by a scrape since the API did
    orphaned,      \* history: entry lost although the settings stayed
    overlapped     \* history: targets of requests that ran at the same time,
                   \* until a later one gets by alone

vars == <<row, recorded, entries, queued, req, scrape, overwritten, orphaned,
          overlapped>>

IdleRequest == [at |-> "idle", target |-> None, copy |-> None]
IdleWorker == [at |-> "idle", site |-> None, copy |-> None, inserted |-> FALSE]

Init ==
    /\ row = [t \in Target |-> Never]
    /\ recorded = {}
    /\ entries = [t \in Target |-> None]
    /\ queued = {}
    /\ req = [r \in Requests |-> IdleRequest]
    /\ scrape = [w \in ScrapeWorkers |-> IdleWorker]
    /\ overwritten = {}
    /\ orphaned = {}
    /\ overlapped = {}

-----------------------------------------------------------------------------
Stored(t) == row[t] \in Settings

(* Mutant: scrapes leave no row that refers to their website. *)
ReferencedByChannels(s) ==
    \E c \in Channels : SiteOf[c] = s /\ row[c] # Never

Referenced(s) ==
    \/ s \in recorded
    \/ \E c \in Channels : SiteOf[c] = s /\ row[c] # Never

Live(t) == Stored(t) /\ row[t].enabled

(* What Save leaves in the table. *)
SavedAs(t, copy) ==
    IF Stored(t) THEN copy ELSE [copy EXCEPT !.enabled = TRUE]

(* Mutant: cron's refusal is not noticed. *)
ScheduleUnparsed(t, settings) ==
    entries' = [entries EXCEPT
        ![t] = IF settings.enabled THEN settings.schedule ELSE None]

(* Mutant: returns for a disabled target before it removed the old entry. *)
ScheduleEnabledOnly(t, settings) ==
    entries' = [entries EXCEPT
        ![t] = IF settings.enabled /\ settings.schedule \in ValidSchedules
                 THEN settings.schedule ELSE @]

(* Mutant: a target that has an entry keeps it. *)
ScheduleUnscheduled(t, settings) ==
    entries' = [entries EXCEPT
        ![t] = IF settings.enabled /\ settings.schedule \in ValidSchedules
                 THEN IF @ = None THEN settings.schedule ELSE @
                 ELSE None]

(* ScheduleWebsite and ScheduleNotificationChannel: the old entry goes, a   *)
(* new one comes if the target is enabled and cron accepts its schedule.    *)
(* The handlers drop the error.                                             *)
Schedule(t, settings) ==
    entries' = [entries EXCEPT
        ![t] = IF settings.enabled /\ settings.schedule \in ValidSchedules
                 THEN settings.schedule ELSE None]

(* UnscheduleWebsite and UnscheduleNotificationChannel. *)
Unschedule(t) == entries' = [entries EXCEPT ![t] = None]

-----------------------------------------------------------------------------
(* The API.  A request without effect (404, 400) is no step; one that ends  *)
(* early leaves what it did so far.                                         *)
Alone(r, t) == \A q \in Requests \ {r} : req[q].target # t

(* Another request for the target is in progress, or what this one does to  *)
(* row and entry is not interfered with so far.                             *)
Interference(r, t) ==
    overlapped' = IF Alone(r, t) THEN overlapped \ {t}
                                 ELSE overlapped \union {t}

Proceed(r, where, t, copy) ==
    req' = [req EXCEPT ![r] = [at |-> where, target |-> t, copy |-> copy]]

Respond(r) == req' = [req EXCEPT ![r] = IdleRequest]

(* Create: the row is inserted enabled, whatever the request says, and the  *)
(* struct in the handler's hands says so too.                               *)
Create(r, t, schedule) ==
    LET settings == [enabled |-> TRUE, schedule |-> schedule] IN
    /\ req[r].at = "idle"
    /\ row[t] = Never
    /\ t \in Channels => Stored(SiteOf[t])
    /\ row' = [row EXCEPT ![t] = settings]
    /\ Proceed(r, "saved", t, settings)
    /\ Interference(r, t)
    /\ UNCHANGED <<recorded, entries, queued, scrape, overwritten, orphaned>>

(* Update reads the row and applies the fields the request has. *)
UpdateLoad(r, t, settings) ==
    /\ req[r].at = "idle"
    /\ Stored(t)
    /\ Proceed(r, "loaded", t, settings)
    /\ overlapped' = IF Alone(r, t) THEN overlapped ELSE overlapped \union {t}
    /\ UNCHANGED <<row, recorded, entries, queued, scrape, overwritten,
                   orphaned>>

UpdateSave(r) ==
    LET t == req[r].target
        settings == SavedAs(t, req[r].copy) IN
    /\ req[r].at = "loaded"
    /\ row' = [row EXCEPT ![t] = settings]
    /\ Proceed(r, "saved", t, settings)
    /\ overwritten' = overwritten \ {t}
    /\ Interference(r, t)
    /\ UNCHANGED <<recorded, entries, queued, scrape, orphaned>>

(* The request is refused after the read, or the statement fails. *)
UpdateFails(r) ==
    /\ req[r].at = "loaded"
    /\ Respond(r)
    /\ UNCHANGED <<row, recorded, entries, queued, scrape, overwritten,
                   orphaned, overlapped>>

(* The last step of Create and of Update. *)
TellScheduler(r) ==
    /\ req[r].at = "saved"
    /\ Schedule(req[r].target, req[r].copy)
    /\ Respond(r)
    /\ orphaned' = orphaned \ {req[r].target}
    /\ UNCHANGED <<row, recorded, queued, scrape, overwritten, overlapped>>

(* Delete unschedules first, without a look at the row. *)
DeleteUnschedule(r, t) ==
    /\ req[r].at = "idle"
    /\ row[t] # Never
    /\ Unschedule(t)
    /\ Proceed(r, "unscheduled", t, None)
    /\ Interference(r, t)
    /\ UNCHANGED <<row, recorded, queued, scrape, overwritten, orphaned>>

DeleteRow(r) ==
    LET t == req[r].target IN
    /\ req[r].at = "unscheduled"
    /\ t \in Sites => ~Referenced(t)
    /\ row' = [row EXCEPT ![t] = Gone]
    /\ Respond(r)
    /\ UNCHANGED <<recorded, entries, queued, scrape, overwritten, orphaned,
                   overlapped>>

DeleteFails(r) ==
    LET t == req[r].target IN
    /\ req[r].at = "unscheduled"
    /\ DbMayFail \/ (t \in Sites /\ Referenced(t))
    /\ Respond(r)
    /\ orphaned' = orphaned \union {t}
    /\ UNCHANGED <<row, recorded, entries, queued, scrape, overwritten,
                   overlapped>>

-----------------------------------------------------------------------------
(* enqueueJob, called by a cron entry or by the trigger endpoint, asks       *)
(* whether the row is there, not whether it is enabled.  (A notification    *)
(* run changes none of what this module keeps.)                             *)
EnqueueJob(s) ==
    /\ Stored(s)
    /\ queued' = queued \union {s}
    /\ UNCHANGED <<row, recorded, entries, req, scrape, overwritten, orphaned,
                   overlapped>>

-----------------------------------------------------------------------------
(* processJob of a scrape worker inserts its record, which fails if the     *)
(* website is gone, and goes on in any case.                                *)
ScrapeBegins(w, s, inserted) ==
    /\ scrape[w].at = "idle"
    /\ s \in queued
    /\ inserted => Stored(s)
    /\ ~inserted => ~Stored(s) \/ DbMayFail
    /\ queued' = queued \ {s}
    /\ recorded' = IF inserted THEN recorded \union {s} ELSE recorded
    /\ scrape' = [scrape EXCEPT
          ![w] = [at |-> "begun", site |-> s, copy |-> None,
                  inserted |-> inserted]]
    /\ UNCHANGED <<row, entries, req, overwritten, orphaned, overlapped>>

ScrapeLoads(w) ==
    LET s == scrape[w].site IN
    /\ scrape[w].at = "begun"
    /\ Stored(s)
    /\ scrape' = [scrape EXCEPT
          ![w] = [at |-> "loaded", site |-> s, copy |-> row[s],
                  inserted |-> @.inserted]]
    /\ UNCHANGED <<row, recorded, entries, queued, req, overwritten, orphaned,
                   overlapped>>

(* The pages are scraped and the reviews saved; the website's row is        *)
(* written as it was loaded, with a new LastScraped.                        *)
ScrapeSaves(w) ==
    LET s == scrape[w].site
        settings == SavedAs(s, scrape[w].copy) IN
    /\ scrape[w].at = "loaded"
    /\ row' = [row EXCEPT ![s] = settings]
    /\ overwritten' = IF row[s] = settings THEN overwritten
                                           ELSE overwritten \union {s}
    /\ scrape' = [scrape EXCEPT ![w] = IdleWorker]
    /\ UNCHANGED <<recorded, entries, queued, req, orphaned, overlapped>>

(* failJob: no website, a failed scrape; with a retry or without.  A failed *)
(* Save of the row ends the run as well.                                    *)
ScrapeFails(w, retry) ==
    /\ scrape[w].at # "idle"
    /\ scrape[w].at = "begun" => ~Stored(scrape[w].site) \/ DbMayFail
    /\ queued' = IF retry THEN queued \union {scrape[w].site} ELSE queued
    /\ scrape' = [scrape EXCEPT ![w] = IdleWorker]
    /\ UNCHANGED <<row, recorded, entries, req, overwritten, orphaned,
                   overlapped>>

-----------------------------------------------------------------------------
(* Scheduler.Start after a restart of the process.  Without an enabled      *)
(* website it returns before it comes to the channels, and a failed query   *)
(* for them is only logged.  (If the query for the websites fails, Start    *)
(* returns an error and the process ends.)                                  *)
Loads(t, channelsRead) ==
    /\ \E s \in Sites : Live(s)
    /\ t \in Channels => channelsRead

Restart(channelsRead) ==
    /\ ~channelsRead => DbMayFail
    /\ entries' = [t \in Target |->
          IF Live(t) /\ row[t].schedule \in ValidSchedules
               /\ Loads(t, channelsRead)
            THEN row[t].schedule ELSE None]
    /\ queued' = {}
    /\ req' = [r \in Requests |-> IdleRequest]
    /\ scrape' = [w \in ScrapeWorkers |-> IdleWorker]
    /\ overwritten' = {}
    /\ orphaned' = {t \in Target : Live(t) /\ ~Loads(t, channelsRead)}
    /\ overlapped' = {}
    /\ UNCHANGED <<row, recorded>>

-----------------------------------------------------------------------------
ApiStep(r) ==
    \/ \E t \in Target : \E schedule \in Requested[t] : Create(r, t, schedule)
    \/ \E t \in Target, settings \in Settings :
          settings.schedule \in Requested[t] /\ UpdateLoad(r, t, settings)
    \/ \E t \in Target : DeleteUnschedule(r, t)
    \/ UpdateSave(r) \/ UpdateFails(r) \/ TellScheduler(r)
    \/ DeleteRow(r) \/ DeleteFails(r)

WorkerStep(w) ==
    \/ \E s \in Sites, inserted \in BOOLEAN : ScrapeBegins(w, s, inserted)
    \/ ScrapeLoads(w) \/ ScrapeSaves(w)
    \/ \E retry \in BOOLEAN : ScrapeFails(w, retry)

Next ==
    \/ \E r \in Requests : ApiStep(r)
    \/ \E s \in Sites : EnqueueJob(s)
    \/ \E w \in ScrapeWorkers : WorkerStep(w)
    \/ \E channelsRead \in BOOLEAN : Restart(channelsRead)

Spec == Init /\ [][Next]_vars

-----------------------------------------------------------------------------
(* The types of the tables, the entries and the work in progress. *)
TypeOK ==
    /\ row \in [Target -> Settings \union {Never, Gone}]
    /\ recorded \subseteq Sites
    /\ entries \in [Target -> ValidSchedules \union {None}]
    /\ queued \subseteq Sites
    /\ req \in [Requests -> [at : {"idle", "loaded", "saved", "unscheduled"},
                            target : Target \union {None},
                            copy : Settings \union {None}]]
    /\ scrape \in [ScrapeWorkers -> [at : {"idle", "begun", "loaded"},
                                    site : Sites \union {None},
                                    copy : Settings \union {None},
                                    inserted : BOOLEAN]]
    /\ overwritten \subseteq Target
    /\ orphaned \subseteq Target
    /\ overlapped \subseteq Target

(* No request is between its statement and its call of the scheduler. *)
Quiet(t) == \A r \in Requests : req[r].target # t

(* What the scheduler runs is what the database says: behind the last       *)
(* request for a target, an entry belongs to an enabled row and has its     *)
(* schedule, also across failed deletes, refused updates, schedules cron    *)
(* cannot parse and restarts.  Two things can change a row behind the       *)
(* scheduler's back: a scrape's Save, and requests for one target that ran  *)
(* at the same time (until a later one has it for itself).                  *)
ScheduledAsStored ==
    \A t \in Target :
        /\ Quiet(t)
        /\ t \notin overwritten \union overlapped
        /\ entries[t] # None
        => Live(t) /\ row[t].schedule = entries[t]

(* And the other way round: an enabled target with a schedule cron accepts  *)
(* is scheduled, unless a Delete failed behind its Unschedule, Start left   *)
(* the channels out or could not read them, and no update came since; or a  *)
(* scrape or overlapping requests came between, as above.                   *)
EnabledIsScheduled ==
    \A t \in Target :
        /\ Quiet(t)
        /\ t \notin overwritten \union overlapped \union orphaned
        /\ Live(t)
        /\ row[t].schedule \in ValidSchedules
        => entries[t] = row[t].schedule

(* A website cannot be deleted under a running scrape, whatever a Delete    *)
(* call, other workers and restarts do meanwhile: the scrape's own record   *)
(* refers to it.                                                            *)
ScrapedSiteStays ==
    \A w \in ScrapeWorkers : scrape[w].inserted => Stored(scrape[w].site)

(* A deleted target stays deleted.  The insert half of Save brings it back  *)
(* in two cases only: a scrape went on although its own record was not      *)
(* written, or an Update had read the row before a Delete that ran beside   *)
(* it.                                                                      *)
DeletedStaysDeleted ==
    [][\A t \in Target :
          row[t] = Gone /\ row'[t] # Gone =>
              \/ t \in overlapped
              \/ \E w \in ScrapeWorkers :
                    scrape[w].site = t /\ ~scrape[w].inserted]_vars

(* The comment above the Save in processJob: "Update website last scraped". *)
(* A scrape would then leave the settings alone.                            *)
ScrapeKeepsSettings == overwritten = {}

(* The comment in Start: "Load all enabled notification channels and        *)
(* schedule them".                                                          *)
EnabledChannelsScheduled ==
    \A c \in Channels :
        Quiet(c) /\ Live(c) /\ row[c].schedule \in ValidSchedules =>
            entries[c] = row[c].schedule
=============================================================================
