------------------------------- MODULE Service ------------------------------
(***************************************************************************)
(* cmd/service/main.go from start to end: the startup of Startup.tla, then *)
(* the pools, the scheduler and the API server are started, main waits for *)
(* a signal or for the API server's error, and stops them in order.        *)
(*                                                                         *)
(* Between its two waits main starts the API server a second time (lines   *)
(* 153-170), in a goroutine that races with Shutdown.  So there are two    *)
(* calls of server.Start: each binds the port when it comes to it, and     *)
(* Shutdown closes the listeners of that moment.  fiber, cron and net/http *)
(* are external: Shutdown then waits for the open requests without a       *)
(* limit, Stop of cron waits for the functions that run.                   *)
(*                                                                         *)
(* A job is followed from the API call or the cron entry that creates it   *)
(* to its end.  Retries, priorities, and what the two kinds of workers do  *)
(* to each other's jobs is Dispatch.tla's matter: here a job that is taken *)
(* goes back to the queue or ends.  The queue is in memory.                *)
(***************************************************************************)
EXTENDS Startup

CONSTANTS
    Jobs,          \* jobs one process is asked for
    ScrapeJobs     \* those of websites; the others are notifications

ASSUME ServiceAssumption == ScrapeJobs \subseteq Jobs

Starts == {1, 2}               \* the calls of server.Start, by goroutine
Pools == {"scrape", "notification"}
PoolOf(j) == IF j \in ScrapeJobs THEN "scrape" ELSE "notification"

VARIABLES
    apiEnabled,  \* API_ENABLED
    signalled,   \* main's context is done
    listener,    \* the two calls of server.Start
    cron,        \* the cron entries fire
    pool,        \* the worker pools
    job,         \* where each job is
    via,         \* what created it: a call of server.Start's listener, 0 cron
    open,        \* an API request without a job is being answered
    acceptedLate,\* history: jobs the queue took when their pool was stopped
    stuck,       \* jobs with a record that says running for ever
    unsaved,     \* history: scrape jobs whose end was not written to its record
    cutShort     \* history: scrapes may have been cut off by the process's end

processVars == <<apiEnabled, signalled, listener, cron, pool>>
jobVars == <<job, via, open, acceptedLate>>
recordVars == <<stuck, unsaved, cutShort>>
vars == <<startupVars, processVars, jobVars, recordVars>>

InMemory == {"requested", "fired", "queued", "running"}

NoListener == [i \in Starts |-> "off"]
NoPool == [p \in Pools |-> "off"]

Init ==
    /\ StartupInit
    /\ apiEnabled = FALSE /\ signalled = FALSE /\ cron = FALSE
    /\ listener = NoListener
    /\ pool = NoPool
    /\ job = [j \in Jobs |-> "new"]
    /\ via = [j \in Jobs |-> 0]
    /\ open = FALSE
    /\ acceptedLate = {}
    /\ stuck = {} /\ unsaved = {} /\ cutShort = FALSE

-----------------------------------------------------------------------------
(* A new process: every job can be asked for once more, and its records are *)
(* followed from here.                                                      *)
Start(drop, api) ==
    /\ Boot(drop)
    /\ apiEnabled' = api
    /\ job' = [j \in Jobs |-> "new"]
    /\ via' = [j \in Jobs |-> 0]
    /\ stuck' = {} /\ unsaved' = {} /\ cutShort' = FALSE
    /\ UNCHANGED <<signalled, listener, cron, pool, open, acceptedLate>>

PrepareDatabase ==
    /\ StartupStep
    /\ UNCHANGED <<jobVars, recordVars>>
    /\ IF at' = "down"
         THEN apiEnabled' = FALSE /\ UNCHANGED <<signalled, listener, cron, pool>>
         ELSE UNCHANGED processVars

Goto(from, to) ==
    /\ at = from
    /\ at' = to
    /\ UNCHANGED <<next, dbVars, cut, failed>>

StartPools ==
    /\ Goto("ready", "starting")
    /\ pool' = [p \in Pools |-> "on"]
    /\ UNCHANGED <<apiEnabled, signalled, listener, cron, jobVars, recordVars>>

(* sched.Start; its error cancels main's context, and main goes on. *)
StartScheduler ==
    /\ Goto("starting", "startingApi")
    /\ \/ cron' = TRUE /\ UNCHANGED signalled
       \/ signalled' = TRUE /\ UNCHANGED cron
    /\ UNCHANGED <<apiEnabled, listener, pool, jobVars, recordVars>>

GoStart(i) == listener' = IF apiEnabled THEN [listener EXCEPT ![i] = "starting"]
                                        ELSE listener

StartApi ==
    /\ Goto("startingApi", "serving")
    /\ GoStart(1)
    /\ UNCHANGED <<apiEnabled, signalled, cron, pool, jobVars, recordVars>>

(* server.Start in its goroutine: Listen binds the port, or finds it taken, *)
(* by the other call or by another program.                                 *)
Bind(i) ==
    /\ listener[i] = "starting"
    /\ \/ /\ \A k \in Starts : listener[k] # "listening"
          /\ listener' = [listener EXCEPT ![i] = "listening"]
       \/ listener' = [listener EXCEPT ![i] = "failed"]
    /\ UNCHANGED <<startupVars, apiEnabled, signalled, cron, pool, jobVars,
                   recordVars>>

(* signal.NotifyContext is installed right before the pools start. *)
Signal ==
    /\ at \notin {"down", "dropping", "migrating", "initializing", "ready"}
    /\ signalled' = TRUE
    /\ UNCHANGED <<startupVars, apiEnabled, listener, cron, pool, jobVars,
                   recordVars>>

-----------------------------------------------------------------------------
(* The service at work. *)
ChangeData ==
    /\ at = "serving"
    /\ \/ \E t \in TableSet : FillTable(t)
       \/ \E s \in Sites : EditSite(s) \/ DeleteSite(s)
    /\ UNCHANGED <<processVars, jobVars, recordVars>>

(* TriggerScrape and Trigger, before they come to the queue. *)
ApiRequest(i, j) ==
    /\ listener[i] = "listening"
    /\ job[j] = "new"
    /\ job' = [job EXCEPT ![j] = "requested"]
    /\ via' = [via EXCEPT ![j] = i]
    /\ UNCHANGED <<startupVars, processVars, open, acceptedLate, recordVars>>

(* Any other request. *)
OtherRequest ==
    /\ ~open
    /\ \E i \in Starts : listener[i] = "listening"
    /\ open' = TRUE
    /\ UNCHANGED <<startupVars, processVars, job, via, acceptedLate, recordVars>>

AnswerOther ==
    /\ open
    /\ open' = FALSE
    /\ UNCHANGED <<startupVars, processVars, job, via, acceptedLate, recordVars>>

CronFires(j) ==
    /\ cron
    /\ job[j] = "new"
    /\ job' = [job EXCEPT ![j] = "fired"]
    /\ UNCHANGED <<startupVars, processVars, via, open, acceptedLate, recordVars>>

(* enqueueJob, enqueueNotificationJob: the closed queue refuses. *)
CallEnqueue(j) ==
    /\ job[j] \in {"requested", "fired"}
    /\ job' = [job EXCEPT ![j] = IF at = "closed" THEN "refused" ELSE "queued"]
    /\ acceptedLate' =
          IF at # "closed" /\ pool[PoolOf(j)] # "on"
            THEN acceptedLate \union {j} ELSE acceptedLate
    /\ UNCHANGED <<startupVars, processVars, via, open, recordVars>>

(* Workers take jobs until they exit, also behind the cancellation.  Once   *)
(* the queue is closed there is nothing to take.                            *)
Take(j) ==
    /\ job[j] = "queued"
    /\ at # "closed"
    /\ pool[PoolOf(j)] \in {"on", "stopping", "abandoned"}
    /\ job' = [job EXCEPT ![j] = "running"]
    /\ UNCHANGED <<startupVars, processVars, via, open, acceptedLate, recordVars>>

(* The job ends or goes back to the queue, whether or not the Save that     *)
(* writes a scrape's end to its record is successful: its error is dropped, *)
(* and the next attempt has a record of its own.                            *)
EndRun(j) ==
    /\ job[j] = "running"
    /\ \E where \in {"done", "queued"} : job' = [job EXCEPT ![j] = where]
    /\ \/ UNCHANGED <<stuck, unsaved>>
       \/ /\ j \in ScrapeJobs
          /\ stuck' = stuck \union {j}
          /\ unsaved' = unsaved \union {j}
    /\ UNCHANGED <<startupVars, processVars, via, open, acceptedLate, cutShort>>

-----------------------------------------------------------------------------
(* The end of the first wait; the API server is started again, in a         *)
(* goroutine whose error nobody reads; the second wait is over at once.     *)
EndServing ==
    /\ Goto("serving", "stoppingApi")
    /\ signalled \/ listener[1] = "failed"
    /\ signalled' = TRUE
    /\ GoStart(2)
    /\ UNCHANGED <<apiEnabled, cron, pool, jobVars, recordVars>>

(* server.Shutdown: no new connections, and the open requests are answered. *)
ShutdownApi ==
    /\ Goto("stoppingApi", "draining")
    /\ listener' = [i \in Starts |->
          IF listener[i] = "listening" THEN "closed" ELSE listener[i]]
    /\ UNCHANGED <<apiEnabled, signalled, cron, pool, jobVars, recordVars>>

(* Mutant: Shutdown does not wait for the requests. *)
ApiDownUnanswered ==
    /\ Goto("draining", "stoppingCron")
    /\ UNCHANGED <<processVars, jobVars, recordVars>>

ApiDown ==
    /\ Goto("draining", "stoppingCron")
    /\ ~open
    /\ \A j \in Jobs : job[j] # "requested"
    /\ UNCHANGED <<processVars, jobVars, recordVars>>

(* sched.Stop. *)
StopCron ==
    /\ Goto("stoppingCron", "waitingCron")
    /\ cron' = FALSE
    /\ UNCHANGED <<apiEnabled, signalled, listener, pool, jobVars, recordVars>>

CronStopped ==
    /\ Goto("waitingCron", "stoppingScrape")
    /\ \A j \in Jobs : job[j] # "fired"
    /\ UNCHANGED <<processVars, jobVars, recordVars>>

(* Pool.Stop cancels the workers' context. *)
StopPool(p, from, to) ==
    /\ Goto(from, to)
    /\ pool' = [pool EXCEPT ![p] = "stopping"]
    /\ UNCHANGED <<apiEnabled, signalled, listener, cron, jobVars, recordVars>>

Working(p) == \E j \in Jobs : job[j] = "running" /\ PoolOf(j) = p

(* Mutant: Stop does not wait for the workers. *)
PoolDrainedUnwaited(p, from, to) ==
    /\ Goto(from, to)
    /\ pool' = [pool EXCEPT ![p] = "drained"]
    /\ UNCHANGED <<apiEnabled, signalled, listener, cron, jobVars, recordVars>>

(* And waits for the workers to exit. *)
PoolDrained(p, from, to) ==
    /\ Goto(from, to)
    /\ ~Working(p)
    /\ pool' = [pool EXCEPT ![p] = "drained"]
    /\ UNCHANGED <<apiEnabled, signalled, listener, cron, jobVars, recordVars>>

(* Mutant: Stop has no timeout. *)
PoolNeverTimesOut(p, from, to) == FALSE /\ UNCHANGED vars

(* But not longer than SHUTDOWN_TIMEOUT. *)
PoolTimesOut(p, from, to) ==
    /\ Goto(from, to)
    /\ Working(p)
    /\ pool' = [pool EXCEPT ![p] = "abandoned"]
    /\ cutShort' = (cutShort \/ p = "scrape")
    /\ UNCHANGED <<apiEnabled, signalled, listener, cron, jobVars, stuck, unsaved>>

PoolStep(p, begin, wait, end) ==
    \/ StopPool(p, begin, wait)
    \/ PoolDrained(p, wait, end)
    \/ PoolTimesOut(p, wait, end)

CloseQueue ==
    /\ Goto("closingQueue", "closed")
    /\ UNCHANGED <<processVars, jobVars, recordVars>>

(* The end of the process leaves nothing of the jobs it had in memory but   *)
(* the record of a scrape in progress, which goes on saying running.        *)
Forgotten == [j \in Jobs |-> IF job[j] \in InMemory THEN "lost" ELSE job[j]]

InProgress == {j \in ScrapeJobs : job[j] = "running"}

Vanish ==
    /\ ProcessEnds
    /\ apiEnabled' = FALSE /\ signalled' = FALSE /\ cron' = FALSE
    /\ listener' = NoListener
    /\ pool' = NoPool
    /\ job' = Forgotten
    /\ stuck' = stuck \union InProgress
    /\ open' = FALSE
    /\ acceptedLate' = {}
    /\ UNCHANGED <<via, unsaved>>

(* main waits until shutdownCtx has timed out, in any case, and returns. *)
Exit ==
    /\ at = "closed"
    /\ Vanish
    /\ UNCHANGED cutShort

(* The process is killed, a statement of the startup fails, or a worker     *)
(* panics: MustNewManaged and MustClient do when the browser's manager      *)
(* cannot be reached, and no goroutine recovers.                            *)
Crash ==
    /\ at # "down"
    /\ Vanish
    /\ cutShort' = TRUE

-----------------------------------------------------------------------------
ShutdownStep ==
    \/ EndServing \/ ShutdownApi \/ ApiDown \/ StopCron \/ CronStopped
    \/ PoolStep("scrape", "stoppingScrape", "waitingScrape", "stoppingNotif")
    \/ PoolStep("notification", "stoppingNotif", "waitingNotif", "closingQueue")
    \/ CloseQueue \/ Exit

MainStep ==
    \/ PrepareDatabase \/ StartPools \/ StartScheduler \/ StartApi
    \/ ShutdownStep

JobStep(j) ==
    \/ \E i \in Starts : ApiRequest(i, j)
    \/ CronFires(j) \/ CallEnqueue(j) \/ Take(j) \/ EndRun(j)

Next ==
    \/ \E drop, api \in BOOLEAN : Start(drop, api)
    \/ MainStep
    \/ \E i \in Starts : Bind(i)
    \/ Signal
    \/ ChangeData
    \/ \E j \in Jobs : JobStep(j)
    \/ OtherRequest \/ AnswerOther
    \/ Crash

Spec == Init /\ [][Next]_vars

(* main and the handlers are scheduled, and their statements return; an     *)
(* open request is answered in the end, which a client that stalls while it *)
(* sends or reads would prevent (the server has no ReadTimeout).  A worker  *)
(* may be in a webhook call or a browser's for ever; nobody has to call the *)
(* API, to send a signal, or to start the service again.                    *)
FairSpec ==
    /\ Spec
    /\ WF_vars(MainStep)
    /\ WF_vars(AnswerOther)
    /\ \A j \in Jobs : WF_vars(CallEnqueue(j))

-----------------------------------------------------------------------------
Phases ==
    {"down", "dropping", "migrating", "initializing", "ready", "starting",
     "startingApi", "serving", "stoppingApi", "draining", "stoppingCron",
     "waitingCron", "stoppingScrape", "waitingScrape", "stoppingNotif",
     "waitingNotif", "closingQueue", "closed"}

(* The types of the database's, the process's and the jobs' state. *)
TypeOK ==
    /\ at \in Phases
    /\ next \in 1..(1 + IF at = "initializing" THEN Len(EnvSites)
                     ELSE IF at \in {"dropping", "migrating"} THEN Len(Tables)
                     ELSE 0)
    /\ exists \subseteq TableSet
    /\ fks \subseteq References
    /\ filled \subseteq TableSet
    /\ site \in [Sites -> {"none", "listed", "edited"}]
    /\ cut \in BOOLEAN /\ failed \in BOOLEAN
    /\ apiEnabled \in BOOLEAN /\ signalled \in BOOLEAN /\ cron \in BOOLEAN
    /\ listener \in [Starts -> {"off", "starting", "listening", "failed",
                                "closed"}]
    /\ pool \in [Pools -> {"off", "on", "stopping", "drained", "abandoned"}]
    /\ job \in [Jobs -> InMemory \union {"new", "refused", "done", "lost"}]
    /\ via \in [Jobs -> Starts \union {0}]
    /\ open \in BOOLEAN
    /\ acceptedLate \subseteq Jobs
    /\ stuck \subseteq ScrapeJobs /\ unsaved \subseteq ScrapeJobs
    /\ cutShort \in BOOLEAN

(* Producers end before consumers: the queue accepts a job only while the   *)
(* workers of its kind are not yet told to stop.  (It may still be lost     *)
(* when they are told right behind it, as the queue is in memory.)  The     *)
(* only way around is an API server that bound the port behind Shutdown:    *)
(* the second call of Start, or a late first one.                           *)
AcceptedWhileWorked ==
    \A j \in acceptedLate :
        via[j] \in Starts /\ listener[via[j]] = "listening"

(* A scrape_jobs row says running for ever (and counts as an active worker  *)
(* in /api/stats) only for these reasons: the Save of its end failed, the   *)
(* process was killed or panicked during a scrape, or the pool's Stop gave  *)
(* up waiting for one.  An orderly stop leaves no such row of its own.      *)
StuckForAReason == stuck \subseteq unsaved \/ cutShort

(* Asked to stop, the process ends, although workers may hang for ever, as  *)
(* long as every open request is answered in the end: Shutdown has no limit *)
(* of its own.  The exception is an API server that bound the port behind   *)
(* Shutdown and gets requests all the time, which Shutdown waits for.       *)
StopsInTheEnd ==
    signalled ~> \/ at = "down"
                 \/ at = "draining" /\ \E i \in Starts : listener[i] = "listening"
=============================================================================
