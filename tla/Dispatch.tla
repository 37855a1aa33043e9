------------------------------ MODULE Dispatch ------------------------------
(***************************************************************************)
(* internal/worker: the scrape workers and the notification workers take   *)
(* jobs from one shared queue (cmd/service/main.go gives both pools the    *)
(* same MemoryQueue), run them, record the outcome in the database and     *)
(* settle them.  main stops the pools one after the other and closes the   *)
(* queue.  The queue is the abstract one, JobQueue, which MemoryQueue      *)
(* implements.                                                             *)
(*                                                                         *)
(* A worker's goroutine is a pc and the job it holds:                      *)
(*   idle      at the head of the loop in Start                            *)
(*   polling   in Dequeue, about to look under the mutex                   *)
(*   waiting   in Dequeue's select, after an empty look                    *)
(*   taken     holds a job, has done nothing with it                       *)
(*   working   scrapes the pages, or loads channel, template and review    *)
(*   sending   in the webhook call (notification workers only)             *)
(*   acking, nacking   the outcome is recorded, the job not yet settled    *)
(*   exited    Start returned                                              *)
(*                                                                         *)
(* Two calls need not return: the webhook call has no timeout, and a scrape *)
(* starts its browser (connectToChrome, browser.Page) with neither its     *)
(* context nor a timeout.  If the launcher cannot be reached,              *)
(* launcher.MustNewManaged and MustClient panic; no goroutine recovers, so *)
(* the process ends.                                                       *)
(*                                                                         *)
(* What a run saves beside its job record (reviews, ratings, the website,  *)
(* the sent reviews) is outside this module.                               *)
(***************************************************************************)
EXTENDS JobQueue, Sequences

CONSTANTS
    ScrapeJobs,            \* jobs enqueued by enqueueJob; the others come
                           \* from enqueueNotificationJob
    ScrapeWorkers,         \* goroutines of worker.Pool
    NotificationWorkers,   \* goroutines of worker.NotificationPool
    NoJob,                 \* what a worker without a job holds
    DbMayFail              \* writes of job records may fail

ASSUME DispatchAssumption ==
    /\ ScrapeJobs \subseteq Job
    /\ ScrapeWorkers \intersect NotificationWorkers = {}
    /\ NoJob \notin Job
    /\ DbMayFail \in BOOLEAN

Workers == ScrapeWorkers \union NotificationWorkers

VARIABLES
    pc,          \* where each worker is
    holds,       \* the job each worker holds
    hasRow,      \* the ScrapeJob struct of a scrape worker got its ID
    rows,        \* per job, the records its runs left: scrape_jobs rows of a
                 \* scrape job, notification_jobs rows of a notification job
    cancelled,   \* the workers whose pool's context is cancelled
    mainAt,      \* how far main's shutdown is, or that the process panicked
    runs,        \* history: times a job was taken by a worker of its kind
    bounces,     \* history: times a job was taken by one of the other kind
    late         \* history: jobs a worker took after it was cancelled

workerVars == <<pc, holds, hasRow, rows, runs, bounces, late>>
mainVars == <<cancelled, mainAt>>
vars == <<qvars, workerVars, mainVars>>

PCs == {"idle", "polling", "waiting", "taken", "working", "sending",
        "acking", "nacking", "exited"}
Busy == {"taken", "working", "sending", "acking", "nacking"}
RowStatus == {"running", "completed", "failed", "sent"}

OwnKind(w, j) == (w \in ScrapeWorkers) <=> (j \in ScrapeJobs)

Init ==
    /\ JobQueueInit
    /\ pc = [w \in Workers |-> "idle"]
    /\ holds = [w \in Workers |-> NoJob]
    /\ hasRow = [w \in Workers |-> FALSE]
    /\ rows = [j \in Job |-> <<>>]
    /\ cancelled = {}
    /\ mainAt = "serving"
    /\ runs = [j \in Job |-> 0]
    /\ bounces = [j \in Job |-> 0]
    /\ late = [w \in Workers |-> 0]

Goto(w, there) == pc' = [pc EXCEPT ![w] = there]

Alive == mainAt # "panicked"

-----------------------------------------------------------------------------
(* Producers: a cron entry fires (normal priority) or an API call triggers *)
(* (high priority).  Both enqueue with ScheduledAt = now.                  *)
Submit(j, p) ==
    /\ Alive
    /\ Enqueue(j, p, "pending")
    /\ UNCHANGED <<workerVars, mainVars>>

(* A back-off ends; the queue notices in somebody's poll. *)
BackoffEnds(j) ==
    /\ Alive
    /\ Ripen(j)
    /\ UNCHANGED <<workerVars, mainVars>>

-----------------------------------------------------------------------------
(* Mutant: the loop does not look at its context. *)
LoopHeadUncancelled(w) ==
    /\ pc[w] = "idle"
    /\ Goto(w, "polling")
    /\ UNCHANGED <<qvars, mainVars, holds, hasRow, rows, runs, bounces, late>>

(* Both kinds of worker run the same loop around Dequeue. *)
LoopHead(w) ==
    /\ pc[w] = "idle"
    /\ Goto(w, IF w \in cancelled THEN "exited" ELSE "polling")
    /\ UNCHANGED <<qvars, mainVars, holds, hasRow, rows, runs, bounces, late>>

(* Dequeue does not look at its context before it takes a job. *)
Take(w, j) ==
    /\ pc[w] = "polling"
    /\ Dequeue(j)
    /\ Goto(w, "taken")
    /\ holds' = [holds EXCEPT ![w] = j]
    /\ IF OwnKind(w, j)
         THEN runs' = [runs EXCEPT ![j] = @ + 1] /\ UNCHANGED bounces
         ELSE bounces' = [bounces EXCEPT ![j] = @ + 1] /\ UNCHANGED runs
    /\ late' = [late EXCEPT ![w] = IF w \in cancelled THEN @ + 1 ELSE @]
    /\ UNCHANGED <<mainVars, hasRow, rows>>

(* ErrQueueStopped, or nothing to take. *)
PollInVain(w) ==
    /\ pc[w] = "polling"
    /\ \/ /\ stopped
          /\ Goto(w, "idle")
       \/ /\ ~stopped
          /\ \A j \in Job : place[j] # "pending"
          /\ Goto(w, "waiting")
    /\ UNCHANGED <<qvars, mainVars, holds, hasRow, rows, runs, bounces, late>>

(* After 100 ms the next look; or the 5 s are over or the pool's context   *)
(* is cancelled, and Dequeue returns the context's error.                  *)
WakeUp(w) ==
    /\ pc[w] = "waiting"
    /\ Goto(w, "polling") \/ Goto(w, "idle")
    /\ UNCHANGED <<qvars, mainVars, holds, hasRow, rows, runs, bounces, late>>

-----------------------------------------------------------------------------
(* Records.  A failed write is only logged, or not even that.              *)
Written(j, newRows) ==
    \/ rows' = [rows EXCEPT ![j] = newRows]
    \/ DbMayFail /\ UNCHANGED rows

(* The last record gets its final status.  If the insert at the start      *)
(* failed, the struct has no ID and gorm's Save inserts a record.          *)
Concluded(w, j, status) ==
    IF hasRow[w] THEN [rows[j] EXCEPT ![Len(rows[j])] = status]
                 ELSE Append(rows[j], status)

(* A scrape worker does not look at the type of its job: it inserts a      *)
(* running record.  A notification job has website 0, and the foreign key  *)
(* refuses its record.                                                     *)
StartScrape(w) ==
    /\ w \in ScrapeWorkers
    /\ pc[w] = "taken"
    /\ Goto(w, "working")
    /\ LET j == holds[w] IN
         IF j \in ScrapeJobs
           THEN \/ /\ rows' = [rows EXCEPT ![j] = Append(@, "running")]
                   /\ hasRow' = [hasRow EXCEPT ![w] = TRUE]
                \/ /\ DbMayFail
                   /\ hasRow' = [hasRow EXCEPT ![w] = FALSE]
                   /\ UNCHANGED rows
           ELSE /\ hasRow' = [hasRow EXCEPT ![w] = FALSE]
                /\ UNCHANGED rows
    /\ UNCHANGED <<qvars, mainVars, holds, runs, bounces, late>>

(* The website is there and all of its pages were scraped in time. *)
ScrapeSucceeds(w) ==
    /\ w \in ScrapeWorkers
    /\ pc[w] = "working"
    /\ holds[w] \in ScrapeJobs
    /\ Written(holds[w], Concluded(w, holds[w], "completed"))
    /\ Goto(w, "acking")
    /\ UNCHANGED <<qvars, mainVars, holds, hasRow, runs, bounces, late>>

(* Mutant: the record is not brought to its final status. *)
ScrapeFailsUnrecorded(w) ==
    /\ w \in ScrapeWorkers
    /\ pc[w] = "working"
    /\ Goto(w, "nacking")
    /\ UNCHANGED <<qvars, mainVars, holds, hasRow, rows, runs, bounces, late>>

(* Mutant: the error path returns without a Nack. *)
ScrapeFailsUnsettled(w) ==
    /\ w \in ScrapeWorkers
    /\ pc[w] = "working"
    /\ Goto(w, "idle")
    /\ holds' = [holds EXCEPT ![w] = NoJob]
    /\ UNCHANGED <<qvars, mainVars, hasRow, rows, runs, bounces, late>>

(* No website, a failed or cancelled scrape, or the timeout of a page. *)
ScrapeFails(w) ==
    /\ w \in ScrapeWorkers
    /\ pc[w] = "working"
    /\ IF holds[w] \in ScrapeJobs
         THEN Written(holds[w], Concluded(w, holds[w], "failed"))
         ELSE UNCHANGED rows
    /\ Goto(w, "nacking")
    /\ UNCHANGED <<qvars, mainVars, holds, hasRow, runs, bounces, late>>

-----------------------------------------------------------------------------
(* Mutant: no return behind the Nack of a job of the other kind. *)
BounceFallsThrough(w) ==
    /\ w \in NotificationWorkers
    /\ pc[w] = "taken"
    /\ holds[w] \in ScrapeJobs
    /\ Nack(holds[w], TRUE)
    /\ Goto(w, "working")
    /\ UNCHANGED <<mainVars, holds, hasRow, rows, runs, bounces, late>>

(* A notification worker gives a scrape job back with Nack(id, true). *)
Bounce(w) ==
    /\ w \in NotificationWorkers
    /\ pc[w] = "taken"
    /\ holds[w] \in ScrapeJobs
    /\ Nack(holds[w], TRUE)
    /\ Goto(w, "idle")
    /\ holds' = [holds EXCEPT ![w] = NoJob]
    /\ UNCHANGED <<mainVars, hasRow, rows, runs, bounces, late>>

StartNotification(w) ==
    /\ w \in NotificationWorkers
    /\ pc[w] = "taken"
    /\ holds[w] \notin ScrapeJobs
    /\ Goto(w, "working")
    /\ UNCHANGED <<qvars, mainVars, holds, hasRow, rows, runs, bounces, late>>

(* Mutant: the job is recorded as sent before the call. *)
CallWebhookRecordedFirst(w) ==
    /\ w \in NotificationWorkers
    /\ pc[w] = "working"
    /\ Written(holds[w], Append(rows[holds[w]], "sent"))
    /\ Goto(w, "sending")
    /\ UNCHANGED <<qvars, mainVars, holds, hasRow, runs, bounces, late>>

(* Channel, template, unsent review and rating were found. *)
CallWebhook(w) ==
    /\ w \in NotificationWorkers
    /\ pc[w] = "working"
    /\ Goto(w, "sending")
    /\ UNCHANGED <<qvars, mainVars, holds, hasRow, rows, runs, bounces, late>>

(* The job is done: the webhook accepted the review, or there is none. *)
NotificationSucceeds(w) ==
    /\ w \in NotificationWorkers
    /\ pc[w] \in {"working", "sending"}
    /\ Written(holds[w], Append(rows[holds[w]], "sent"))
    /\ Goto(w, "acking")
    /\ UNCHANGED <<qvars, mainVars, holds, hasRow, runs, bounces, late>>

(* Something is missing, or the webhook call failed. *)
NotificationFails(w) ==
    /\ w \in NotificationWorkers
    /\ pc[w] \in {"working", "sending"}
    /\ Written(holds[w], Append(rows[holds[w]], "failed"))
    /\ Goto(w, "nacking")
    /\ UNCHANGED <<qvars, mainVars, holds, hasRow, runs, bounces, late>>

-----------------------------------------------------------------------------
(* The two ways a run ends; failJob asks for a retry only while one more   *)
(* attempt is left after this one.                                         *)
SettleAck(w) ==
    /\ pc[w] = "acking"
    /\ Ack(holds[w])
    /\ Goto(w, "idle")
    /\ holds' = [holds EXCEPT ![w] = NoJob]
    /\ UNCHANGED <<mainVars, hasRow, rows, runs, bounces, late>>

(* Mutant: failJob leaves the limit to the queue. *)
SettleNackUnlimited(w) ==
    /\ pc[w] = "nacking"
    /\ Nack(holds[w], TRUE)
    /\ Goto(w, "idle")
    /\ holds' = [holds EXCEPT ![w] = NoJob]
    /\ UNCHANGED <<mainVars, hasRow, rows, runs, bounces, late>>

SettleNack(w) ==
    /\ pc[w] = "nacking"
    /\ Nack(holds[w], attempts[holds[w]] < MaxAttempts - 1)
    /\ Goto(w, "idle")
    /\ holds' = [holds EXCEPT ![w] = NoJob]
    /\ UNCHANGED <<mainVars, hasRow, rows, runs, bounces, late>>

-----------------------------------------------------------------------------
(* main's shutdown.  Stop cancels a pool's context and waits until its     *)
(* workers have exited or the shutdown timeout is over, so its end does    *)
(* not depend on them.                                                     *)
StopScrapePool ==
    /\ mainAt = "serving"
    /\ mainAt' = "stoppingScrape"
    /\ cancelled' = cancelled \union ScrapeWorkers
    /\ UNCHANGED <<qvars, workerVars>>

StopNotificationPool ==
    /\ mainAt = "stoppingScrape"
    /\ mainAt' = "stoppingNotification"
    /\ cancelled' = cancelled \union NotificationWorkers
    /\ UNCHANGED <<qvars, workerVars>>

CloseQueue ==
    /\ mainAt = "stoppingNotification"
    /\ Close
    /\ mainAt' = "closed"
    /\ UNCHANGED <<workerVars, cancelled>>

-----------------------------------------------------------------------------
(* The worker is in Scraper.ScrapeWebsite; with a notification job it does  *)
(* not get that far, because there is no website 0.                         *)
Scraping(w) ==
    /\ w \in ScrapeWorkers
    /\ pc[w] = "working"
    /\ holds[w] \in ScrapeJobs

Sending(w) == w \in NotificationWorkers /\ pc[w] = "sending"

(* The calls that may hang. *)
ScrapeReturns(w) == Scraping(w) /\ (ScrapeSucceeds(w) \/ ScrapeFails(w))

WebhookReturns(w) ==
    Sending(w) /\ (NotificationSucceeds(w) \/ NotificationFails(w))

(* What a worker does without waiting for anybody outside. *)
OwnStep(w) ==
    /\ Alive
    /\ \/ LoopHead(w) \/ PollInVain(w) \/ WakeUp(w)
       \/ \E j \in Job : Take(w, j)
       \/ StartScrape(w)
       \/ (~Scraping(w) /\ ScrapeFails(w))
       \/ Bounce(w) \/ StartNotification(w) \/ CallWebhook(w)
       \/ (~Sending(w) /\ (NotificationSucceeds(w) \/ NotificationFails(w)))
       \/ SettleAck(w) \/ SettleNack(w)

WorkerStep(w) ==
    \/ OwnStep(w)
    \/ (Alive /\ (ScrapeReturns(w) \/ WebhookReturns(w)))

(* The launcher cannot be reached.  The queue, being in memory, is lost     *)
(* with the process; the state stays as the panic left it.                  *)
Panic ==
    /\ Alive
    /\ \E w \in Workers : Scraping(w)
    /\ mainAt' = "panicked"
    /\ UNCHANGED <<qvars, workerVars, cancelled>>

MainStep == StopScrapePool \/ StopNotificationPool \/ CloseQueue

Next ==
    \/ \E j \in Job, p \in Priorities : Submit(j, p)
    \/ \E j \in Job : BackoffEnds(j)
    \/ \E w \in Workers : WorkerStep(w)
    \/ MainStep
    \/ Panic

Spec == Init /\ [][Next]_vars

(* Goroutines are scheduled, a back-off ends, and Stop waits no longer than *)
(* its timeout.  Nobody has to submit jobs or to stop the service, and      *)
(* neither a scrape nor a webhook call has to return.                       *)
Fairness ==
    /\ \A w \in Workers : WF_vars(OwnStep(w))
    /\ \A j \in Job : WF_vars(BackoffEnds(j))
    /\ WF_vars(StopNotificationPool)
    /\ WF_vars(CloseQueue)

FairSpec == Spec /\ Fairness

-----------------------------------------------------------------------------
(* The types of the queue's and the workers' state. *)
TypeOK ==
    /\ JobQueueTypeOK
    /\ pc \in [Workers -> PCs]
    /\ holds \in [Workers -> Job \union {NoJob}]
    /\ hasRow \in [Workers -> BOOLEAN]
    /\ rows \in [Job -> Seq(RowStatus)]
    /\ cancelled \subseteq Workers
    /\ mainAt \in {"serving", "stoppingScrape", "stoppingNotification",
                   "closed", "panicked"}
    /\ runs \in [Job -> Nat]
    /\ bounces \in [Job -> Nat]
    /\ late \in [Workers -> Nat]

(* Queue and workers agree on who works on what: a job is in flight exactly *)
(* while one worker holds it, and no two workers ever hold the same job, so *)
(* no Ack or Nack of theirs can fail with ErrJobNotFound or settle a job    *)
(* somebody else runs.                                                      *)
HeldOnce ==
    /\ \A w \in Workers : pc[w] \in Busy <=> holds[w] # NoJob
    /\ \A v, w \in Workers : holds[v] = holds[w] /\ holds[v] # NoJob => v = w
    /\ \A j \in Job : place[j] = "inFlight" <=> \E w \in Workers : holds[w] = j

(* MAX_RETRIES bounds the runs of a job.  It takes both failJob's stricter  *)
(* test and the queue's own: Bounce asks for retries without failJob's      *)
(* test and can spend one attempt more, but then one of them was no run.    *)
ExecutionsBounded ==
    MaxAttempts > 0 => \A j \in Job : runs[j] <= MaxAttempts

(* Job.Attempts is an honest account: it is the number of times the job was *)
(* taken and given back, by whichever kind of worker, and only a job that   *)
(* bounced can reach MaxAttempts.                                           *)
Taken(j) == place[j] \in {"inFlight", "acked", "dropped"}

AttemptsAccounted ==
    /\ \A j \in Job :
          /\ runs[j] + bounces[j] = attempts[j] + (IF Taken(j) THEN 1 ELSE 0)
          /\ MaxAttempts > 0 =>
                /\ attempts[j] <= MaxAttempts
                /\ attempts[j] = MaxAttempts => bounces[j] >= 1
    /\ \A w \in Workers, j \in Job :
          holds[w] = j /\ ~OwnKind(w, j) => bounces[j] >= 1

(* A worker whose pool was stopped starts at most one more job: Dequeue     *)
(* may still hand one out after the cancellation, the loop then ends.       *)
OneLateJob == \A w \in Workers : late[w] <= 1

(* A job that reached its goal is never run again: after the record says    *)
(* completed (or sent) no other record follows, and the job is acked or     *)
(* its worker is about to ack it, whatever writes of records fail.          *)
DoneIsFinal ==
    \A j \in Job : \A i \in 1..Len(rows[j]) :
        rows[j][i] \in {"completed", "sent"} =>
            /\ i = Len(rows[j])
            /\ \/ place[j] = "acked"
               \/ \E w \in Workers : holds[w] = j /\ pc[w] = "acking"

(* While no write fails, the records tell the truth about the queue: one    *)
(* record says running exactly while a scrape worker works on the job (the  *)
(* stats endpoint counts these as active workers), an acked job's last      *)
(* record is a success, and a dropped job's is a failure, if it ever ran.   *)
RecordsTellTheTruth ==
    ~DbMayFail =>
        \A j \in Job :
            /\ (\E i \in 1..Len(rows[j]) : rows[j][i] = "running") <=>
               (\E w \in ScrapeWorkers :
                    holds[w] = j /\ j \in ScrapeJobs /\ pc[w] = "working")
            /\ place[j] = "acked" =>
                  rows[j] # <<>> /\ rows[j][Len(rows[j])] \in {"completed", "sent"}
            /\ place[j] = "dropped" /\ runs[j] > 0 =>
                  rows[j] # <<>> /\ rows[j][Len(rows[j])] = "failed"

(* The comment in processNextJob of the notification worker: "Requeue       *)
(* non-notification jobs (they should be handled by scrape workers)".  No   *)
(* scrape job would then be given up before a scrape worker ever ran it.    *)
RequeuedForScrapeWorkers ==
    \A j \in ScrapeJobs : place[j] = "dropped" => runs[j] > 0

-----------------------------------------------------------------------------
InQueue(j) == place[j] \in {"pending", "delayed", "inFlight"}

Hangs(w) == Scraping(w) \/ Sending(w)

(* Until shutdown every accepted job is acked or given up, whichever kind   *)
(* of worker takes it and however often it bounces.  It takes a call that   *)
(* never returns to prevent it: the job's own, or one in every worker.  One *)
(* pool that hangs as a whole does not stop the jobs of either kind.  (Of   *)
(* finitely many jobs; what an endless stream of urgent ones does to the    *)
(* others is the subject of EventuallyHandedOut in MemoryQueue.)            *)
JobsSettle ==
    \A j \in Job :
        \/ \E w \in Workers : <>[](Hangs(w) /\ holds[w] = j)
        \/ \A w \in Workers : <>[]Hangs(w)
        \/ InQueue(j) ~> (Settled(j) \/ mainAt # "serving")

(* A stopped pool drains: each of its workers exits, whatever it was doing  *)
(* and however full the queue is, unless its scrape or its webhook call     *)
(* hangs for ever, or the process ends in a panic.                          *)
PoolsDrain ==
    \A w \in Workers :
        \/ <>[]Hangs(w)
        \/ (w \in cancelled) ~> (pc[w] = "exited" \/ ~Alive)
=============================================================================
