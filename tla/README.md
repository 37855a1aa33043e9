# trustpilot-scraper in TLA+

TLA+ models of the scraping and notification service (`cmd/service`), checked
with TLC on small instances and, for the theorems listed below, proved with
TLAPS for every value of the constants. Paths are relative to the repository,
`internal/` is left out where it is clear.

## The system

The service keeps websites and notification channels in PostgreSQL. A cron
scheduler turns them into jobs, a queue in memory holds the jobs, a pool of
scrape workers reads reviews from Trustpilot into the database, and a pool of
notification workers posts unsent reviews to webhooks. A REST API changes the
tables and triggers jobs.

```
 API handlers --rows--> database <--rows-- scrape workers, notification workers
      |                    ^                    |        |
      | schedule/trigger   | loads at start     |        '--POST--> webhooks
      v                    |                    '--browser--> trustpilot.com
  Scheduler (cron) --Enqueue--> MemoryQueue --Dequeue/Ack/Nack--> both pools
```

| component | state | operations | what is hard about it |
|---|---|---|---|
| Job queue (`queue/memory.go`) | `pending`, `delayed`, `inFlight`, `closed` behind one mutex; per job attempts, priority, time | Enqueue, Dequeue, Ack, Nack, Size, Close | many producers and consumers; delayed jobs come back between others; Dequeue is a poll in several steps and does not hold the mutex between them |
| Scrape workers (`worker/worker.go`, `pool.go`) | a goroutine per worker, `scrape_jobs` rows, reviews, the loaded website | Start loop, processJob, scrapePagesParallel, saveResults, failJob | retries counted in two places; unchecked writes; a whole row saved that was loaded long before; parallel pages of a site that changes; check-then-insert |
| Notification workers (`worker/notification_worker.go`, `notification_pool.go`) | goroutines, `notification_jobs`, `sent_reviews` | processJob, getUnsentReview, sendWebhook, markReviewAsSent | query, call and insert are not atomic; a call without a timeout; answers that get lost; jobs of the wrong kind on the shared queue |
| Scheduler (`scheduler/scheduler.go`) | cron entries per website and channel | Start, Schedule*, Unschedule*, Trigger*, enqueue | entries must mirror rows that others change; rebuilt at every start, where a failed query is only logged |
| API (`api/handlers/*`) | none of its own | Create, Update, Delete, Trigger of websites and channels | database first, scheduler second (or the reverse), errors of the second dropped; nothing serialises requests for one target |
| Templates (`api/handlers/template.go`, `scripts/entrypoint.sh`, `worker/notification_worker.go` getTemplatePath) | rows that name files, the files, the channels that refer to rows | Create, Update, Delete; the lookup of a run, with its default | row, file and default are looked at one after the other while API, operator and restarts change them; every error but those of the default and of the parsing means "fall back" |
| Review lists (`api/handlers/review.go`) | none of its own | List, ListByWebsite: filter, sort, count, page | two statements per answer, the error of the first dropped, many answers per walk, inserts in between; arithmetic on numbers the client chose |
| Start-up (`database/init.go`, `website/manager.go`) | tables, foreign keys, websites | DropAllTables, AutoMigrate, InitializeFromEnv | loops without a transaction that a kill can cut anywhere; the next start finds what is left |
| Lifecycle (`cmd/service/main.go`, `api/server.go`) | what runs | start-up, a wait, shutdown in a fixed order with timeouts | the API server is started twice; stops race with requests and jobs in progress; everything in memory is lost |
| Scraper (`scraper/rod_impl.go`) | a browser per page | ScrapeWithContext | element lookups whose errors are ignored; a browser that is started without the scrape's context or a timeout, by calls that panic |
| Configuration, other read-only endpoints, `cmd/scraper` | tables and environment | see "Not modelled" | |

What makes each part correct:

- Queue: no job is lost, duplicated or in two places; urgent jobs first, first
  come first served among equals; a job that is due is handed out, unless more
  urgent ones keep coming; MAX_RETRIES bounds attempts.
- Workers: a job is run by one worker at a time, at most MaxAttempts times, ends
  settled with a record that tells what happened; what is recorded as done is
  not run again; pools drain when stopped. A call that never returns may keep its
  job and its worker, and nothing else.
- Reviews: every review that was read with its id is stored once and counted
  once; a failed page saves nothing.
- Delivery: a review is listed as sent only if it arrived; nothing arrives twice
  without a failure that explains it; a review waits for ever only behind one
  that the receiver refuses, or behind calls that hang in every worker.
- Templates: a run renders what its channel's template named, and falls back to
  the default only for a reason.
- Review lists: a client that walks all pages sees every review that was there
  when it began, and the answer is what it says of itself, as long as no statement
  fails.
- Start-up: a service that serves has the whole schema, whatever earlier starts
  left; a start fails in the migration for one reason only.
- Lifecycle: producers stop before consumers, so no job is accepted behind the
  workers of its kind; a record says `running` for ever only if its last Save
  failed, the process was killed or panicked, or a Stop timed out; asked to stop,
  the process ends.
- Schedules: what cron runs is what the rows say; a delete neither pulls a
  website from under a scrape nor is undone by one. What overlapping requests
  for one target break, the next request for it mends.

## Modules

| module | models | composed with |
|---|---|---|
| `JobQueue` | the promise of `queue.Queue`: each job is in one place (new, pending, delayed, inFlight, acked, dropped) and counts its attempts | - |
| `MemoryQueue` | `queue/memory.go` with its lists, clock and the steps of a poll | implements `JobQueue` by `INSTANCE JobQueue WITH place <- PlaceOf` |
| `Dispatch` | both pools' loops and `main`'s stops on one queue | extends `JobQueue` |
| `Schedules` | rows, cron entries, API calls, the website row a scrape loads and saves, restarts | stands alone |
| `Reviews` | pages, goroutines, saveResults | stands alone |
| `Delivery` | choice of review, webhook call, `sent_reviews`, restarts | stands alone |
| `Templates` | template rows, files, channels' references, the lookup of a run, restarts | stands alone |
| `Listing` | the review lists and a client that walks them | stands alone |
| `Startup` | dropping, migrating and filling the database before the service serves | a component of `Service` |
| `Service` | main from start to end, kills and new starts: pools, cron, both starts of the API server, requests, the order of the stops | extends `Startup` |
| `MC*` | constants, symmetry and bounds for TLC | extend the above |
| `*Proofs` | TLAPS proofs | extend the above |

Dispatch says when a job runs and how it ends; Service says when there are
workers, and takes a job that is taken to end or go back to the queue, which
contains what Dispatch does with it. Schedules, Reviews, Delivery and Templates
each look inside a run or a request and let runs start whenever a worker is
free, which contains every order Dispatch allows. They share no
variables: the tables they are about are disjoint, with two exceptions.
`scrape_jobs` are records of jobs in Dispatch and references that keep a website
from being deleted in Schedules; of a notification channel, Schedules has the
schedule, Templates the template, and neither reads what the other has.

### How states and actions correspond to the code

A step is one critical section of a mutex, one database statement, one call of
the outside world, or what a goroutine does between two of those. PROJECT.json
maps every definition to its lines; the main points are these.

- `MemoryQueue`. `pending` and `delayed` are sequences as in the code.
  `DequeueLock`, `MoveReady`, `DequeueTake` and `DequeueEmpty` are one pass of
  the Dequeue loop, from the lock to the unlock; while `polling` holds the mutex
  is taken and every other operation waits. `wait` is the time left until
  `ScheduledAt`, which `Tick` lowers: there is no clock to bound. `Backoff` is the
  code's product of a `time.Duration`, which wraps (`DurationRange` is its 2^64):
  a negative one lies in the past. `accepted` notes what Enqueue took. `Forget`
  frees the name of a settled job for a later one, as the queue keeps nothing of
  it: so three names stand for any number of jobs, three at a time.
- `Dispatch`. A worker's `pc` is its place in `Start`/`processNextJob`/
  `processJob`. `Take` includes the dequeue and the kind test; a notification
  worker bounces a scrape job with `Nack(id, true)`; a scrape worker does not
  look at the kind, finds no website 0 and fails the job. `rows` are the records
  a job's runs leave. A scrape (`Scraping`) and a webhook call (`Sending`) may
  return or not; `Panic` is the end of the process by a scrape that cannot reach
  the launcher manager. `StopScrapePool`, `StopNotificationPool` and `CloseQueue`
  are main's shutdown in its order; each Stop can end with workers still
  running, because it waits only for its timeout.
- `Schedules`. A request is `idle`, `loaded` (Update has read the row), `saved`
  (the scheduler is still to be told) or `unscheduled` (Delete has yet to
  delete). `Save` inserts a row that is gone, as gorm does, and gorm's
  `default:true` turns a `false` into `true` on an insert. A `Restart` empties
  the entries and runs `Start`, with its early returns and its query for the
  channels, which may fail. `overlapped` notes the targets of requests that ran at
  the same time, until one has saved or unscheduled with the target for itself.
- `Delivery`. A run is `loaded`, `picked` (the query returned a review) or
  `sent` (the call returned, the insert is still to come). `refused` are the
  reviews the receivers turn down each time, any subset; a worker `Hangs` in a call
  to a channel whose receiver is not known to answer. `blamed` is a history
  variable that notes why a review could arrive twice.
- `Reviews`. `ReadPage` is one goroutine of `scrapePagesParallel`, whole; a page
  may be read whole, in halves or not at all when lookups fail. `LookUp` and
  `CreateReview` are the two statements of saveResults for one review. All reviews
  read without an id have the same empty one. `unrecorded` counts the rows of runs
  whose last Save failed or that `ProcessEnds` cut off.

- `Startup`. `next` is the position of the loop `at` is in; `DropTable`,
  `MigrateTable` and `InitializeSite` are one iteration, one or two statements.
  A table is dropped with CASCADE, so the foreign keys that point to it go too
  while the rows that used them stay: `Orphaned` is what AutoMigrate then
  stumbles over. `cut` and `failed` are history variables.
- `Service`. `at` is main's place from `Start` to `Exit`. `Bind` is the moment
  in which a goroutine of `server.Start` gets the port; `EndServing` starts the
  second one (main.go:158), and `ShutdownApi` closes the listeners of that
  moment. A job is `new`, `requested` or `fired` (its handler or cron function
  runs), `queued`, `running`, and in the end `done`, `refused` or `lost`. `stuck`
  are the jobs with a record that says running for ever; `unsaved` and `cutShort`
  note why: a Save of a run's end that failed, or a process or a Stop that ended
  under the scrape. `ApiDown` and `CronStopped` wait for
  handlers and cron functions, `PoolDrained` for workers, `PoolTimesOut` gives
  up on them. `Crash` is possible everywhere.
- `Templates`. Each API call is two steps, a read (`CreateStat`, `UpdateLoad`,
  `ChannelCheck`, `ChannelLoad`) and a write; a run is `BeginRun`, `FindTemplate`,
  `StatFile`, `StatDefault`, `ParseFile`, each of which may end in `CallFails`
  instead, an error that has nothing to do with rows and files; `erred` notes
  where. `malformed` files do not parse or do not execute. `Watch` is part of
  every step: it notes, per run, what was true at some moment of it.
- `Listing`. `Count` and `Find` are the two statements of a request, `CountFails`
  and `FindFails` their failures. The handlers drop the error of Count and go on
  with a total of 0; gorm keeps it in the query they go on with, so that Find
  hands it back, but that is the library's affair: the model allows both. `Selections`
  are the answers LIMIT and OFFSET allow under an ORDER BY that leaves ties open.
  `Wrap` is Go's int.

## Runs

TLC explores each instance completely. Deadlock is checked in `service`,
`templates` and `listing`, which can always go on. It is not in the others,
because what they model may stop: a queue is closed, jobs are used up, a site is
never scraped again, a deleted target cannot be created again, every review was
sent.

| run | instance | what it shows |
|---|---|---|
| `queue` | 3 jobs at a time, priorities 5 and 10, delays 0 and 1, 3 attempts, back-offs 1, 2 and one that wraps (first 1, factor 2, durations of 3 bits) | every accepted job in exactly one place, no overtaking among equals, every due job is handed out while somebody polls or is outranked again and again, `MemoryQueue` implements `JobQueue` |
| `dispatch` | 1 scrape and 1 notification job, 2 scrape workers, 1 notification worker, 2 attempts, record writes may fail | one holder per job, runs bounded by MaxAttempts, attempts = runs + bounces, at most one job after cancellation, nothing done is run again |
| `dispatch_liveness` | same jobs, 1 worker of each kind, MAX_RETRIES 0 (which becomes 3), no failing writes, scrapes and webhook calls that never return, panics | records agree with how jobs ended; jobs settle unless a call of their own hangs, or one in every worker; a stopped worker exits unless its call hangs |
| `schedules` | 1 website, 1 channel of it, 2 requests, 1 scrape, 2 good schedules and a bad one, requests that overlap on one target or not, failing statements, among them Start's query for the channels | entries mirror rows in both directions, deletes do not hurt scrapes and are not undone, but for what overlapping requests and a scrape's Save explain |
| `delivery` | 2 channels, one of which answers, 2 reviews, any of which may be refused, 2 workers, calls that hang, lost answers, failing statements, restarts | listed implies arrived; a duplicate has one of four causes; only a refused review, or hanging calls in all workers, keep others waiting |
| `reviews` | 2 reviews and the empty id, 2 pages of 1 review, 2 workers, a site that is empty at first and changes, failing lookups and statements (also the last Save), ends of the process | exact counts, nothing read with its id is dropped, a calm scrape is complete |
| `service` | a chain of 3 tables, 1 website that TRUSTPILOT_URL lists, 1 scrape and 1 notification job, kills and panics anywhere, failing Saves of records, any number of starts | the schema is whole while it serves, a failed migration has its reason, accepted jobs have workers, stuck records have a reason, the process ends |
| `templates` | 2 templates, 1 channel, the default file and one the operator adds, files missing or malformed, failing queries and file calls, 1 request, 1 worker | what is rendered was named, a fallback has a reason |
| `listing` | 4 reviews, two of them with equal ratings and reviewers, filters, sort columns allowed and not, pages 0, 1, 2, 7, limits 0, 2, 5 cut to 3, 4-bit int, failing counts and fetches | a walk misses nothing but what ties, inserts and failed statements explain; pages are full or empty as announced |

Why these bounds are enough for the cases that matter. Three jobs with two
priorities give two equal jobs with an urgent one before, between or behind them,
and a stream of urgent ones, as names come back. Three attempts give a first, a
middle and a last retry. Two scrape workers and one of the other kind give races
within a kind and bounces between the kinds. Two requests are the least that
overlap, on one target or on two, and one website with a channel is the least with a
foreign key to violate. Two reviews give one that is newer than the other, and the
older has to wait when both are acceptable; two channels and two workers let hanging
calls of the one take both workers from the other. A chain of three tables is the
least in which a drop can be cut above and below a table that both refers and is
referred to; a job of each kind is the least that tells the two pools' stops apart,
and jobs that go back to the queue need no number. One request between its two
statements suffices for what the API can do to a run of a worker, because Delete and
the files change in one step. In `listing`, the four bits are what makes page 7
overflow; with 64 it is the same a few digits later. Two pages of one review let a
review move from a page that is still to be read to one that was read already. The
theorems below remove the bounds from most of the safety results.

Three more runs show that a statement of the repository is not true of the code.
TLC finds a counterexample in each.

| run | the repository says | the code does |
|---|---|---|
| `requeue` | notification_worker.go:83: scrape jobs are requeued for the scrape workers | each bounce costs an attempt; bounces alone can drop a scrape job that never ran |
| `scrape_overwrites` | worker.go:151: update the website's last scraped | the whole row is saved as loaded before the scrape, undoing updates made meanwhile |
| `channels_not_loaded` | scheduler.go:81: load all enabled channels | not reached when no website is enabled |

### Other observations

Made while modelling; plain from the code, so without a run.

- Queue: QUEUE_SIZE (.env.example:48) is only logged and RETRY_BACKOFF
  (.env.example:51) not used: nothing limits the queue (memory.go:32), the back-off
  is 5^n seconds, in an int64 of nanoseconds that overflows at the 15th retry
  (memory.go:131). MAX_RETRIES=0 becomes 3. A stream of triggered jobs
  (PriorityHigh) keeps scheduled ones waiting for ever.
- Scrapes: `connectToChrome` (rod_impl.go:373) and `browser.Page` (rod_impl.go:203)
  take neither the scrape's context nor a timeout, so that SCRAPE_TIMEOUT and a
  stopped pool do not end a scrape that hangs there. `MustNewManaged` and
  `MustClient` (rod_impl.go:371-373) panic if the launcher manager cannot be
  reached, and nothing recovers: the service ends instead of the job failing.
- Records: the Saves of a scrape's end (worker.go:161 and 287) are not checked; one
  that fails leaves a record that says running, and its reviews uncounted.
- Delivery: two runs of one channel can send the same review without any failure,
  since the query (notification_worker.go:163) and the insert are apart. A run
  fails when the website has no rating row (notification_worker.go:131), which
  saveResults writes only for a rating above 0.
- Reviews: a card whose rating is not found (rod_impl.go:326) is stored with
  rating 0, although models.go:33 says 1-5 stars, and stays so, as its id exists.
  Of all cards whose id is not found only the first is ever stored: the others
  find its empty id in the table and are skipped (worker.go:206-211).
  `ReviewsFound` is described as the number of reviews found (models.go:57) and
  is the number newly saved. Two websites whose base URLs are spelled differently
  are scraped from the same page.
- Schedules: two Updates of one target can save in one order and schedule in the
  other; a Delete beside an Update is undone by its Save (website.go:188). A failed
  query for the channels is only logged at a start (scheduler.go:83), and no channel
  is scheduled until it is updated or the service restarted.
- Rows: a target created disabled is enabled, by gorm's `default:true`; moving a
  channel to another website or template is undone by the preloaded association;
  a template deleted during its Update comes back (template.go:153), enabled.
  Validate of templates (template.go:189) says it checks the file, and does not;
  nor does Update.
- Review lists: the error of the count is dropped (review.go:82 and 172). It comes
  back from Find only because gorm keeps it in the statement that is used again.
  Sorting by rating or reviewer has no second column, so that pages
  may overlap and miss rows; a huge page number leaves int and is answered with
  another page.
- Statistics: job rows are never `pending`, so the queue size in `/api/stats` is
  always 0; `disabled` is a difference of two queries.
- Lifecycle: a listener that binds the port behind Shutdown stays open until the
  process ends; Shutdown of fiber waits for open requests without a limit. main
  waits out the whole shutdown timeout, in any case (main.go:209).
- Start-up: a drop of all tables that is cut short makes every later start fail
  in AutoMigrate until one drops again (init.go:41). A website deleted through the
  API is back at the next start if TRUSTPILOT_URL lists it. manager.go:29 speaks
  of a comma-separated list and splits at semicolons.
- Configuration: LoadRodConfig (config.go:164) replaces the defaults of
  NewRodConfig by zeros where nothing is set. CHROME_REMOTE_URL is to be used if
  LAUNCHER_MANAGER_URL is empty, but connectToChrome (rod_impl.go:366) then fails.
- `cmd/scraper` inserts reviews for website 0, which the foreign key refuses.

### Fairness

- `queue`: weak fairness of a poll's steps, as some worker is always polling and
  the mutex is released by whoever holds it; strong fairness of `Tick`, as time
  passes although polls interrupt it again and again. Nothing is assumed of Ack,
  Nack or Enqueue.
- `dispatch_liveness`: weak fairness of each worker's own steps (goroutines are
  scheduled, statements return), of the end of a back-off, and of main's next stop
  once shutdown began. Neither the return of a scrape nor that of a webhook call is
  fair: the browser is started with neither a context nor a timeout, and
  `sendWebhook` uses an `http.Client` without one. So the properties name what may
  hang: the job's own call, or a call in every worker. Nobody has to submit jobs or
  begin a shutdown.

- `delivery`: weak fairness of a worker's run, except in a call to a channel whose
  receiver is not known to answer (statements return); for a channel that answers,
  strong fairness of being triggered, of the query, of the call for a review that is
  not refused, and of an insert that works. This is an assumption about the
  environment: cron comes back for ever, and neither the database nor the receiver
  fails for ever. Nothing is assumed of the other channel, of restarts, or of who
  wins a race.
- `service`: weak fairness of main, of handlers that answer, and of the functions
  that enqueue. That open requests are answered is an assumption about clients, too:
  the server sets no ReadTimeout, and one that stalls in the middle of a request
  would keep Shutdown waiting. Nothing else is assumed of clients, of workers, which
  may sit in a call for ever, or of the operator.

The other runs assume none.

## Proofs

TLAPS proves every safety property that a passing run checks, for any number of jobs,
workers, channels, reviews, websites, tables, foreign keys, templates, files and
requests, from the ASSUMEs of the modules. Each proof module goes the same
way: typing, then one lemma per action or group of actions, then a step lemma
that splits on Next, and a last step by PTL.

The ASSUMEs type the constants. A few say more: `MemoryQueue` that a power of a
natural number is one (`PowerAssumption`, which no backend can do by induction);
`Templates` that the default file is among those shipped; `Reviews` takes a finite
number of scrape workers (WORKER_COUNT), as it sums over them; `Listing` takes finitely
many reviews, fewer than int has positive numbers, as the table's keys are
such numbers; and the pages and limits clients ask for are ints.

| theorem | states |
|---|---|
| `MemoryQueueProofs!TypeCorrect`, `OnePlace`, `Urgency`, `Overtaking` | `[]TypeOK`, `[]JobInOnePlace`, `[]UrgencyOrder`, `NoOvertaking` |
| `MemoryQueueProofs!Refinement` | `Spec => ImplementsJobQueue` |
| `DispatchProofs!TypeCorrect`, `HeldOnceHolds`, `Accounted`, `RunsBounded`, `OneMore`, `NoRerun`, `RecordsAgree` | `[]TypeOK`, `[]HeldOnce`, `[]AttemptsAccounted`, `[]ExecutionsBounded`, `[]OneLateJob`, `[]DoneIsFinal`, `[]RecordsTellTheTruth` |
| `DispatchProofs!UnrunJobsBounced` | `[]UnrunOnlyByBounces`: a scrape job given up without a run was bounced more than MaxAttempts times. The run `requeue` shows that it happens, this that it happens in no other way |
| `DispatchProofs!UsesJobQueue` | `Spec => JobQueueSpec`: the pools use the queue as `MemoryQueue` was proved to serve it |
| `SchedulesProofs!TypeCorrect`, `EntriesMirrorRows`, `EnabledHasEntry`, `ScrapedSiteIsKept`, `NothingComesBack` | `[]TypeOK`, `[](ScheduledAsStored /\ EnabledIsScheduled)`, `[]EnabledIsScheduled`, `[]ScrapedSiteStays`, `DeletedStaysDeleted` |
| `DeliveryProofs!TypeCorrect`, `NothingListedUnsent`, `DuplicatesHaveAReason` | `[]TypeOK`, `[]ListedHasArrived`, `[]ArrivesTwiceForAReason` |
| `ReviewsProofs!TypeCorrect`, `NoReviewDropped`, `RowsAreCounted`, `UndisturbedReadsAll` | `[]TypeOK`, `[]SeenIsStored`, `[]EveryRowCounted`, `CalmScrapeReadsAll` |
| `ServiceProofs!Types`, `SchemaIsComplete`, `FailedMigrations`, `LateJobs`, `StuckRecords` | `[]TypeOK`, `[]ServesCompleteSchema`, `[]MigrationFailsForAReason`, `[]AcceptedWhileWorked`, `[]StuckForAReason` |
| `TemplatesProofs!TypeCorrect`, `NamedIsRendered`, `FallbacksHaveAReason` | `[]TypeOK`, `[]RendersWhatWasNamed`, `[]FallbackForAReason` |
| `ListingProofs!TypeCorrect`, `AnswersAgree`, `WalkIsComplete` | `[]TypeOK`, `[]PageAsAnnounced`, `[]WalkMissesNothing` |

The inductive invariants, and why they are needed:

- Queue. `JobInOnePlace` and `UrgencyOrder` are inductive with the types, given
  lemmas on what inserting into and removing from a sequence does to its
  elements, repetitions and order. The refinement also needs that a poll goes on
  only while the queue is open (`PollOnOpenQueue`): without it a dequeue from a
  closed queue would map to no step of `JobQueue`. `NoOvertaking` rests on what
  an insertion behind the last equal and a removal do to the order of two other
  elements (`InsertionKeepsAhead`, `TailKeepsAhead`).
- Dispatch. Typing needs `HeldOnce`, since a worker settles the job it *holds*,
  and only `HeldOnce` makes that a job in flight. `ExecutionsBounded` follows
  from `AttemptsAccounted`, which says that only a job that bounced can reach
  MaxAttempts: failJob's test stops one short of the queue's own. `LateInv` adds
  that a worker with its late job is busy or on its way out, never back in
  Dequeue; `DoneIsFinal` is inductive with `HeldOnce`, because only the one holder
  of a job writes its records. For `RecordsTellTheTruth`, `RecordsKept` says what
  a job's records look like at each place of the job and each point of its run:
  a running record only while a scrape worker works, and then as the last one of
  a worker whose struct has its ID (`hasRow`), or the run's end would append a
  second record and leave the first one running; a failure behind every run that
  was given back, so that a job dropped by a later bounce has one too.
- Schedules. `MirrorInv` says that each target is either being changed by one
  request, or its row and entry agree, and what each pending request knows of its
  row and entry. It says so for targets that are not `overlapped`, and the variable
  is kept such that two requests are on one target only while it has that mark; a
  request that saves or unschedules with the target for itself takes the mark away
  and establishes what `MirrorInv` says of it. `RecordInv` keeps every website with
  a record stored; `UpdateInv` keeps the row between the read and the Save of an
  Update, again unless something overlapped.
- Reviews. `NothingPassed`: a worker that is not saving has passed none of what
  it collected, so a review that a run passed was looked up or inserted by it.
  `ReadSoFar` keeps, for a calm and sharp run, what each page already read
  showed; all pages together are the beginning of the site. For the count, each
  insert changes one worker's `saved` by one: the sum is a recursive function on
  the subsets of the workers, and what it is for every set is shown with a
  smallest set for which it is not (`SubsetInduction`, from the library's WFMin).
- Listing. `WalkOnCourse` counts by place. Every review of the walk's beginning
  that the sort column tells from all others and that no page has shown yet has
  at least as many reviews before it as the pages read so far hold. An insert only
  adds reviews before it; a fetch cuts the rows into skipped ones, shown ones and
  the rest, each of them a beginning of the order, so the review is shown or has a
  page more before it; and behind the last page there is no room left for it.
  That the offset of a walk never leaves int follows from its bound by the table.
- Delivery. `SharedIsBlamed` (two runs with one review were noticed),
  `PickedIsUnsent`, `SentHasArrived` and `ArrivedIsKnown` (an unblamed arrival
  is listed or about to be) tie the runs to the tables.
- Service. `SchemaInv` follows the loops: tables migrated so far are complete,
  tables dropped so far are empty, and as long as no drop was begun and left, no
  row has lost its parent (`NoOrphan`). `ProcInv` follows the stops: what cannot
  be there any more in which phase (`LateOnly`), and that the scrape pool's Stop
  ended with no scrape running or with a time-out (`ScrapesEnded`).
- Templates. `Watched` ties each run to its history: the present is always noted
  (`SeesThePresent`), and what the run found or missed was noted when it did
  (`Justified`).

Only model-checked: all liveness (`EventuallyHandedOut`, `JobsSettle`, `PoolsDrain`,
`OnlyRefusedReviewsBlock`, `StopsInTheEnd`), which rests on fairness and ENABLED and
is out of the prover's reach; and the three runs that find a counterexample. The
strengthenings (`RecordsKept`, `HandsInv`, `WalkOnCourse`, `CountedRight`,
`ReadSoFar`) were checked by TLC on the runs' instances before they were proved.

## Not modelled

- Configuration (`config.go`): the flags main branches on are inputs of
  `Service!Start`, numbers are CONSTANTS; parsing an environment variable is not
  modelled, nor the loaders of the browser and the one-shot scraper.
- The parsing of TRUSTPILOT_URL's entries: an entry is the website it names, or
  none.
- The text of a message: only a cause of failure of a run.
- Columns, indexes and column types of the migration.
- Rating snapshots: a notification run without one fails, which is one of the
  reasons `GiveUp` in `Delivery` stands for.
- The read-only endpoints other than review lists: one or two queries each.
- Text extraction in the scraper: modelled by what it can yield.
- `cmd/scraper`, the one-shot program: the same check-then-insert loop in another
  process, whose inserts the foreign key refuses.
- `Scheduler.Reload` and `LoadNotificationChannels`: no caller.
- Time: timeouts may pass at any moment, so how long a shutdown takes is not
  modelled.
- `docs/`, routing, middleware: generated or library code.

## Plan

Done, in this order: `JobQueue`, `MemoryQueue`, `Dispatch`, `Schedules`,
`Delivery`, `Reviews`, `Startup`, `Service`, `Templates`, `Listing`, and the
proofs listed above.

What could follow: what the composition of two modules promises that neither does
alone (a run of `Delivery` inside a job of `Dispatch`), a liveness argument on
paper for `JobsSettle`, and a queue that survives a restart, if one is added
beside `MemoryQueue`; `JobQueue` is what it would have to implement.
