--------------------------- MODULE DispatchProofs ---------------------------
(***************************************************************************)
(* Proofs about Dispatch, for any number of workers and jobs.              *)
(***************************************************************************)
EXTENDS Dispatch, TLAPS

(* Enqueue leaves every job a whole number of attempts.                     *)
LEMMA MaxAttemptsInt == MaxAttempts \in Int
  BY JobQueueAssumption DEF MaxAttempts

(* The steps in which a worker only moves its pc, or also writes a record. *)
QuietStep(w) ==
    \/ LoopHead(w) \/ PollInVain(w) \/ WakeUp(w) \/ StartScrape(w)
    \/ ScrapeSucceeds(w) \/ ScrapeFails(w) \/ StartNotification(w)
    \/ CallWebhook(w) \/ NotificationSucceeds(w) \/ NotificationFails(w)

(* The steps in which a worker gives its job back to the queue. *)
SettleStep(w) == Bounce(w) \/ SettleAck(w) \/ SettleNack(w)

(* Every step of the system is of one of these forms. *)
LEMMA NextCases ==
    ASSUME [Next]_vars
    PROVE  \/ \E j \in Job, p \in Priorities : Submit(j, p)
           \/ \E j \in Job : BackoffEnds(j)
           \/ \E w \in Workers : QuietStep(w) \/ SettleStep(w)
           \/ \E w \in Workers, j \in Job : Take(w, j)
           \/ MainStep \/ Panic
           \/ UNCHANGED vars
<1>1. ASSUME NEW w \in Workers, WorkerStep(w)
      PROVE  QuietStep(w) \/ SettleStep(w) \/ \E j \in Job : Take(w, j)
  BY <1>1 DEF WorkerStep, OwnStep, ScrapeReturns, WebhookReturns, QuietStep,
              SettleStep
<1> QED BY <1>1 DEF Next

-----------------------------------------------------------------------------
(* A record write, failed or not, leaves lists of statuses.                 *)
LEMMA WrittenType ==
    ASSUME rows \in [Job -> Seq(RowStatus)], NEW j \in Job,
           NEW new \in Seq(RowStatus), Written(j, new)
    PROVE  rows' \in [Job -> Seq(RowStatus)]
  BY DEF Written

(* A function on 1..n into S is a sequence over S.                          *)
LEMMA FunctionIsSeq ==
    ASSUME NEW S, NEW n \in Nat, NEW f \in [1..n -> S]
    PROVE  f \in Seq(S)
  OBVIOUS

(* The last record with its final status is still a list of statuses.       *)
LEMMA ConcludedType ==
    ASSUME rows \in [Job -> Seq(RowStatus)], NEW w \in Workers, NEW j \in Job,
           NEW status \in RowStatus
    PROVE  Concluded(w, j, status) \in Seq(RowStatus)
<1>1. rows[j] \in Seq(RowStatus)
  OBVIOUS
<1>2. [rows[j] EXCEPT ![Len(rows[j])] = status] \in Seq(RowStatus)
  <2> DEFINE s == rows[j]
             t == [s EXCEPT ![Len(s)] = status]
  <2>1. Len(s) \in Nat /\ s \in [1..Len(s) -> RowStatus]
    BY <1>1
  <2>2. t \in [1..Len(s) -> RowStatus]
    BY <2>1
  <2> HIDE DEF t
  <2> QED BY <2>1, <2>2, FunctionIsSeq
<1>3. Append(rows[j], status) \in Seq(RowStatus)
  BY <1>1
<1> QED BY <1>2, <1>3 DEF Concluded

-----------------------------------------------------------------------------
(* What the queue's operations do to its own types. *)
LEMMA QueueOperationTypes ==
    ASSUME JobQueueTypeOK, NEW j \in Job
    PROVE  /\ \A p \in Priorities : Enqueue(j, p, "pending") => JobQueueTypeOK'
           /\ Ripen(j) => JobQueueTypeOK'
           /\ Dequeue(j) => JobQueueTypeOK'
<1> USE DEF JobQueueTypeOK, Places
<1>1. ASSUME NEW p \in Priorities, Enqueue(j, p, "pending")
      PROVE  JobQueueTypeOK'
  BY <1>1, JobQueueAssumption DEF Enqueue
<1>2. Ripen(j) => JobQueueTypeOK'
  BY DEF Ripen
<1>3. Dequeue(j) => JobQueueTypeOK'
  BY DEF Dequeue
<1> QED BY <1>1, <1>2, <1>3

(* A busy worker holds a job. *)
LEMMA BusyHolds ==
    ASSUME TypeOK, HeldOnce, NEW w \in Workers, pc[w] \in Busy
    PROVE  holds[w] \in Job
  BY DEF TypeOK, HeldOnce

(* The types hold when the pools are started.                               *)
LEMMA InitTypeOK == Init => TypeOK
<1> SUFFICES ASSUME Init  PROVE TypeOK
  OBVIOUS
<1>1. JobQueueTypeOK
  <2>1. JobQueueInit
    BY DEF Init
  <2>2. /\ place \in [Job -> Places] /\ priority \in [Job -> Int]
        /\ attempts \in [Job -> Nat]
    BY <2>1 DEF JobQueueInit, Places
  <2>3. stopped = FALSE
    BY <2>1 DEF JobQueueInit
  <2> QED BY <2>2, <2>3 DEF JobQueueTypeOK
<1>2. rows \in [Job -> Seq(RowStatus)]
  <2>1. <<>> \in Seq(RowStatus)
    OBVIOUS
  <2> QED BY <2>1 DEF Init
<1>3. /\ pc \in [Workers -> PCs]
      /\ holds \in [Workers -> Job \union {NoJob}]
      /\ hasRow \in [Workers -> BOOLEAN]
      /\ runs \in [Job -> Nat] /\ bounces \in [Job -> Nat]
      /\ late \in [Workers -> Nat]
  BY DEF Init, PCs
<1>4. cancelled = {} /\ mainAt = "serving"
  BY DEF Init
<1> QED BY <1>1, <1>2, <1>3, <1>4 DEF TypeOK

(* The quiet steps leave queue, holds, histories and main alone. *)
LEMMA QuietFrame ==
    ASSUME NEW w \in Workers, QuietStep(w)
    PROVE  UNCHANGED <<qvars, mainVars, holds, runs, bounces, late>>
  BY DEF QuietStep, LoopHead, PollInVain, WakeUp, StartScrape, ScrapeSucceeds,
         ScrapeFails, StartNotification, CallWebhook, NotificationSucceeds,
         NotificationFails

(* Neither they nor anybody else make an idle worker busy or a busy one    *)
(* idle without a job changing hands.                                      *)
LEMMA QuietPC ==
    ASSUME TypeOK, NEW w \in Workers, QuietStep(w)
    PROVE  \E there \in PCs :
              /\ pc' = [pc EXCEPT ![w] = there]
              /\ there \in Busy <=> pc[w] \in Busy
<1> USE DEF Goto, Busy, PCs
<1>1. CASE LoopHead(w)
  BY <1>1 DEF LoopHead
<1>2. CASE PollInVain(w)
  BY <1>2 DEF PollInVain
<1>3. CASE WakeUp(w)
  BY <1>3 DEF WakeUp
<1>4. CASE StartScrape(w)
  BY <1>4 DEF StartScrape
<1>5. CASE ScrapeSucceeds(w)
  BY <1>5 DEF ScrapeSucceeds
<1>6. CASE ScrapeFails(w)
  BY <1>6 DEF ScrapeFails
<1>7. CASE StartNotification(w)
  BY <1>7 DEF StartNotification
<1>8. CASE CallWebhook(w)
  BY <1>8 DEF CallWebhook
<1>9. CASE NotificationSucceeds(w)
  BY <1>9 DEF NotificationSucceeds
<1>10. CASE NotificationFails(w)
  BY <1>10 DEF NotificationFails
<1> QED BY <1>1, <1>2, <1>3, <1>4, <1>5, <1>6, <1>7, <1>8, <1>9, <1>10
        DEF QuietStep

(* The records and the scrape workers' structs keep their types. *)
LEMMA QuietRecords ==
    ASSUME TypeOK, HeldOnce, NEW w \in Workers, QuietStep(w)
    PROVE  /\ rows' \in [Job -> Seq(RowStatus)]
           /\ hasRow' \in [Workers -> BOOLEAN]
<1>0. rows \in [Job -> Seq(RowStatus)] /\ hasRow \in [Workers -> BOOLEAN]
  BY DEF TypeOK
<1>1. CASE UNCHANGED <<rows, hasRow>>
  BY <1>0, <1>1
<1>2. CASE StartScrape(w)
  <2>1. holds[w] \in Job
    BY <1>2, BusyHolds DEF StartScrape, Busy
  <2>2. Append(rows[holds[w]], "running") \in Seq(RowStatus)
    BY <1>0, <2>1 DEF RowStatus
  <2>3. hasRow' \in [Workers -> BOOLEAN]
    BY <1>0, <1>2 DEF StartScrape
  <2>4. \/ UNCHANGED rows
        \/ rows' = [rows EXCEPT ![holds[w]] = Append(rows[holds[w]], "running")]
    BY <1>2 DEF StartScrape
  <2> QED BY <1>0, <2>1, <2>2, <2>3, <2>4
<1>3. CASE ScrapeSucceeds(w)
  <2>1. holds[w] \in Job
    BY <1>3, BusyHolds DEF ScrapeSucceeds, Busy
  <2>2. Written(holds[w], Concluded(w, holds[w], "completed"))
        /\ UNCHANGED hasRow
    BY <1>3 DEF ScrapeSucceeds
  <2>3. "completed" \in RowStatus
    BY DEF RowStatus
  <2> QED BY <1>0, <2>1, <2>2, <2>3, ConcludedType, WrittenType
<1>4. CASE ScrapeFails(w)
  <2>1. holds[w] \in Job
    BY <1>4, BusyHolds DEF ScrapeFails, Busy
  <2>2. /\ UNCHANGED hasRow
        /\ \/ UNCHANGED rows
           \/ Written(holds[w], Concluded(w, holds[w], "failed"))
    BY <1>4 DEF ScrapeFails
  <2>3. "failed" \in RowStatus
    BY DEF RowStatus
  <2> QED BY <1>0, <2>1, <2>2, <2>3, ConcludedType, WrittenType
<1>5. ASSUME NEW status \in {"sent", "failed"}, pc[w] \in {"working", "sending"},
             UNCHANGED hasRow,
             Written(holds[w], Append(rows[holds[w]], status))
      PROVE  /\ rows' \in [Job -> Seq(RowStatus)]
             /\ hasRow' \in [Workers -> BOOLEAN]
  <2>1. holds[w] \in Job
    BY <1>5, BusyHolds DEF Busy
  <2>2. status \in RowStatus
    BY <1>5 DEF RowStatus
  <2>3. Append(rows[holds[w]], status) \in Seq(RowStatus)
    BY <1>0, <2>1, <2>2
  <2> QED BY <1>0, <1>5, <2>1, <2>3, WrittenType
<1>6. CASE NotificationSucceeds(w)
  BY <1>5, <1>6 DEF NotificationSucceeds
<1>7. CASE NotificationFails(w)
  BY <1>5, <1>7 DEF NotificationFails
<1> QED
  BY <1>1, <1>2, <1>3, <1>4, <1>6, <1>7
  DEF QuietStep, LoopHead, PollInVain, WakeUp, StartNotification, CallWebhook

(* Take and the two ways to settle: the worker and the job it names. *)
LEMMA TakeFrame ==
    ASSUME TypeOK, NEW w \in Workers, NEW j \in Job, Take(w, j)
    PROVE  /\ pc[w] = "polling"
           /\ Dequeue(j)
           /\ pc' = [pc EXCEPT ![w] = "taken"]
           /\ holds' = [holds EXCEPT ![w] = j]
           /\ late' \in [Workers -> Nat]
           /\ UNCHANGED <<mainVars, hasRow, rows>>
           /\ \/ /\ OwnKind(w, j)
                 /\ runs' = [runs EXCEPT ![j] = @ + 1] /\ UNCHANGED bounces
              \/ /\ ~OwnKind(w, j)
                 /\ bounces' = [bounces EXCEPT ![j] = @ + 1] /\ UNCHANGED runs
<1>1. late' \in [Workers -> Nat]
  BY DEF Take, TypeOK
<1>2. \/ /\ OwnKind(w, j)
         /\ runs' = [runs EXCEPT ![j] = @ + 1] /\ UNCHANGED bounces
      \/ /\ ~OwnKind(w, j)
         /\ bounces' = [bounces EXCEPT ![j] = @ + 1] /\ UNCHANGED runs
  BY DEF Take
<1> QED BY <1>1, <1>2 DEF Take, Goto

(* A settled job is done, given up, or back in the delayed list; only a    *)
(* bounce retries when no attempt is left after this one.                  *)
GivenBack(w, j) ==
    /\ place[j] = "inFlight"
    /\ UNCHANGED <<priority, stopped>>
    /\ \/ /\ \E there \in {"acked", "dropped"} :
                 place' = [place EXCEPT ![j] = there]
          /\ UNCHANGED attempts
       \/ /\ place' = [place EXCEPT ![j] = "delayed"]
          /\ attempts' = [attempts EXCEPT ![j] = @ + 1]
          /\ attempts[j] < MaxAttempts
          /\ attempts[j] < MaxAttempts - 1 \/ ~OwnKind(w, j)

(* The types hold after a worker has settled its job and let go of it.      *)
LEMMA GivenBackType ==
    ASSUME JobQueueTypeOK, NEW w \in Workers, NEW j \in Job, GivenBack(w, j)
    PROVE  JobQueueTypeOK'
<1> USE DEF JobQueueTypeOK
<1>1. PICK there \in {"acked", "dropped", "delayed"} :
             place' = [place EXCEPT ![j] = there]
  BY DEF GivenBack
<1>2. place' \in [Job -> Places]
  BY <1>1 DEF Places
<1>3. CASE UNCHANGED attempts
  BY <1>2, <1>3 DEF GivenBack
<1>4. CASE attempts' = [attempts EXCEPT ![j] = @ + 1]
  <2>1. attempts' \in [Job -> Nat]
    BY <1>4
  <2> QED BY <1>2, <2>1 DEF GivenBack
<1> QED BY <1>3, <1>4 DEF GivenBack

(* A settling step changes the place of one job and the hands of one        *)
(* worker.                                                                  *)
LEMMA SettleFrame ==
    ASSUME TypeOK, HeldOnce, NEW w \in Workers, SettleStep(w)
    PROVE  /\ pc[w] \in Busy
           /\ holds[w] \in Job
           /\ GivenBack(w, holds[w])
           /\ pc' = [pc EXCEPT ![w] = "idle"]
           /\ holds' = [holds EXCEPT ![w] = NoJob]
           /\ UNCHANGED <<mainVars, hasRow, rows, runs, bounces, late>>
<1>1. pc[w] \in Busy
  BY DEF SettleStep, Bounce, SettleAck, SettleNack, Busy
<1>2. holds[w] \in Job
  BY <1>1, BusyHolds
<1>3. Bounce(w) => ~OwnKind(w, holds[w])
  BY DispatchAssumption DEF Bounce, OwnKind
<1>4. GivenBack(w, holds[w])
  <2>1. CASE Bounce(w)
    BY <1>3, <2>1 DEF Bounce, Nack, MayRetry, GivenBack
  <2>2. CASE SettleAck(w)
    BY <2>2 DEF SettleAck, Ack, GivenBack
  <2>3. CASE SettleNack(w)
    BY <2>3 DEF SettleNack, Nack, MayRetry, GivenBack
  <2> QED BY <2>1, <2>2, <2>3 DEF SettleStep
<1> QED BY <1>1, <1>2, <1>4 DEF SettleStep, Bounce, SettleAck, SettleNack, Goto

(* Every step keeps the types.  HeldOnce is needed: a busy worker writes   *)
(* records of the job it holds.                                            *)
LEMMA NextTypeOK == TypeOK /\ HeldOnce /\ [Next]_vars => TypeOK'
<1> SUFFICES ASSUME TypeOK, HeldOnce, [Next]_vars  PROVE TypeOK'
  OBVIOUS
<1>1. ASSUME NEW j \in Job, NEW p \in Priorities, Submit(j, p)  PROVE TypeOK'
  BY <1>1, QueueOperationTypes DEF Submit, TypeOK, workerVars, mainVars
<1>2. ASSUME NEW j \in Job, BackoffEnds(j)  PROVE TypeOK'
  BY <1>2, QueueOperationTypes DEF BackoffEnds, TypeOK, workerVars, mainVars
<1>3. ASSUME NEW w \in Workers, QuietStep(w)  PROVE TypeOK'
  <2>1. UNCHANGED <<qvars, mainVars, holds, runs, bounces, late>>
    BY <1>3, QuietFrame
  <2>2. pc' \in [Workers -> PCs]
    BY <1>3, QuietPC DEF TypeOK
  <2>3. rows' \in [Job -> Seq(RowStatus)] /\ hasRow' \in [Workers -> BOOLEAN]
    BY <1>3, QuietRecords
  <2>4. JobQueueTypeOK'
    BY <2>1 DEF TypeOK, JobQueueTypeOK, qvars
  <2> QED BY <2>1, <2>2, <2>3, <2>4 DEF TypeOK, mainVars
<1>4. ASSUME NEW w \in Workers, SettleStep(w)  PROVE TypeOK'
  <2>1. /\ holds[w] \in Job
        /\ GivenBack(w, holds[w])
        /\ pc' = [pc EXCEPT ![w] = "idle"]
        /\ holds' = [holds EXCEPT ![w] = NoJob]
        /\ UNCHANGED <<mainVars, hasRow, rows, runs, bounces, late>>
    BY <1>4, SettleFrame
  <2>2. JobQueueTypeOK'
    BY <2>1, GivenBackType DEF TypeOK
  <2>3. /\ pc' \in [Workers -> PCs]
        /\ holds' \in [Workers -> Job \union {NoJob}]
    BY <2>1 DEF TypeOK, PCs
  <2> QED BY <2>1, <2>2, <2>3 DEF TypeOK, mainVars
<1>5. ASSUME NEW w \in Workers, NEW j \in Job, Take(w, j)  PROVE TypeOK'
  <2>1. JobQueueTypeOK'
    BY <1>5, TakeFrame, QueueOperationTypes DEF TypeOK
  <2>2. /\ pc' = [pc EXCEPT ![w] = "taken"]
        /\ holds' = [holds EXCEPT ![w] = j]
    BY <1>5, TakeFrame
  <2>3. /\ pc' \in [Workers -> PCs]
        /\ holds' \in [Workers -> Job \union {NoJob}]
    BY <2>2 DEF TypeOK, PCs
  <2>5. \/ runs' = [runs EXCEPT ![j] = @ + 1] /\ UNCHANGED bounces
        \/ bounces' = [bounces EXCEPT ![j] = @ + 1] /\ UNCHANGED runs
    BY <1>5, TakeFrame
  <2>6. runs' \in [Job -> Nat] /\ bounces' \in [Job -> Nat]
    <3>1. CASE runs' = [runs EXCEPT ![j] = @ + 1] /\ UNCHANGED bounces
      BY <3>1 DEF TypeOK
    <3>2. CASE bounces' = [bounces EXCEPT ![j] = @ + 1] /\ UNCHANGED runs
      BY <3>2 DEF TypeOK
    <3> QED BY <2>5, <3>1, <3>2
  <2>4. late' \in [Workers -> Nat] /\ UNCHANGED <<mainVars, hasRow, rows>>
    BY <1>5, TakeFrame
  <2> QED BY <2>1, <2>3, <2>4, <2>6 DEF TypeOK, mainVars
<1>6. CASE MainStep \/ Panic
  <2>1. JobQueueTypeOK'
    BY <1>6 DEF MainStep, Panic, StopScrapePool, StopNotificationPool, CloseQueue,
                Close, TypeOK, JobQueueTypeOK, qvars
  <2>2. UNCHANGED workerVars
    BY <1>6 DEF MainStep, Panic, StopScrapePool, StopNotificationPool, CloseQueue
  <2>3. /\ cancelled' \subseteq Workers
        /\ mainAt' \in {"serving", "stoppingScrape", "stoppingNotification",
                        "closed", "panicked"}
    BY <1>6 DEF MainStep, Panic, StopScrapePool, StopNotificationPool, CloseQueue,
                TypeOK, Workers
  <2> QED BY <2>1, <2>2, <2>3 DEF TypeOK, workerVars
<1>7. CASE UNCHANGED vars
  BY <1>7 DEF vars, qvars, workerVars, mainVars, TypeOK, JobQueueTypeOK
<1> QED BY <1>1, <1>2, <1>3, <1>4, <1>5, <1>6, <1>7, NextCases

-----------------------------------------------------------------------------
(* No worker holds a job when the pools are started.                        *)
LEMMA InitHeldOnce == Init => HeldOnce
  BY DispatchAssumption DEF Init, JobQueueInit, HeldOnce, Busy

(* Every step keeps queue and workers in agreement: a job changes hands    *)
(* only in Take and in the settling steps, each of which changes the job's *)
(* place and the worker's in the same step.                                *)
LEMMA NextHeldOnce == TypeOK /\ HeldOnce /\ [Next]_vars => HeldOnce'
<1> SUFFICES ASSUME TypeOK, HeldOnce, [Next]_vars  PROVE HeldOnce'
  OBVIOUS
<1>0. /\ place \in [Job -> Places] /\ pc \in [Workers -> PCs]
      /\ holds \in [Workers -> Job \union {NoJob}] /\ NoJob \notin Job
  BY DispatchAssumption DEF TypeOK, JobQueueTypeOK
<1>1. ASSUME NEW j \in Job, NEW there \in {"pending", "delayed"},
             place[j] # "inFlight", place' = [place EXCEPT ![j] = there],
             UNCHANGED <<pc, holds>>
      PROVE  HeldOnce'
  BY <1>0, <1>1 DEF HeldOnce
<1>2. ASSUME NEW j \in Job, NEW p \in Priorities, Submit(j, p)
      PROVE  HeldOnce'
  BY <1>1, <1>2 DEF Submit, Enqueue, workerVars
<1>3. ASSUME NEW j \in Job, BackoffEnds(j)  PROVE HeldOnce'
  BY <1>1, <1>3 DEF BackoffEnds, Ripen, workerVars
<1>4. ASSUME NEW w \in Workers, QuietStep(w)  PROVE HeldOnce'
  <2>1. UNCHANGED <<place, holds>>
    BY <1>4, QuietFrame DEF qvars
  <2>2. PICK there \in PCs : /\ pc' = [pc EXCEPT ![w] = there]
                             /\ there \in Busy <=> pc[w] \in Busy
    BY <1>4, QuietPC
  <2> QED BY <1>0, <2>1, <2>2 DEF HeldOnce
<1>5. ASSUME NEW w \in Workers, SettleStep(w)  PROVE HeldOnce'
  <2> DEFINE j == holds[w]
  <2>1. /\ j \in Job
        /\ pc' = [pc EXCEPT ![w] = "idle"]
        /\ holds' = [holds EXCEPT ![w] = NoJob]
    BY <1>5, SettleFrame
  <2>2. PICK there \in {"acked", "delayed", "dropped"} :
               place' = [place EXCEPT ![j] = there]
    BY <1>5, SettleFrame DEF GivenBack
  <2>3. \A v \in Workers \ {w} : holds[v] # j
    BY <2>1, <1>0 DEF HeldOnce
  <2>4. \A v \in Workers : pc'[v] \in Busy <=> holds'[v] # NoJob
    BY <1>0, <2>1 DEF HeldOnce, Busy
  <2>5. \A u, v \in Workers :
            holds'[u] = holds'[v] /\ holds'[u] # NoJob => u = v
    BY <1>0, <2>1 DEF HeldOnce
  <2>6. \A k \in Job : place'[k] = "inFlight" <=> \E v \in Workers : holds'[v] = k
    <3> SUFFICES ASSUME NEW k \in Job
                 PROVE  place'[k] = "inFlight" <=> \E v \in Workers : holds'[v] = k
      OBVIOUS
    <3>1. CASE k = j
      BY <1>0, <2>1, <2>2, <2>3, <3>1
    <3>2. CASE k # j
      BY <1>0, <2>1, <2>2, <3>2 DEF HeldOnce
    <3> QED BY <3>1, <3>2
  <2> QED BY <2>4, <2>5, <2>6 DEF HeldOnce
<1>6. ASSUME NEW w \in Workers, NEW j \in Job, Take(w, j)  PROVE HeldOnce'
  <2>1. /\ pc[w] = "polling"
        /\ pc' = [pc EXCEPT ![w] = "taken"]
        /\ holds' = [holds EXCEPT ![w] = j]
    BY <1>6, TakeFrame
  <2>2. place[j] = "pending" /\ place' = [place EXCEPT ![j] = "inFlight"]
    BY <1>6, TakeFrame DEF Dequeue
  <2>3. \A v \in Workers : holds[v] # j
    BY <2>2 DEF HeldOnce
  <2>4. \A v \in Workers : pc'[v] \in Busy <=> holds'[v] # NoJob
    BY <1>0, <2>1 DEF HeldOnce, Busy
  <2>5. \A u, v \in Workers :
            holds'[u] = holds'[v] /\ holds'[u] # NoJob => u = v
    BY <1>0, <2>1, <2>3 DEF HeldOnce
  <2>6. holds[w] = NoJob
    BY <1>0, <2>1 DEF HeldOnce, Busy
  <2>7. \A k \in Job : place'[k] = "inFlight" <=> \E v \in Workers : holds'[v] = k
    <3> SUFFICES ASSUME NEW k \in Job
                 PROVE  place'[k] = "inFlight" <=> \E v \in Workers : holds'[v] = k
      OBVIOUS
    <3>1. CASE k = j
      BY <1>0, <2>1, <2>2, <3>1
    <3>2. CASE k # j
      BY <1>0, <2>1, <2>2, <2>6, <3>2 DEF HeldOnce
    <3> QED BY <3>1, <3>2
  <2> QED BY <2>4, <2>5, <2>7 DEF HeldOnce
<1>7. CASE UNCHANGED <<place, pc, holds>>
  BY <1>7 DEF HeldOnce
<1> QED
  BY <1>2, <1>3, <1>4, <1>5, <1>6, <1>7, NextCases
  DEF MainStep, Panic, StopScrapePool, StopNotificationPool, CloseQueue, Close, vars,
      qvars, workerVars

(* Type correctness, and: a job is in flight exactly while one worker      *)
(* holds it, for any number of workers and jobs.                           *)
THEOREM HeldOnceHolds == Spec => [](TypeOK /\ HeldOnce)
<1>1. TypeOK /\ HeldOnce /\ [Next]_vars => (TypeOK /\ HeldOnce)'
  BY NextTypeOK, NextHeldOnce
<1> QED BY <1>1, InitTypeOK, InitHeldOnce, PTL DEF Spec

-----------------------------------------------------------------------------
(* Nothing was taken yet when the pools are started.                        *)
LEMMA InitAccounted == Init => AttemptsAccounted
  BY MaxAttemptsInt, DispatchAssumption
  DEF Init, JobQueueInit, AttemptsAccounted, Taken

(* Every step keeps the account: a Take counts a run or a bounce when the  *)
(* job becomes taken, a Nack that requeues counts an attempt when it stops *)
(* being taken.  Only a bounce lets Attempts reach MaxAttempts.            *)
LEMMA NextAccounted ==
    TypeOK /\ HeldOnce /\ AttemptsAccounted /\ [Next]_vars
        => AttemptsAccounted'
<1> SUFFICES ASSUME TypeOK, HeldOnce, AttemptsAccounted, [Next]_vars
             PROVE  AttemptsAccounted'
  OBVIOUS
<1>0. /\ place \in [Job -> Places] /\ attempts \in [Job -> Nat]
      /\ runs \in [Job -> Nat] /\ bounces \in [Job -> Nat]
      /\ holds \in [Workers -> Job \union {NoJob}] /\ NoJob \notin Job
      /\ MaxAttempts \in Int
  BY MaxAttemptsInt, DispatchAssumption DEF TypeOK, JobQueueTypeOK
<1>1. ASSUME NEW j \in Job, NEW there \in {"pending", "delayed"},
             place[j] \in {"none", "pending", "delayed"},
             place' = [place EXCEPT ![j] = there],
             UNCHANGED <<holds, attempts, runs, bounces>>
      PROVE  AttemptsAccounted'
  <2>1. \A k \in Job : Taken(k)' <=> Taken(k)
    BY <1>0, <1>1 DEF Taken
  <2> QED BY <1>1, <2>1 DEF AttemptsAccounted
<1>2. ASSUME NEW j \in Job, NEW p \in Priorities, Submit(j, p)
      PROVE  AttemptsAccounted'
  BY <1>1, <1>2 DEF Submit, Enqueue, workerVars
<1>3. ASSUME NEW j \in Job, BackoffEnds(j)  PROVE AttemptsAccounted'
  BY <1>1, <1>3 DEF BackoffEnds, Ripen, workerVars
<1>4. CASE UNCHANGED <<place, attempts, holds, runs, bounces>>
  BY <1>4 DEF AttemptsAccounted, Taken
<1>5. ASSUME NEW w \in Workers, QuietStep(w)  PROVE AttemptsAccounted'
  BY <1>4, <1>5, QuietFrame DEF qvars
<1>6. ASSUME NEW w \in Workers, SettleStep(w)  PROVE AttemptsAccounted'
  <2>1. PICK j \in Job :
            /\ holds[w] = j
            /\ GivenBack(w, j)
            /\ holds' = [holds EXCEPT ![w] = NoJob]
            /\ UNCHANGED <<runs, bounces>>
    BY <1>6, SettleFrame
  <2>2. ~OwnKind(w, j) => bounces[j] >= 1
    BY <2>1 DEF AttemptsAccounted
  <2>3. \A v \in Workers, k \in Job :
            holds'[v] = k /\ ~OwnKind(v, k) => bounces'[k] >= 1
    BY <1>0, <2>1 DEF AttemptsAccounted
  <2>4. runs[j] + bounces[j] = attempts[j] + 1
    BY <2>1 DEF AttemptsAccounted, GivenBack, Taken
  <2>5. CASE /\ \E there \in {"acked", "dropped"} :
                   place' = [place EXCEPT ![j] = there]
             /\ UNCHANGED attempts
    <3>1. \A k \in Job : Taken(k)' <=> Taken(k)
      BY <1>0, <2>1, <2>5 DEF Taken, GivenBack
    <3> QED BY <2>1, <2>3, <2>5, <3>1 DEF AttemptsAccounted
  <2>6. CASE /\ place' = [place EXCEPT ![j] = "delayed"]
             /\ attempts' = [attempts EXCEPT ![j] = @ + 1]
             /\ attempts[j] < MaxAttempts
             /\ attempts[j] < MaxAttempts - 1 \/ ~OwnKind(w, j)
    <3>1. /\ ~Taken(j)'
          /\ \A k \in Job \ {j} : Taken(k)' <=> Taken(k)
      BY <1>0, <2>1, <2>6 DEF Taken
    <3>2. /\ attempts'[j] = attempts[j] + 1
          /\ \A k \in Job \ {j} : attempts'[k] = attempts[k]
      BY <1>0, <2>1, <2>6
    <3>3. runs'[j] + bounces'[j] = attempts'[j]
      BY <2>1, <2>4, <3>2
    <3>4. attempts'[j] <= MaxAttempts
      BY <1>0, <2>1, <2>6, <3>2
    <3>5. attempts'[j] = MaxAttempts => bounces'[j] >= 1
      BY <1>0, <2>1, <2>2, <2>6, <3>2
    <3>6. ASSUME NEW k \in Job
          PROVE  /\ runs'[k] + bounces'[k] =
                       attempts'[k] + (IF Taken(k)' THEN 1 ELSE 0)
                 /\ MaxAttempts > 0 =>
                       /\ attempts'[k] <= MaxAttempts
                       /\ attempts'[k] = MaxAttempts => bounces'[k] >= 1
      <4>1. CASE k = j
        BY <1>0, <2>1, <3>1, <3>2, <3>3, <3>4, <3>5, <4>1
      <4>2. CASE k # j
        BY <2>1, <3>1, <3>2, <4>2 DEF AttemptsAccounted
      <4> QED BY <4>1, <4>2
    <3> QED BY <2>3, <3>6 DEF AttemptsAccounted
  <2> QED BY <2>1, <2>5, <2>6 DEF GivenBack
<1>7. ASSUME NEW w \in Workers, NEW j \in Job, Take(w, j)
      PROVE  AttemptsAccounted'
  <2>1. /\ place[j] = "pending"
        /\ place' = [place EXCEPT ![j] = "inFlight"]
        /\ UNCHANGED attempts
        /\ holds' = [holds EXCEPT ![w] = j]
    BY <1>7, TakeFrame DEF Dequeue
  <2>2. \/ /\ OwnKind(w, j)
           /\ runs' = [runs EXCEPT ![j] = @ + 1] /\ UNCHANGED bounces
        \/ /\ ~OwnKind(w, j)
           /\ bounces' = [bounces EXCEPT ![j] = @ + 1] /\ UNCHANGED runs
    BY <1>7, TakeFrame
  <2>3. /\ ~Taken(j) /\ Taken(j)'
        /\ \A k \in Job \ {j} : Taken(k)' <=> Taken(k)
    BY <1>0, <2>1 DEF Taken
  <2>4. /\ runs'[j] + bounces'[j] = runs[j] + bounces[j] + 1
        /\ ~OwnKind(w, j) => bounces'[j] >= 1
        /\ \A k \in Job : bounces'[k] >= bounces[k]
        /\ \A k \in Job \ {j} : runs'[k] = runs[k] /\ bounces'[k] = bounces[k]
    <3>1. CASE /\ OwnKind(w, j)
               /\ runs' = [runs EXCEPT ![j] = @ + 1] /\ UNCHANGED bounces
      BY <1>0, <3>1
    <3>2. CASE /\ ~OwnKind(w, j)
               /\ bounces' = [bounces EXCEPT ![j] = @ + 1] /\ UNCHANGED runs
      BY <1>0, <3>2
    <3> QED BY <2>2, <3>1, <3>2
  <2>5. runs'[j] \in Nat /\ bounces'[j] \in Nat
    <3>1. CASE runs' = [runs EXCEPT ![j] = @ + 1] /\ UNCHANGED bounces
      BY <1>0, <3>1
    <3>2. CASE bounces' = [bounces EXCEPT ![j] = @ + 1] /\ UNCHANGED runs
      BY <1>0, <3>2
    <3> QED BY <2>2, <3>1, <3>2
  <2>6. ASSUME NEW k \in Job
        PROVE  /\ runs'[k] + bounces'[k] =
                     attempts'[k] + (IF Taken(k)' THEN 1 ELSE 0)
               /\ MaxAttempts > 0 =>
                     /\ attempts'[k] <= MaxAttempts
                     /\ attempts'[k] = MaxAttempts => bounces'[k] >= 1
    <3>1. CASE k = j
      <4>1. runs[j] + bounces[j] = attempts[j]
        BY <1>0, <2>3 DEF AttemptsAccounted
      <4>2. runs'[j] + bounces'[j] = attempts'[j] + 1
        BY <1>0, <2>1, <2>4, <4>1
      <4>3. MaxAttempts > 0 =>
                /\ attempts'[j] <= MaxAttempts
                /\ attempts'[j] = MaxAttempts => bounces'[j] >= 1
        <5>1. bounces'[j] >= bounces[j] /\ attempts'[j] = attempts[j]
          BY <2>1, <2>4
        <5> QED BY <1>0, <2>5, <5>1 DEF AttemptsAccounted
      <4> QED BY <2>3, <3>1, <4>2, <4>3
    <3>2. CASE k # j
      BY <2>1, <2>3, <2>4, <3>2 DEF AttemptsAccounted
    <3> QED BY <3>1, <3>2
  <2>7. ASSUME NEW v \in Workers, NEW k \in Job, holds'[v] = k, ~OwnKind(v, k)
        PROVE  bounces'[k] >= 1
    <3>1. CASE v = w
      BY <1>0, <2>1, <2>4, <2>7, <3>1
    <3>2. CASE v # w
      <4>1. bounces[k] >= 1
        BY <1>0, <2>1, <2>7, <3>2 DEF AttemptsAccounted
      <4>2. bounces'[k] >= bounces[k] /\ bounces'[k] \in Nat
        <5>1. CASE k = j
          BY <2>4, <2>5, <5>1
        <5>2. CASE k # j
          BY <1>0, <2>4, <5>2
        <5> QED BY <5>1, <5>2
      <4> QED BY <1>0, <4>1, <4>2
    <3> QED BY <3>1, <3>2
  <2> QED BY <2>6, <2>7 DEF AttemptsAccounted
<1> QED
  BY <1>2, <1>3, <1>4, <1>5, <1>6, <1>7, NextCases
  DEF MainStep, Panic, StopScrapePool, StopNotificationPool, CloseQueue, Close, vars,
      qvars, workerVars

(* Attempts is the number of runs and bounces behind a job, for any number  *)
(* of workers: neither failJob nor the bounce loses or adds one.            *)
THEOREM Accounted == Spec => [](TypeOK /\ HeldOnce /\ AttemptsAccounted)
<1>1. TypeOK /\ HeldOnce /\ AttemptsAccounted /\ [Next]_vars
         => (TypeOK /\ HeldOnce /\ AttemptsAccounted)'
  BY NextTypeOK, NextHeldOnce, NextAccounted
<1> QED BY <1>1, InitTypeOK, InitHeldOnce, InitAccounted, PTL DEF Spec

(* MAX_RETRIES bounds the runs of every job, for any number of workers of  *)
(* either kind: with MaxAttempts + 1 takes one of them was a bounce.       *)
THEOREM RunsBounded == Spec => []ExecutionsBounded
<1>1. TypeOK /\ AttemptsAccounted => ExecutionsBounded
  <2> SUFFICES ASSUME TypeOK, AttemptsAccounted, MaxAttempts > 0, NEW j \in Job
               PROVE  runs[j] <= MaxAttempts
    BY DEF ExecutionsBounded
  <2>1. /\ attempts[j] \in Nat /\ runs[j] \in Nat /\ bounces[j] \in Nat
        /\ MaxAttempts \in Int
    BY MaxAttemptsInt DEF TypeOK, JobQueueTypeOK
  <2>2. /\ attempts[j] <= MaxAttempts
        /\ attempts[j] = MaxAttempts => bounces[j] >= 1
        /\ runs[j] + bounces[j] <= attempts[j] + 1
    BY <2>1 DEF AttemptsAccounted
  <2> QED BY <2>1, <2>2
<1> QED BY <1>1, Accounted, PTL

(* Every variable keeps its type, for any number of workers and jobs.       *)
THEOREM TypeCorrect == Spec => []TypeOK
<1>1. TypeOK /\ HeldOnce => TypeOK
  OBVIOUS
<1> QED BY <1>1, HeldOnceHolds, PTL

-----------------------------------------------------------------------------
(* A worker has its late job in hands, or is on its way out behind it.      *)
LateInv ==
    \A w \in Workers :
        /\ late[w] \in 0..1
        /\ late[w] = 1 => w \in cancelled
        /\ late[w] = 1 => pc[w] \in Busy \union {"idle", "exited"}

LEMMA InitLate == Init => LateInv
  BY DEF Init, LateInv

(* Behind the cancellation only a worker that was in Dequeue takes a job,   *)
(* and from there it comes to the head of the loop.                         *)
LEMMA NextLate == TypeOK /\ HeldOnce /\ LateInv /\ [Next]_vars => LateInv'
<1> SUFFICES ASSUME TypeOK, HeldOnce, LateInv, [Next]_vars  PROVE LateInv'
  OBVIOUS
<1>0. pc \in [Workers -> PCs] /\ late \in [Workers -> Nat]
  BY DEF TypeOK
<1>1. ASSUME UNCHANGED <<pc, late>>, cancelled \subseteq cancelled'
      PROVE  LateInv'
  BY <1>1 DEF LateInv
<1>2. ASSUME NEW w \in Workers, QuietStep(w)  PROVE LateInv'
  <2>1. UNCHANGED <<late, cancelled>>
    BY <1>2, QuietFrame DEF mainVars
  <2>2. late[w] = 1 => pc'[w] \in Busy \union {"idle", "exited"}
    <3> SUFFICES ASSUME late[w] = 1  PROVE pc'[w] \in Busy \union {"idle", "exited"}
      OBVIOUS
    <3>1. w \in cancelled /\ pc[w] \in Busy \union {"idle", "exited"}
      BY DEF LateInv
    <3>2. CASE pc[w] \in Busy
      BY <1>0, <1>2, <3>2, QuietPC
    <3>3. CASE pc[w] \in {"idle", "exited"}
      <4>1. LoopHead(w)
        BY <1>2, <3>3 DEF QuietStep, PollInVain, WakeUp, StartScrape, ScrapeSucceeds,
           ScrapeFails, StartNotification, CallWebhook, NotificationSucceeds,
           NotificationFails
      <4> QED BY <1>0, <3>1, <4>1 DEF LoopHead, Goto
    <3> QED BY <3>1, <3>2, <3>3
  <2>3. \A v \in Workers \ {w} : pc'[v] = pc[v]
    BY <1>0, <1>2, QuietPC
  <2> QED BY <2>1, <2>2, <2>3 DEF LateInv
<1>3. ASSUME NEW w \in Workers, SettleStep(w)  PROVE LateInv'
  <2>1. pc' = [pc EXCEPT ![w] = "idle"] /\ UNCHANGED <<late, cancelled>>
    BY <1>3, SettleFrame DEF mainVars
  <2> QED BY <1>0, <2>1 DEF LateInv
<1>4. ASSUME NEW w \in Workers, NEW j \in Job, Take(w, j)  PROVE LateInv'
  <2>1. /\ pc[w] = "polling" /\ pc' = [pc EXCEPT ![w] = "taken"]
        /\ UNCHANGED cancelled
        /\ late' = [late EXCEPT ![w] = IF w \in cancelled THEN @ + 1 ELSE @]
    BY <1>4 DEF Take, Goto, mainVars
  <2>2. late[w] = 0
    BY <1>0, <2>1 DEF LateInv, Busy
  <2> QED BY <1>0, <2>1, <2>2 DEF LateInv, Busy
<1> QED
  BY <1>1, <1>2, <1>3, <1>4, NextCases
  DEF Submit, BackoffEnds, MainStep, Panic, StopScrapePool, StopNotificationPool,
      CloseQueue, vars, workerVars, mainVars

(* A stopped pool's worker takes one more job at most (worker.go's loop     *)
(* looks at its context, Dequeue does not before it takes).                 *)
THEOREM OneMore == Spec => []OneLateJob
<1>1. TypeOK /\ HeldOnce /\ LateInv /\ [Next]_vars
         => (TypeOK /\ HeldOnce /\ LateInv)'
  BY NextTypeOK, NextHeldOnce, NextLate
<1>2. LateInv => OneLateJob
  BY DEF LateInv, OneLateJob
<1> QED BY <1>1, <1>2, InitTypeOK, InitHeldOnce, InitLate, PTL DEF Spec

-----------------------------------------------------------------------------
Done == {"completed", "sent"}

(* The job is acked, or its worker is about to. *)
Finished(j) ==
    place[j] = "acked" \/ \E w \in Workers : holds[w] = j /\ pc[w] = "acking"

LEMMA InitDone == Init => DoneIsFinal
<1> SUFFICES ASSUME Init  PROVE DoneIsFinal
  OBVIOUS
<1>1. \A j \in Job : Len(rows[j]) = 0
  BY DEF Init
<1> QED BY <1>1 DEF DoneIsFinal

(* While a worker is at work on a job, none of its records says done.       *)
LEMMA NothingDoneYet ==
    ASSUME TypeOK, HeldOnce, DoneIsFinal, NEW w \in Workers,
           pc[w] \in Busy, pc[w] # "acking"
    PROVE  /\ holds[w] \in Job
           /\ ~Finished(holds[w])
           /\ \A i \in 1..Len(rows[holds[w]]) : rows[holds[w]][i] \notin Done
<1>1. holds[w] \in Job
  BY BusyHolds
<1>2. place[holds[w]] = "inFlight"
  BY <1>1 DEF HeldOnce
<1>3. \A v \in Workers : holds[v] = holds[w] => v = w
  BY <1>1, DispatchAssumption DEF HeldOnce
<1>4. ~Finished(holds[w])
  BY <1>2, <1>3 DEF Finished
<1> QED BY <1>1, <1>4 DEF DoneIsFinal, Finished, Done

(* A list whose last record alone may say done. *)
LastMayBeDone(s) == \A i \in 1..Len(s) : s[i] \in Done => i = Len(s)
NoneDone(s) == \A i \in 1..Len(s) : s[i] \notin Done

(* What a run writes, from the records it finds. *)
LEMMA NewRecords ==
    ASSUME NEW s \in Seq(RowStatus), NoneDone(s), NEW status \in RowStatus
    PROVE  /\ LastMayBeDone(Append(s, status))
           /\ LastMayBeDone([s EXCEPT ![Len(s)] = status])
           /\ status \notin Done =>
                 /\ NoneDone(Append(s, status))
                 /\ NoneDone([s EXCEPT ![Len(s)] = status])
<1>1. /\ Len(s) \in Nat /\ Len(Append(s, status)) = Len(s) + 1
      /\ \A i \in 1..Len(s) : Append(s, status)[i] = s[i]
      /\ Append(s, status)[Len(s) + 1] = status
  OBVIOUS
<1>2. LastMayBeDone(Append(s, status))
      /\ (status \notin Done => NoneDone(Append(s, status)))
  BY <1>1 DEF LastMayBeDone, NoneDone
<1> DEFINE t == [s EXCEPT ![Len(s)] = status]
<1>3. /\ Len(s) \in Nat /\ Len(t) = Len(s)
      /\ \A i \in 1..Len(s) : t[i] = IF i = Len(s) THEN status ELSE s[i]
  <2>1. Len(s) \in Nat /\ s \in [1..Len(s) -> RowStatus]
    OBVIOUS
  <2>2. DOMAIN t = 1..Len(s)
    BY <2>1
  <2>3. t \in Seq(RowStatus)
    <3>1. t \in [1..Len(s) -> RowStatus]
      BY <2>1
    <3> HIDE DEF t
    <3> QED BY <2>1, <3>1, FunctionIsSeq
  <2>4. Len(t) = Len(s)
    BY <2>1, <2>2, <2>3
  <2> QED BY <2>1, <2>4
<1> HIDE DEF t
<1>4. LastMayBeDone(t) /\ (status \notin Done => NoneDone(t))
  BY <1>3 DEF LastMayBeDone, NoneDone
<1> QED BY <1>2, <1>4 DEF t

(* Records that stay, of jobs that stay finished. *)
LEMMA RecordsStay ==
    ASSUME DoneIsFinal, UNCHANGED rows,
           \A j \in Job : Finished(j) => Finished(j)' \/ NoneDone(rows[j])
    PROVE  DoneIsFinal'
  BY DEF DoneIsFinal, Finished, NoneDone, Done

(* A record is written by the worker at work on the job; if it says done,   *)
(* the worker goes on to the Ack.                                           *)
LEMMA RecordWritten ==
    ASSUME TypeOK, HeldOnce, DoneIsFinal, NEW w \in Workers,
           pc[w] \in Busy, pc[w] # "acking",
           NEW there \in PCs, pc' = [pc EXCEPT ![w] = there],
           UNCHANGED <<place, holds>>,
           NEW status \in RowStatus, status \in Done => there = "acking",
           \/ UNCHANGED rows
           \/ rows' = [rows EXCEPT ![holds[w]] = Append(rows[holds[w]], status)]
           \/ rows' = [rows EXCEPT ![holds[w]] =
                          [rows[holds[w]] EXCEPT ![Len(rows[holds[w]])] = status]]
    PROVE  DoneIsFinal'
<1> DEFINE j == holds[w]
<1>0. pc \in [Workers -> PCs] /\ rows \in [Job -> Seq(RowStatus)]
  BY DEF TypeOK
<1>1. j \in Job /\ NoneDone(rows[j])
  BY NothingDoneYet DEF NoneDone
<1>2. \A k \in Job : Finished(k) => Finished(k)'
  BY <1>0 DEF Finished
<1>3. CASE UNCHANGED rows
  BY <1>2, <1>3, RecordsStay
<1>4. ASSUME NEW t, rows' = [rows EXCEPT ![j] = t], LastMayBeDone(t),
             status \notin Done => NoneDone(t)
      PROVE  DoneIsFinal'
  <2>1. rows'[j] = t /\ \A k \in Job \ {j} : rows'[k] = rows[k]
    BY <1>0, <1>1, <1>4
  <2>2. ASSUME NEW i \in 1..Len(t), t[i] \in Done
        PROVE  i = Len(t) /\ Finished(j)'
    <3>1. i = Len(t) /\ status \in Done
      BY <1>4, <2>2 DEF LastMayBeDone, NoneDone
    <3>2. pc'[w] = "acking" /\ holds'[w] = j
      BY <1>0, <3>1
    <3> QED BY <3>1, <3>2 DEF Finished
  <2>3. ASSUME NEW k \in Job \ {j}, NEW i \in 1..Len(rows[k]), rows[k][i] \in Done
        PROVE  i = Len(rows[k]) /\ Finished(k)'
    BY <1>2, <2>3 DEF DoneIsFinal, Finished, Done
  <2> QED BY <1>1, <2>1, <2>2, <2>3 DEF DoneIsFinal, Finished, Done
<1>5. rows[j] \in Seq(RowStatus)
  BY <1>0, <1>1
<1> QED BY <1>1, <1>3, <1>4, <1>5, NewRecords

LEMMA NextDone == TypeOK /\ HeldOnce /\ DoneIsFinal /\ [Next]_vars => DoneIsFinal'
<1> SUFFICES ASSUME TypeOK, HeldOnce, DoneIsFinal, [Next]_vars  PROVE DoneIsFinal'
  OBVIOUS
<1>0. /\ place \in [Job -> Places] /\ pc \in [Workers -> PCs]
      /\ holds \in [Workers -> Job \union {NoJob}] /\ NoJob \notin Job
  BY DispatchAssumption DEF TypeOK, JobQueueTypeOK
<1>1. ASSUME NEW j \in Job, place[j] # "acked", NEW there,
             place' = [place EXCEPT ![j] = there], UNCHANGED <<pc, holds, rows>>
      PROVE  DoneIsFinal'
  <2>1. \A k \in Job : Finished(k) => Finished(k)'
    BY <1>0, <1>1 DEF Finished
  <2> QED BY <1>1, <2>1, RecordsStay
<1>2. ASSUME NEW j \in Job, NEW p \in Priorities, Submit(j, p)
      PROVE  DoneIsFinal'
  BY <1>1, <1>2 DEF Submit, Enqueue, workerVars
<1>3. ASSUME NEW j \in Job, BackoffEnds(j)  PROVE DoneIsFinal'
  BY <1>1, <1>3 DEF BackoffEnds, Ripen, workerVars
<1>4. ASSUME NEW w \in Workers, QuietStep(w)  PROVE DoneIsFinal'
  <2>1. UNCHANGED <<place, holds>>
    BY <1>4, QuietFrame DEF qvars
  <2>2. PICK there \in PCs : pc' = [pc EXCEPT ![w] = there]
    BY <1>4, QuietPC
  <2>3. CASE UNCHANGED rows
    <3>1. pc[w] # "acking"
      BY <1>4 DEF QuietStep, LoopHead, PollInVain, WakeUp, StartScrape,
         ScrapeSucceeds, ScrapeFails, StartNotification, CallWebhook,
         NotificationSucceeds, NotificationFails
    <3>2. \A k \in Job : Finished(k) => Finished(k)'
      BY <1>0, <2>1, <2>2, <3>1 DEF Finished
    <3> QED BY <2>3, <3>2, RecordsStay
  <2>4. CASE StartScrape(w)
    BY <1>0, <2>1, <2>4, RecordWritten
    DEF StartScrape, Goto, Busy, PCs, RowStatus, Done
  <2>5. CASE ScrapeSucceeds(w)
    BY <1>0, <2>1, <2>5, RecordWritten
    DEF ScrapeSucceeds, Goto, Busy, PCs, RowStatus, Done, Written, Concluded
  <2>6. CASE ScrapeFails(w)
    BY <1>0, <2>1, <2>6, RecordWritten
    DEF ScrapeFails, Goto, Busy, PCs, RowStatus, Done, Written, Concluded
  <2>7. CASE NotificationSucceeds(w)
    BY <1>0, <2>1, <2>7, RecordWritten
    DEF NotificationSucceeds, Goto, Busy, PCs, RowStatus, Done, Written
  <2>8. CASE NotificationFails(w)
    BY <1>0, <2>1, <2>8, RecordWritten
    DEF NotificationFails, Goto, Busy, PCs, RowStatus, Done, Written
  <2> QED
    BY <1>4, <2>3, <2>4, <2>5, <2>6, <2>7, <2>8
    DEF QuietStep, LoopHead, PollInVain, WakeUp, StartNotification, CallWebhook
<1>5. ASSUME NEW w \in Workers, SettleStep(w)  PROVE DoneIsFinal'
  <2>0. PICK j \in Job : j = holds[w]
    BY <1>5, SettleFrame
  <2>1. /\ pc[w] \in Busy /\ UNCHANGED rows
        /\ pc' = [pc EXCEPT ![w] = "idle"]
        /\ holds' = [holds EXCEPT ![w] = NoJob]
        /\ \E there : place' = [place EXCEPT ![j] = there]
    BY <1>5, <2>0, SettleFrame DEF GivenBack
  <2>2. Finished(j)' \/ NoneDone(rows[j])
    <3>1. CASE pc[w] = "acking"
      <4>1. place' = [place EXCEPT ![j] = "acked"]
        BY <1>5, <2>0, <3>1 DEF SettleStep, Bounce, SettleAck, SettleNack, Ack
      <4> QED BY <1>0, <2>1, <4>1 DEF Finished
    <3>2. CASE pc[w] # "acking"
      BY <2>0, <2>1, <3>2, NothingDoneYet DEF NoneDone
    <3> QED BY <3>1, <3>2
  <2>3. ASSUME NEW k \in Job \ {j}, Finished(k)  PROVE Finished(k)'
    BY <1>0, <2>0, <2>1, <2>3 DEF Finished
  <2> QED BY <2>1, <2>2, <2>3, RecordsStay
<1>6. ASSUME NEW w \in Workers, NEW j \in Job, Take(w, j)  PROVE DoneIsFinal'
  <2>1. /\ pc[w] = "polling" /\ pc' = [pc EXCEPT ![w] = "taken"]
        /\ holds' = [holds EXCEPT ![w] = j] /\ UNCHANGED rows
        /\ place[j] = "pending" /\ place' = [place EXCEPT ![j] = "inFlight"]
    BY <1>6, TakeFrame DEF Dequeue
  <2>2. \A k \in Job : Finished(k) => Finished(k)'
    BY <1>0, <2>1 DEF Finished
  <2> QED BY <2>1, <2>2, RecordsStay
<1>7. CASE UNCHANGED <<place, pc, holds, rows>>
  BY <1>7, RecordsStay DEF Finished
<1> QED
  BY <1>2, <1>3, <1>4, <1>5, <1>6, <1>7, NextCases
  DEF MainStep, Panic, StopScrapePool, StopNotificationPool, CloseQueue, Close, vars,
      qvars, workerVars

(* What is recorded as completed or sent is never run again (worker.go,     *)
(* notification_worker.go: Ack behind the record), whatever writes fail.    *)
THEOREM NoRerun == Spec => []DoneIsFinal
<1>1. TypeOK /\ HeldOnce /\ DoneIsFinal /\ [Next]_vars
         => (TypeOK /\ HeldOnce /\ DoneIsFinal)'
  BY NextTypeOK, NextHeldOnce, NextDone
<1> QED BY <1>1, InitTypeOK, InitHeldOnce, InitDone, PTL DEF Spec
-----------------------------------------------------------------------------
(* RecordsTellTheTruth.  What the records of a job say follows from where   *)
(* the job is and, in flight, from what its worker does with it.            *)
LastIs(s, S) == s # <<>> /\ s[Len(s)] \in S
NoneRunning(s) == \A i \in 1..Len(s) : s[i] # "running"
OnlyLastRuns(s) ==
    s # <<>> /\ \A i \in 1..Len(s) : s[i] = "running" => i = Len(s)
LastRuns(s) == OnlyLastRuns(s) /\ LastIs(s, {"running"})

(* A job at rest, with n runs behind it and the records s. *)
JobTruth(where, s, n) ==
    /\ where = "acked" => LastIs(s, Done)
    /\ where \notin {"acked", "inFlight"} /\ n > 0 => LastIs(s, {"failed"})
    /\ where # "inFlight" => NoneRunning(s)

InRun(w, at, j) ==
    at = "working" /\ w \in ScrapeWorkers /\ j \in ScrapeJobs

(* A worker at a point of its run of a job.  One of the other kind leaves   *)
(* the job's records as they are, and gives it back.                        *)
WorkerTruth(w, at, has, j, s, n) ==
    /\ InRun(w, at, j) => has /\ LastRuns(s)
    /\ ~InRun(w, at, j) => NoneRunning(s)
    /\ at = "acking" => LastIs(s, Done)
    /\ OwnKind(w, j) /\ at = "nacking" => LastIs(s, {"failed"})
    /\ ~OwnKind(w, j) /\ n > 0 => LastIs(s, {"failed"})
    /\ w \in NotificationWorkers /\ at \in {"working", "sending"}
         => j \notin ScrapeJobs

JobsRecorded == \A j \in Job : JobTruth(place[j], rows[j], runs[j])

RunsRecorded ==
    \A w \in Workers : holds[w] # NoJob =>
        WorkerTruth(w, pc[w], hasRow[w], holds[w], rows[holds[w]],
                    runs[holds[w]])

RecordsKept == JobsRecorded /\ RunsRecorded

(* The length of a sequence is the last index it has. *)
LEMMA LengthOfSeq ==
    ASSUME NEW S, NEW n \in Nat, NEW t \in Seq(S), DOMAIN t = 1..n
    PROVE  Len(t) = n
  OBVIOUS

(* What a new record and a final status make of a job's records. *)
LEMMA RecordAdded ==
    ASSUME NEW s \in Seq(RowStatus), NoneRunning(s), NEW status \in RowStatus
    PROVE  /\ LastIs(Append(s, status), {status})
           /\ status = "running" => LastRuns(Append(s, status))
           /\ status # "running" => NoneRunning(Append(s, status))
<1>1. /\ Len(s) \in Nat /\ Len(Append(s, status)) = Len(s) + 1
      /\ \A i \in 1..Len(s) : Append(s, status)[i] = s[i]
      /\ Append(s, status)[Len(s) + 1] = status
      /\ Append(s, status) # <<>>
  OBVIOUS
<1> QED BY <1>1 DEF LastIs, LastRuns, OnlyLastRuns, NoneRunning

LEMMA RecordConcluded ==
    ASSUME NEW s \in Seq(RowStatus), LastRuns(s),
           NEW status \in RowStatus \ {"running"}
    PROVE  /\ LastIs([s EXCEPT ![Len(s)] = status], {status})
           /\ NoneRunning([s EXCEPT ![Len(s)] = status])
<1> DEFINE t == [s EXCEPT ![Len(s)] = status]
<1>1. Len(s) \in Nat /\ s \in [1..Len(s) -> RowStatus] /\ s # <<>>
  BY DEF LastRuns, OnlyLastRuns
<1>2. Len(s) > 0
  BY <1>1
<1>3. /\ DOMAIN t = 1..Len(s) /\ t \in [1..Len(s) -> RowStatus]
      /\ \A i \in 1..Len(s) : t[i] = IF i = Len(s) THEN status ELSE s[i]
  BY <1>1
<1> HIDE DEF t
<1>4. t \in Seq(RowStatus)
  BY <1>1, <1>3, FunctionIsSeq
<1>5. Len(t) = Len(s)
  BY <1>1, <1>3, <1>4, LengthOfSeq
<1>6. LastIs(t, {status})
  <2>1. t # <<>>
    BY <1>2, <1>4, <1>5
  <2>2. Len(s) \in 1..Len(s)
    BY <1>1, <1>2
  <2>3. t[Len(t)] = status
    BY <1>3, <1>5, <2>2
  <2> QED BY <2>1, <2>3 DEF LastIs
<1>7. NoneRunning(t)
  BY <1>3, <1>5 DEF NoneRunning, LastRuns, OnlyLastRuns
<1> QED BY <1>6, <1>7 DEF t

(* One job and one worker move: the others' records are as true as before.  *)
LEMMA OneJobMoves ==
    ASSUME TypeOK, RecordsKept, NEW w \in Workers, NEW j \in Job,
           \A v \in Workers \ {w} : holds[v] # j,
           \A k \in Job \ {j} : /\ place'[k] = place[k] /\ rows'[k] = rows[k]
                                /\ runs'[k] = runs[k],
           \A v \in Workers \ {w} : /\ pc'[v] = pc[v]
                                    /\ hasRow'[v] = hasRow[v]
                                    /\ holds'[v] = holds[v],
           JobTruth(place'[j], rows'[j], runs'[j]),
           holds'[w] # NoJob =>
              /\ holds'[w] = j
              /\ WorkerTruth(w, pc'[w], hasRow'[w], j, rows'[j], runs'[j])
    PROVE  RecordsKept'
<1>1. JobsRecorded'
  BY DEF RecordsKept, JobsRecorded
<1>2. ASSUME NEW v \in Workers \ {w}, holds'[v] # NoJob
      PROVE  WorkerTruth(v, pc'[v], hasRow'[v], holds'[v], rows'[holds'[v]],
                         runs'[holds'[v]])
  <2>1. holds'[v] = holds[v] /\ holds[v] \in Job \ {j}
    BY <1>2 DEF TypeOK
  <2>2. WorkerTruth(v, pc[v], hasRow[v], holds[v], rows[holds[v]],
                    runs[holds[v]])
    BY <1>2, <2>1 DEF RecordsKept, RunsRecorded
  <2> QED BY <2>1, <2>2
<1>3. RunsRecorded'
  BY <1>2 DEF RunsRecorded
<1> QED BY <1>1, <1>3 DEF RecordsKept

LEMMA InitRecords == Init => RecordsKept
<1> SUFFICES ASSUME Init  PROVE RecordsKept
  OBVIOUS
<1>1. \A j \in Job : rows[j] = <<>> /\ runs[j] = 0 /\ place[j] = "none"
  BY DEF Init, JobQueueInit
<1>2. JobsRecorded
  <2>1. NoneRunning(<<>>)
    BY DEF NoneRunning
  <2>2. JobTruth("none", <<>>, 0)
    BY <2>1 DEF JobTruth
  <2> QED BY <1>1, <2>2 DEF JobsRecorded
<1>3. RunsRecorded
  BY DEF Init, RunsRecorded
<1> QED BY <1>2, <1>3 DEF RecordsKept

(* A worker moves on with its job and writes what the run says so far. *)
LEMMA RunRecords ==
    ASSUME TypeOK, HeldOnce, RecordsKept, NEW w \in Workers,
           NEW j \in Job, holds[w] = j,
           UNCHANGED <<place, holds, runs>>,
           NEW there \in PCs, pc' = [pc EXCEPT ![w] = there],
           \A v \in Workers \ {w} : hasRow'[v] = hasRow[v],
           NEW s \in Seq(RowStatus), rows' = [rows EXCEPT ![j] = s],
           WorkerTruth(w, there, hasRow'[w], j, s, runs[j])
    PROVE  RecordsKept'
<1>1. /\ pc \in [Workers -> PCs] /\ rows \in [Job -> Seq(RowStatus)]
      /\ NoJob \notin Job
  BY DispatchAssumption DEF TypeOK
<1>2. place[j] = "inFlight" /\ \A v \in Workers \ {w} : holds[v] # j
  BY <1>1 DEF HeldOnce
<1>3. JobTruth(place'[j], rows'[j], runs'[j])
  BY <1>2 DEF JobTruth
<1>4. /\ pc'[w] = there /\ rows'[j] = s
      /\ \A v \in Workers \ {w} : pc'[v] = pc[v]
      /\ \A k \in Job \ {j} : rows'[k] = rows[k]
  BY <1>1
<1> QED BY <1>2, <1>3, <1>4, OneJobMoves

LEMMA QuietRecordsKept ==
    ASSUME ~DbMayFail, TypeOK, HeldOnce, RecordsKept, NEW w \in Workers,
           QuietStep(w)
    PROVE  RecordsKept'
<1>0. /\ pc \in [Workers -> PCs] /\ rows \in [Job -> Seq(RowStatus)]
      /\ hasRow \in [Workers -> BOOLEAN] /\ NoJob \notin Job
      /\ ScrapeWorkers \intersect NotificationWorkers = {}
      /\ ScrapeJobs \subseteq Job
  BY DispatchAssumption DEF TypeOK
<1>1. UNCHANGED <<place, holds, runs>>
  BY QuietFrame DEF qvars
<1>2. CASE LoopHead(w) \/ PollInVain(w) \/ WakeUp(w)
  <2>1. UNCHANGED <<rows, hasRow>> /\ pc[w] \notin Busy
    BY <1>2 DEF LoopHead, PollInVain, WakeUp, Busy
  <2>2. holds[w] = NoJob
    BY <2>1 DEF HeldOnce
  <2>3. \A v \in Workers \ {w} : pc'[v] = pc[v]
    BY <1>0, QuietPC
  <2>4. JobsRecorded'
    BY <1>1, <2>1 DEF RecordsKept, JobsRecorded
  <2>5. RunsRecorded'
    BY <1>1, <2>1, <2>2, <2>3 DEF RecordsKept, RunsRecorded
  <2> QED BY <2>4, <2>5 DEF RecordsKept
<1> SUFFICES ASSUME ~(LoopHead(w) \/ PollInVain(w) \/ WakeUp(w))
             PROVE  RecordsKept'
  BY <1>2
<1>3. pc[w] \in Busy
  BY DEF QuietStep, StartScrape, ScrapeSucceeds, ScrapeFails,
         StartNotification, CallWebhook, NotificationSucceeds,
         NotificationFails, Busy
<1>4. PICK j \in Job : j = holds[w]
  BY <1>3, BusyHolds
<1>5. PICK s \in Seq(RowStatus) : s = rows[j]
  BY <1>0, <1>4
<1>6. WorkerTruth(w, pc[w], hasRow[w], j, s, runs[j])
  BY <1>0, <1>4, <1>5 DEF RecordsKept, RunsRecorded
<1>7. rows = [rows EXCEPT ![j] = s]
  BY <1>0, <1>4, <1>5
<1>8. CASE StartScrape(w)
  <2>1. /\ w \in ScrapeWorkers /\ pc[w] = "taken"
        /\ pc' = [pc EXCEPT ![w] = "working"]
    BY <1>8 DEF StartScrape, Goto
  <2>2. \A v \in Workers \ {w} : hasRow'[v] = hasRow[v]
    BY <1>0, <1>8 DEF StartScrape
  <2>3. NoneRunning(s)
    BY <1>6, <2>1 DEF WorkerTruth, InRun
  <2>4. CASE j \in ScrapeJobs
    <3>1. rows' = [rows EXCEPT ![j] = Append(s, "running")] /\ hasRow'[w]
      BY <1>0, <1>4, <1>5, <1>8, <2>4 DEF StartScrape
    <3>2. LastRuns(Append(s, "running")) /\ Append(s, "running") \in Seq(RowStatus)
      BY <2>3, RecordAdded DEF RowStatus
    <3>3. WorkerTruth(w, "working", hasRow'[w], j, Append(s, "running"), runs[j])
      BY <1>0, <2>1, <2>4, <3>1, <3>2 DEF WorkerTruth, InRun, OwnKind
    <3> QED BY <1>1, <1>4, <2>1, <2>2, <3>1, <3>2, <3>3, RunRecords DEF PCs
  <2>5. CASE j \notin ScrapeJobs
    <3>1. rows' = [rows EXCEPT ![j] = s]
      BY <1>4, <1>7, <1>8, <2>5 DEF StartScrape
    <3>2. WorkerTruth(w, "working", hasRow'[w], j, s, runs[j])
      BY <1>0, <1>6, <2>1, <2>3, <2>5 DEF WorkerTruth, InRun, OwnKind
    <3> QED BY <1>1, <1>4, <2>1, <2>2, <3>1, <3>2, RunRecords DEF PCs
  <2> QED BY <2>4, <2>5
<1>9. ASSUME NEW there \in PCs, pc' = [pc EXCEPT ![w] = there],
             UNCHANGED hasRow, NEW status \in RowStatus \ {"running"},
             w \in ScrapeWorkers, pc[w] = "working", j \in ScrapeJobs,
             Written(j, Concluded(w, j, status)),
             \/ there = "acking" /\ status \in Done
             \/ there = "nacking" /\ status = "failed"
      PROVE  RecordsKept'
  <2>1. hasRow[w] /\ LastRuns(s)
    BY <1>6, <1>9 DEF WorkerTruth, InRun
  <2>2. PICK t : t = [s EXCEPT ![Len(s)] = status]
    OBVIOUS
  <2>3. rows' = [rows EXCEPT ![j] = t] /\ t \in Seq(RowStatus)
    <3>1. Concluded(w, j, status) = t
      BY <1>5, <2>1, <2>2 DEF Concluded
    <3>2. Concluded(w, j, status) \in Seq(RowStatus)
      BY <1>0, <1>9, ConcludedType
    <3> QED BY <1>9, <3>1, <3>2 DEF Written
  <2>4. LastIs(t, {status}) /\ NoneRunning(t)
    BY <1>9, <2>1, <2>2, RecordConcluded
  <2>5. WorkerTruth(w, there, hasRow'[w], j, t, runs[j])
    BY <1>0, <1>9, <2>4 DEF WorkerTruth, InRun, OwnKind, LastIs, Done
  <2> QED BY <1>1, <1>4, <1>9, <2>3, <2>5, RunRecords
<1>10. CASE ScrapeSucceeds(w)
  BY <1>4, <1>9, <1>10 DEF ScrapeSucceeds, Goto, PCs, RowStatus, Done
<1>11. CASE ScrapeFails(w)
  <2>1. /\ w \in ScrapeWorkers /\ pc[w] = "working" /\ UNCHANGED hasRow
        /\ pc' = [pc EXCEPT ![w] = "nacking"]
    BY <1>11 DEF ScrapeFails, Goto
  <2>2. CASE j \in ScrapeJobs
    BY <1>4, <1>9, <1>11, <2>1, <2>2 DEF ScrapeFails, PCs, RowStatus
  <2>3. CASE j \notin ScrapeJobs
    <3>1. rows' = [rows EXCEPT ![j] = s]
      BY <1>4, <1>7, <1>11, <2>3 DEF ScrapeFails
    <3>2. WorkerTruth(w, "nacking", hasRow'[w], j, s, runs[j])
      BY <1>0, <1>6, <2>1, <2>3 DEF WorkerTruth, InRun, OwnKind
    <3> QED BY <1>1, <1>4, <2>1, <3>1, <3>2, RunRecords DEF PCs
  <2> QED BY <2>2, <2>3
<1>12. CASE StartNotification(w) \/ CallWebhook(w)
  <2>1. PICK there \in {"working", "sending"} :
           pc' = [pc EXCEPT ![w] = there]
    BY <1>12 DEF StartNotification, CallWebhook, Goto
  <2>2. /\ w \in NotificationWorkers /\ UNCHANGED <<rows, hasRow>>
        /\ pc[w] \in {"taken", "working"}
    BY <1>12 DEF StartNotification, CallWebhook
  <2>3. j \notin ScrapeJobs
    BY <1>4, <1>6, <1>12 DEF StartNotification, CallWebhook, WorkerTruth
  <2>4. WorkerTruth(w, there, hasRow'[w], j, s, runs[j])
    BY <1>0, <1>6, <2>2, <2>3 DEF WorkerTruth, InRun, OwnKind
  <2>5. rows' = [rows EXCEPT ![j] = s]
    BY <1>7, <2>2
  <2> QED BY <1>1, <1>4, <2>1, <2>2, <2>4, <2>5, RunRecords DEF PCs
<1>13. ASSUME NEW there \in PCs, pc' = [pc EXCEPT ![w] = there],
              UNCHANGED hasRow, NEW status \in RowStatus \ {"running"},
              w \in NotificationWorkers, pc[w] \in {"working", "sending"},
              Written(j, Append(s, status)),
              \/ there = "acking" /\ status \in Done
              \/ there = "nacking" /\ status = "failed"
       PROVE  RecordsKept'
  <2>1. j \notin ScrapeJobs /\ w \notin ScrapeWorkers /\ NoneRunning(s)
    BY <1>0, <1>6, <1>13 DEF WorkerTruth, InRun
  <2>0. Append(s, status) \in Seq(RowStatus)
    OBVIOUS
  <2>2. PICK t \in Seq(RowStatus) : t = Append(s, status)
    BY <2>0
  <2>3. rows' = [rows EXCEPT ![j] = t]
    BY <1>13, <2>2 DEF Written
  <2>4. LastIs(t, {status}) /\ NoneRunning(t)
    BY <1>13, <2>1, <2>2, RecordAdded
  <2>5. WorkerTruth(w, there, hasRow'[w], j, t, runs[j])
    BY <1>13, <2>1, <2>4 DEF WorkerTruth, InRun, OwnKind, LastIs, Done
  <2> QED BY <1>1, <1>4, <1>13, <2>3, <2>5, RunRecords
<1>14. CASE NotificationSucceeds(w)
  BY <1>4, <1>5, <1>13, <1>14
  DEF NotificationSucceeds, Goto, PCs, RowStatus, Done
<1>15. CASE NotificationFails(w)
  BY <1>4, <1>5, <1>13, <1>15 DEF NotificationFails, Goto, PCs, RowStatus
<1> QED BY <1>8, <1>10, <1>11, <1>12, <1>14, <1>15 DEF QuietStep
LEMMA SettleRecordsKept ==
    ASSUME TypeOK, HeldOnce, RecordsKept, NEW w \in Workers, SettleStep(w)
    PROVE  RecordsKept'
<1>0. /\ pc \in [Workers -> PCs] /\ place \in [Job -> Places]
      /\ holds \in [Workers -> Job \union {NoJob}]
      /\ NoJob \notin Job /\ ScrapeWorkers \intersect NotificationWorkers = {}
  BY DispatchAssumption DEF TypeOK, JobQueueTypeOK
<1>1. PICK j \in Job : j = holds[w]
  BY SettleFrame
<1>2. /\ pc' = [pc EXCEPT ![w] = "idle"]
      /\ holds' = [holds EXCEPT ![w] = NoJob]
      /\ UNCHANGED <<hasRow, rows, runs>>
  BY SettleFrame
<1>3. WorkerTruth(w, pc[w], hasRow[w], j, rows[j], runs[j])
  BY <1>0, <1>1 DEF RecordsKept, RunsRecorded
<1>4. \A v \in Workers \ {w} : holds[v] # j
  BY <1>0, <1>1 DEF HeldOnce
<1>5. PICK there \in {"acked", "dropped", "delayed"} :
         /\ place' = [place EXCEPT ![j] = there]
         /\ there = "acked" <=> pc[w] = "acking"
  <2>1. CASE Bounce(w)
    BY <1>1, <2>1 DEF Bounce, Nack
  <2>2. CASE SettleAck(w)
    BY <1>1, <2>2 DEF SettleAck, Ack
  <2>3. CASE SettleNack(w)
    BY <1>1, <2>3 DEF SettleNack, Nack
  <2> QED BY <2>1, <2>2, <2>3 DEF SettleStep
<1>6. JobTruth(there, rows[j], runs[j])
  <2>1. pc[w] \in {"taken", "acking", "nacking"}
    BY DEF SettleStep, Bounce, SettleAck, SettleNack
  <2>2. pc[w] = "taken" => ~OwnKind(w, j)
    BY <1>0, <1>1 DEF SettleStep, Bounce, SettleAck, SettleNack, OwnKind
  <2>3. NoneRunning(rows[j])
    BY <1>3, <2>1 DEF WorkerTruth, InRun
  <2>4. pc[w] = "acking" => LastIs(rows[j], Done)
    BY <1>3 DEF WorkerTruth
  <2>5. pc[w] # "acking" /\ runs[j] > 0 => LastIs(rows[j], {"failed"})
    BY <1>3, <2>1, <2>2 DEF WorkerTruth
  <2> QED BY <1>5, <2>3, <2>4, <2>5 DEF JobTruth
<1>7. /\ holds'[w] = NoJob /\ place'[j] = there
      /\ \A k \in Job \ {j} : place'[k] = place[k]
      /\ \A v \in Workers \ {w} : pc'[v] = pc[v] /\ holds'[v] = holds[v]
  BY <1>0, <1>2, <1>5
<1> QED BY <1>2, <1>4, <1>6, <1>7, OneJobMoves

LEMMA TakeRecordsKept ==
    ASSUME TypeOK, HeldOnce, RecordsKept, NEW w \in Workers, NEW j \in Job,
           Take(w, j)
    PROVE  RecordsKept'
<1>0. /\ pc \in [Workers -> PCs] /\ place \in [Job -> Places]
      /\ holds \in [Workers -> Job \union {NoJob}] /\ runs \in [Job -> Nat]
      /\ NoJob \notin Job /\ ScrapeWorkers \intersect NotificationWorkers = {}
      /\ ScrapeJobs \subseteq Job
  BY DispatchAssumption DEF TypeOK, JobQueueTypeOK
<1>1. /\ pc' = [pc EXCEPT ![w] = "taken"]
      /\ holds' = [holds EXCEPT ![w] = j]
      /\ UNCHANGED <<hasRow, rows>>
      /\ place[j] = "pending" /\ place' = [place EXCEPT ![j] = "inFlight"]
      /\ \/ OwnKind(w, j) /\ runs' = [runs EXCEPT ![j] = @ + 1]
         \/ ~OwnKind(w, j) /\ UNCHANGED runs
  BY TakeFrame DEF Dequeue
<1>2. \A v \in Workers : holds[v] # j
  BY <1>1 DEF HeldOnce
<1>3. JobTruth("pending", rows[j], runs[j])
  BY <1>1 DEF RecordsKept, JobsRecorded
<1>4. NoneRunning(rows[j]) /\ (runs[j] > 0 => LastIs(rows[j], {"failed"}))
  BY <1>3 DEF JobTruth
<1>5. ~OwnKind(w, j) => runs'[j] = runs[j]
  BY <1>1
<1>6. WorkerTruth(w, "taken", hasRow[w], j, rows[j], runs'[j])
  BY <1>4, <1>5 DEF WorkerTruth, InRun
<1>7. /\ holds'[w] = j /\ place'[j] = "inFlight" /\ pc'[w] = "taken"
      /\ \A v \in Workers \ {w} : pc'[v] = pc[v] /\ holds'[v] = holds[v]
  BY <1>0, <1>1
<1>8. \A k \in Job \ {j} : place'[k] = place[k] /\ runs'[k] = runs[k]
  BY <1>0, <1>1
<1>9. JobTruth("inFlight", rows[j], runs'[j])
  BY DEF JobTruth
<1> QED BY <1>1, <1>2, <1>6, <1>7, <1>8, <1>9, OneJobMoves

(* Every step of a service whose record writes succeed keeps the records   *)
(* true.                                                                   *)
LEMMA NextRecords ==
    ASSUME ~DbMayFail, TypeOK, HeldOnce, RecordsKept, [Next]_vars
    PROVE  RecordsKept'
<1>0. place \in [Job -> Places]
  BY DEF TypeOK, JobQueueTypeOK
<1>1. ASSUME NEW j \in Job, place[j] \in {"none", "delayed"},
             NEW there \in {"pending", "delayed"},
             place' = [place EXCEPT ![j] = there], UNCHANGED workerVars
      PROVE  RecordsKept'
  <2>1. JobTruth(place[j], rows[j], runs[j])
    BY DEF RecordsKept, JobsRecorded
  <2>2. JobTruth(there, rows[j], runs[j])
    BY <1>1, <2>1 DEF JobTruth
  <2>3. \A k \in Job : JobTruth(place'[k], rows[k], runs[k])
    BY <1>0, <1>1, <2>2 DEF RecordsKept, JobsRecorded
  <2> QED BY <1>1, <2>3
          DEF RecordsKept, JobsRecorded, RunsRecorded, workerVars
<1>2. ASSUME NEW j \in Job, NEW p \in Priorities, Submit(j, p)
      PROVE  RecordsKept'
  BY <1>1, <1>2 DEF Submit, Enqueue
<1>3. ASSUME NEW j \in Job, BackoffEnds(j)  PROVE RecordsKept'
  BY <1>1, <1>3 DEF BackoffEnds, Ripen
<1>4. ASSUME NEW w \in Workers, QuietStep(w)  PROVE RecordsKept'
  BY <1>4, QuietRecordsKept
<1>5. ASSUME NEW w \in Workers, SettleStep(w)  PROVE RecordsKept'
  BY <1>5, SettleRecordsKept
<1>6. ASSUME NEW w \in Workers, NEW j \in Job, Take(w, j)  PROVE RecordsKept'
  BY <1>6, TakeRecordsKept
<1>7. CASE UNCHANGED <<place, workerVars>>
  BY <1>7 DEF RecordsKept, JobsRecorded, RunsRecorded, workerVars
<1> QED
  BY <1>2, <1>3, <1>4, <1>5, <1>6, <1>7, NextCases
  DEF MainStep, Panic, StopScrapePool, StopNotificationPool, CloseQueue, Close, vars,
      qvars

(* The invariant says what a reader of the tables relies on. *)
LEMMA RecordsAreTrue ==
    ASSUME TypeOK, HeldOnce, RecordsKept
    PROVE  RecordsTellTheTruth
<1> SUFFICES ASSUME NEW j \in Job
             PROVE  /\ (\E i \in 1..Len(rows[j]) : rows[j][i] = "running") <=>
                       (\E w \in ScrapeWorkers :
                            holds[w] = j /\ j \in ScrapeJobs /\ pc[w] = "working")
                    /\ place[j] = "acked" =>
                          /\ rows[j] # <<>>
                          /\ rows[j][Len(rows[j])] \in {"completed", "sent"}
                    /\ place[j] = "dropped" /\ runs[j] > 0 =>
                          /\ rows[j] # <<>>
                          /\ rows[j][Len(rows[j])] = "failed"
  BY DEF RecordsTellTheTruth
<1>0. NoJob \notin Job /\ rows[j] \in Seq(RowStatus)
  BY DispatchAssumption DEF TypeOK
<1>1. JobTruth(place[j], rows[j], runs[j])
  BY DEF RecordsKept, JobsRecorded
<1>2. ASSUME NEW w \in Workers, holds[w] = j
      PROVE  WorkerTruth(w, pc[w], hasRow[w], j, rows[j], runs[j])
  BY <1>0, <1>2 DEF RecordsKept, RunsRecorded
<1>3. ASSUME NEW w \in ScrapeWorkers, holds[w] = j, j \in ScrapeJobs,
             pc[w] = "working"
      PROVE  \E i \in 1..Len(rows[j]) : rows[j][i] = "running"
  <2>1. LastRuns(rows[j])
    BY <1>2, <1>3 DEF WorkerTruth, InRun, Workers
  <2>2. Len(rows[j]) \in 1..Len(rows[j])
    BY <1>0, <2>1 DEF LastRuns, LastIs
  <2> QED BY <2>1, <2>2 DEF LastRuns, LastIs
<1>4. ASSUME NEW i \in 1..Len(rows[j]), rows[j][i] = "running"
      PROVE  \E w \in ScrapeWorkers :
                holds[w] = j /\ j \in ScrapeJobs /\ pc[w] = "working"
  <2>1. place[j] = "inFlight"
    BY <1>1, <1>4 DEF JobTruth, NoneRunning
  <2>2. PICK w \in Workers : holds[w] = j
    BY <2>1 DEF HeldOnce
  <2>3. InRun(w, pc[w], j)
    BY <1>2, <1>4, <2>2 DEF WorkerTruth, NoneRunning
  <2> QED BY <2>2, <2>3 DEF InRun
<1>5. place[j] = "acked" =>
         rows[j] # <<>> /\ rows[j][Len(rows[j])] \in {"completed", "sent"}
  BY <1>1 DEF JobTruth, LastIs, Done
<1>6. place[j] = "dropped" /\ runs[j] > 0 =>
         rows[j] # <<>> /\ rows[j][Len(rows[j])] = "failed"
  BY <1>1 DEF JobTruth, LastIs
<1> QED BY <1>3, <1>4, <1>5, <1>6

(* While no write fails, the tables agree with the queue (worker.go,        *)
(* notification_worker.go): one record says running exactly while a scrape  *)
(* worker works on the job, the last record of an acked job is a success    *)
(* and that of a dropped one a failure, if it ever ran.                     *)
THEOREM RecordsAgree == Spec => []RecordsTellTheTruth
<1> DEFINE Kept == TypeOK /\ HeldOnce /\ (~DbMayFail => RecordsKept)
<1>1. Init => Kept
  BY InitTypeOK, InitHeldOnce, InitRecords
<1>2. Kept /\ [Next]_vars => Kept'
  BY NextTypeOK, NextHeldOnce, NextRecords
<1>3. Kept => RecordsTellTheTruth
  <2>1. DbMayFail => RecordsTellTheTruth
    BY DEF RecordsTellTheTruth
  <2> QED BY <2>1, RecordsAreTrue
<1> QED BY <1>1, <1>2, <1>3, PTL DEF Spec
-----------------------------------------------------------------------------
(* How a scrape job can be given up without ever having run: the run of     *)
(* MCDispatchRequeue.cfg shows that it can, this is the only way.           *)
UnrunOnlyByBounces ==
    \A j \in ScrapeJobs :
        place[j] = "dropped" /\ runs[j] = 0 => bounces[j] > MaxAttempts

(* A job in the hands of its kind was counted as run; a notification worker *)
(* does nothing with a scrape job before it gives it back.                  *)
HandsInv ==
    \A w \in Workers : holds[w] # NoJob =>
        /\ OwnKind(w, holds[w]) => runs[holds[w]] >= 1
        /\ w \in NotificationWorkers /\ pc[w] # "taken"
              => holds[w] \notin ScrapeJobs

LEMMA InitHands == Init => HandsInv /\ UnrunOnlyByBounces
  BY DispatchAssumption
  DEF Init, JobQueueInit, HandsInv, UnrunOnlyByBounces

LEMMA NextHands ==
    ASSUME TypeOK, HeldOnce, HandsInv, [Next]_vars
    PROVE  HandsInv'
<1>0. /\ pc \in [Workers -> PCs] /\ runs \in [Job -> Nat]
      /\ holds \in [Workers -> Job \union {NoJob}] /\ NoJob \notin Job
      /\ ScrapeWorkers \intersect NotificationWorkers = {}
  BY DispatchAssumption DEF TypeOK
<1>1. ASSUME NEW w \in Workers, QuietStep(w)  PROVE HandsInv'
  <2>1. UNCHANGED <<holds, runs>>
    BY <1>1, QuietFrame
  <2>2. \A v \in Workers \ {w} : pc'[v] = pc[v]
    BY <1>0, <1>1, QuietPC
  <2>3. holds[w] # NoJob /\ w \in NotificationWorkers /\ pc[w] = "taken"
           => holds[w] \notin ScrapeJobs
    BY <1>0, <1>1
    DEF QuietStep, LoopHead, PollInVain, WakeUp, StartScrape, ScrapeSucceeds,
        ScrapeFails, StartNotification, CallWebhook, NotificationSucceeds,
        NotificationFails
  <2> QED BY <2>1, <2>2, <2>3 DEF HandsInv
<1>2. ASSUME NEW w \in Workers, SettleStep(w)  PROVE HandsInv'
  <2>1. /\ pc' = [pc EXCEPT ![w] = "idle"]
        /\ holds' = [holds EXCEPT ![w] = NoJob] /\ UNCHANGED runs
    BY <1>2, SettleFrame
  <2> QED BY <1>0, <2>1 DEF HandsInv
<1>3. ASSUME NEW w \in Workers, NEW j \in Job, Take(w, j)  PROVE HandsInv'
  <2>1. /\ pc' = [pc EXCEPT ![w] = "taken"]
        /\ holds' = [holds EXCEPT ![w] = j]
        /\ \/ OwnKind(w, j) /\ runs' = [runs EXCEPT ![j] = @ + 1]
           \/ ~OwnKind(w, j) /\ UNCHANGED runs
    BY <1>3, TakeFrame
  <2>2. /\ holds'[w] = j /\ pc'[w] = "taken"
        /\ OwnKind(w, j) => runs'[j] >= 1
    BY <1>0, <2>1
  <2>3. \A v \in Workers \ {w} : holds'[v] = holds[v] /\ pc'[v] = pc[v]
    BY <1>0, <2>1
  <2>4. \A k \in Job : runs'[k] >= runs[k] /\ runs'[k] \in Nat
    BY <1>0, <2>1
  <2>5. ASSUME NEW v \in Workers \ {w}, holds'[v] # NoJob
        PROVE  /\ OwnKind(v, holds'[v]) => runs'[holds'[v]] >= 1
               /\ v \in NotificationWorkers /\ pc'[v] # "taken"
                    => holds'[v] \notin ScrapeJobs
    <3>1. PICK k \in Job : k = holds[v]
      BY <1>0, <2>3, <2>5
    <3>2. runs[k] \in Nat
      BY <1>0
    <3> QED BY <2>3, <2>4, <2>5, <3>1, <3>2 DEF HandsInv
  <2> QED BY <2>2, <2>5 DEF HandsInv
<1>4. CASE UNCHANGED <<pc, holds, runs>>
  BY <1>4 DEF HandsInv
<1> QED
  BY <1>1, <1>2, <1>3, <1>4, NextCases
  DEF Submit, BackoffEnds, MainStep, Panic, StopScrapePool, StopNotificationPool,
      CloseQueue, vars, workerVars

(* A job is dropped by failJob's Nack behind a run, or by a bounce at the   *)
(* limit.                                                                   *)
LEMMA NextUnrun ==
    ASSUME TypeOK, HeldOnce, AttemptsAccounted, HandsInv, UnrunOnlyByBounces,
           [Next]_vars
    PROVE  UnrunOnlyByBounces'
<1>0. /\ place \in [Job -> Places] /\ attempts \in [Job -> Nat]
      /\ runs \in [Job -> Nat] /\ bounces \in [Job -> Nat]
      /\ MaxAttempts \in Int /\ ScrapeJobs \subseteq Job
      /\ NoJob \notin Job /\ ScrapeWorkers \intersect NotificationWorkers = {}
  BY MaxAttemptsInt, DispatchAssumption DEF TypeOK, JobQueueTypeOK
<1>1. ASSUME NEW j \in Job, NEW there \in Places \ {"dropped"},
             place' = [place EXCEPT ![j] = there],
             \A k \in Job \ {j} : UNCHANGED <<runs[k], bounces[k]>>
      PROVE  UnrunOnlyByBounces'
  BY <1>0, <1>1 DEF UnrunOnlyByBounces
<1>2. ASSUME NEW j \in Job, NEW p \in Priorities, Submit(j, p)
      PROVE  UnrunOnlyByBounces'
  BY <1>1, <1>2 DEF Submit, Enqueue, workerVars, Places
<1>3. ASSUME NEW j \in Job, BackoffEnds(j)  PROVE UnrunOnlyByBounces'
  BY <1>1, <1>3 DEF BackoffEnds, Ripen, workerVars, Places
<1>4. CASE UNCHANGED <<place, runs, bounces>>
  BY <1>4 DEF UnrunOnlyByBounces
<1>5. ASSUME NEW w \in Workers, SettleStep(w)  PROVE UnrunOnlyByBounces'
  <2>1. PICK j \in Job : j = holds[w]
    BY <1>5, SettleFrame
  <2>2. UNCHANGED <<runs, bounces>> /\ place[j] = "inFlight"
    BY <1>5, <2>1, SettleFrame DEF GivenBack
  <2>3. PICK there \in {"acked", "dropped", "delayed"} :
           place' = [place EXCEPT ![j] = there]
    BY <1>5, <2>1, SettleFrame DEF GivenBack
  <2>4. CASE there # "dropped"
    BY <1>1, <2>2, <2>3, <2>4 DEF Places
  <2>5. ASSUME there = "dropped", j \in ScrapeJobs, runs[j] = 0
        PROVE  bounces[j] > MaxAttempts
    <3>1. ~OwnKind(w, j)
      BY <1>0, <2>1, <2>5 DEF HandsInv
    <3>2. w \in NotificationWorkers
      BY <2>5, <3>1 DEF OwnKind, Workers
    <3>3. pc[w] = "taken"
      BY <1>0, <2>1, <2>5, <3>2 DEF HandsInv
    <3>4. Bounce(w)
      BY <1>5, <3>3 DEF SettleStep, SettleAck, SettleNack
    <3>5. ~(attempts[j] < MaxAttempts)
      <4>1. place'[j] = "dropped"
        BY <1>0, <2>3, <2>5
      <4>2. Nack(j, TRUE)
        BY <2>1, <3>4 DEF Bounce
      <4> QED BY <1>0, <4>1, <4>2 DEF Nack, MayRetry
    <3>6. runs[j] + bounces[j] = attempts[j] + 1
      BY <2>2 DEF AttemptsAccounted, Taken
    <3> QED BY <1>0, <2>5, <3>5, <3>6
  <2>6. \A k \in Job \ {j} : place'[k] = place[k]
    BY <1>0, <2>3
  <2>7. place'[j] = there
    BY <1>0, <2>3
  <2>8. CASE there = "dropped"
    BY <1>0, <2>2, <2>5, <2>6, <2>7, <2>8 DEF UnrunOnlyByBounces
  <2> QED BY <2>4, <2>8
<1>6. ASSUME NEW w \in Workers, NEW j \in Job, Take(w, j)
      PROVE  UnrunOnlyByBounces'
  <2>1. /\ place' = [place EXCEPT ![j] = "inFlight"]
        /\ \/ runs' = [runs EXCEPT ![j] = @ + 1] /\ UNCHANGED bounces
           \/ bounces' = [bounces EXCEPT ![j] = @ + 1] /\ UNCHANGED runs
    BY <1>6, TakeFrame DEF Dequeue
  <2>2. \A k \in Job \ {j} : UNCHANGED <<runs[k], bounces[k]>>
    BY <1>0, <2>1
  <2> QED BY <1>1, <2>1, <2>2 DEF Places
<1>7. ASSUME NEW w \in Workers, QuietStep(w)  PROVE UnrunOnlyByBounces'
  BY <1>4, <1>7, QuietFrame DEF qvars
<1> QED
  BY <1>2, <1>3, <1>4, <1>5, <1>6, <1>7, NextCases
  DEF MainStep, Panic, StopScrapePool, StopNotificationPool, CloseQueue, Close, vars,
      qvars, workerVars

(* Scrape jobs that are given up unrun were bounced more than MaxAttempts   *)
(* times by notification workers (notification_worker.go:83): no failed run *)
(* and no other path drops one.                                             *)
THEOREM UnrunJobsBounced == Spec => []UnrunOnlyByBounces
<1> DEFINE I == /\ TypeOK /\ HeldOnce /\ AttemptsAccounted
                /\ HandsInv /\ UnrunOnlyByBounces
<1>1. Init => I
  BY InitTypeOK, InitHeldOnce, InitAccounted, InitHands
<1>2. I /\ [Next]_vars => I'
  BY NextTypeOK, NextHeldOnce, NextAccounted, NextHands, NextUnrun
<1>3. I => UnrunOnlyByBounces
  OBVIOUS
<1> QED BY <1>1, <1>2, <1>3, PTL DEF Spec

-----------------------------------------------------------------------------
(* The pools and main use the queue as JobQueue says it may be used: every  *)
(* step of theirs is one of its operations, or does not touch it.  As       *)
(* MemoryQueue implements JobQueue, it can stand for it here.               *)
THEOREM UsesJobQueue == Spec => JobQueueSpec
<1>1. Init => JobQueueInit
  BY DEF Init
<1>2. TypeOK /\ HeldOnce /\ [Next]_vars => [JobQueueNext]_qvars
  <2> SUFFICES ASSUME TypeOK, HeldOnce, [Next]_vars
               PROVE  [JobQueueNext]_qvars
    OBVIOUS
  <2>1. ASSUME NEW j \in Job, NEW p \in Priorities, Submit(j, p)
        PROVE  JobQueueNext
    BY <2>1 DEF Submit, JobQueueNext
  <2>2. ASSUME NEW j \in Job, BackoffEnds(j)  PROVE JobQueueNext
    BY <2>2 DEF BackoffEnds, JobQueueNext
  <2>3. ASSUME NEW w \in Workers, QuietStep(w)  PROVE UNCHANGED qvars
    BY <2>3, QuietFrame
  <2>4. ASSUME NEW w \in Workers, SettleStep(w)  PROVE JobQueueNext
    <3>1. PICK j \in Job : j = holds[w]
      BY <2>4, SettleFrame
    <3>2. CASE Bounce(w)
      BY <3>1, <3>2 DEF Bounce, JobQueueNext
    <3>3. CASE SettleAck(w)
      BY <3>1, <3>3 DEF SettleAck, JobQueueNext
    <3>4. CASE SettleNack(w)
      <4>1. CASE attempts[j] < MaxAttempts - 1
        BY <3>1, <3>4, <4>1 DEF SettleNack, Nack, MayRetry, JobQueueNext
      <4>2. CASE ~(attempts[j] < MaxAttempts - 1)
        BY <3>1, <3>4, <4>2 DEF SettleNack, Nack, MayRetry, JobQueueNext
      <4> QED BY <4>1, <4>2
    <3> QED BY <2>4, <3>2, <3>3, <3>4 DEF SettleStep
  <2>5. ASSUME NEW w \in Workers, NEW j \in Job, Take(w, j)
        PROVE  JobQueueNext
    BY <2>5 DEF Take, JobQueueNext
  <2>6. CASE MainStep \/ Panic
    BY <2>6 DEF MainStep, Panic, StopScrapePool, StopNotificationPool, CloseQueue,
                JobQueueNext, qvars
  <2>7. CASE UNCHANGED vars
    BY <2>7 DEF vars
  <2> QED BY <2>1, <2>2, <2>3, <2>4, <2>5, <2>6, <2>7, NextCases
<1> QED BY <1>1, <1>2, HeldOnceHolds, TypeCorrect, PTL DEF Spec, JobQueueSpec
=============================================================================
