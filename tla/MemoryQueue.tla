---------------------------- MODULE MemoryQueue -----------------------------
(***************************************************************************)
(* internal/queue/memory.go: the in-memory queue shared by the scheduler,  *)
(* the API's trigger endpoints and both worker pools.                      *)
(*                                                                         *)
(* Every method runs under q.mu.  Enqueue, Ack, Nack and Close are one     *)
(* step each.  A poll of Dequeue is several: DequeueLock takes the mutex,  *)
(* MoveReady is one turn of the two loops of moveDelayedJobs, and          *)
(* DequeueTake or DequeueEmpty releases the mutex; no other method runs    *)
(* while `polling' holds.  Jobs move in the order of the delayed list,     *)
(* which is the order the code's `ready' slice preserves.                  *)
(*                                                                         *)
(* Time: wait[j] is the time left until Job.ScheduledAt, so there is no    *)
(* clock to bound.  moveDelayedJobs reads time.Now() once, hence Tick does *)
(* not happen inside a poll.                                               *)
(*                                                                         *)
(* Jobs come for ever: the name of a settled job, of which the queue keeps *)
(* nothing, is free for a later one (Forget), so a finite Job bounds the   *)
(* jobs that are there at one time and not how many come.                  *)
(***************************************************************************)
EXTENDS Integers, Sequences

CONSTANTS
    Job,          \* job identities; Enqueue draws a fresh UUID for each
    Priorities,   \* priorities callers use (queue.go: 1, 5, 10, 20)
    MaxRetries,   \* ServiceConfig.MaxRetries, the MaxAttempts callers ask for
    Delays,       \* how far ahead of now callers set ScheduledAt; 0 is now
    FirstBackoff,   \* the delay before the first retry; 5 s in the code
    BackoffFactor,  \* its growth from retry to retry; 5 in the code
    DurationRange   \* how many values a time.Duration has, 2^64 in the code

ASSUME MemoryQueueAssumption ==
    /\ Priorities \subseteq Int
    /\ MaxRetries \in Int
    /\ Delays \subseteq Nat
    /\ FirstBackoff \in Nat \ {0}
    /\ BackoffFactor \in Nat \ {0}
    /\ DurationRange \in Nat \ {0}

MaxAttempts == IF MaxRetries = 0 THEN 3 ELSE MaxRetries

(* The delay before retry n, multiplied by the factor once per further     *)
(* attempt.  The product of a Duration wraps; in the upper half of the     *)
(* range it is negative, the job is then scheduled for the past and ready  *)
(* at once.                                                                *)
Backoff(n) ==
    LET wrapped == (FirstBackoff * BackoffFactor ^ (n - 1)) % DurationRange
    IN  IF 2 * wrapped >= DurationRange THEN 0 ELSE wrapped

(* Exponentiation stays in the naturals; TLC evaluates the instance the    *)
(* model needs, the proofs use it.                                         *)
ASSUME PowerAssumption ==
    \A n \in 1..MaxAttempts : BackoffFactor ^ (n - 1) \in Nat

VARIABLES
    pending,    \* q.pending, a list of jobs
    delayed,    \* q.delayed, a list of jobs
    inFlight,   \* the keys of q.inFlight
    stopped,    \* q.stopped
    polling,    \* a Dequeue holds q.mu, between Lock and Unlock
    priority,   \* Job.Priority
    attempts,   \* Job.Attempts
    wait,       \* time left until Job.ScheduledAt
    accepted,   \* history: jobs Enqueue accepted
    acked,      \* history: jobs removed by Ack
    dropped     \* history: jobs removed by a Nack that did not requeue

vars == <<pending, delayed, inFlight, stopped, polling, priority, attempts,
          wait, accepted, acked, dropped>>

Elements(s) == {s[i] : i \in 1..Len(s)}

Init ==
    /\ pending = <<>>
    /\ delayed = <<>>
    /\ inFlight = {}
    /\ stopped = FALSE
    /\ polling = FALSE
    /\ priority = [j \in Job |-> 0]
    /\ attempts = [j \in Job |-> 0]
    /\ wait = [j \in Job |-> 0]
    /\ accepted = {}
    /\ acked = {}
    /\ dropped = {}

-----------------------------------------------------------------------------
(* s with x put in front of position i. *)
InsertBefore(s, i, x) ==
    [k \in 1..(Len(s) + 1) |->
        IF k < i THEN s[k] ELSE IF k = i THEN x ELSE s[k - 1]]

(* s without its element at position i. *)
WithoutIndex(s, i) ==
    [k \in 1..(Len(s) - 1) |-> IF k < i THEN s[k] ELSE s[k + 1]]

(* Mutant: the loop compares with <= and stops at a job of equal priority. *)
InsertionPointAtEqual(s, prio, p, i) ==
    /\ \A k \in 1..(i - 1) : ~(prio[s[k]] <= p)
    /\ i <= Len(s) => prio[s[i]] <= p

(* The loop of insertByPriority ends at the first job of a lower priority, *)
(* or behind the last job.                                                 *)
InsertionPoint(s, prio, p, i) ==
    /\ \A k \in 1..(i - 1) : ~(prio[s[k]] < p)
    /\ i <= Len(s) => prio[s[i]] < p

InsertByPriority(j, prio) ==
    \E i \in 1..(Len(pending) + 1) :
        /\ InsertionPoint(pending, prio, prio[j], i)
        /\ pending' = InsertBefore(pending, i, j)

-----------------------------------------------------------------------------
(* A job not seen before enters the queue: into the delayed list when it   *)
(* is scheduled for later, else into pending by its priority.              *)
Enqueue(j, p, d) ==
    /\ ~polling
    /\ ~stopped
    /\ j \notin accepted
    /\ accepted' = accepted \union {j}
    /\ priority' = [priority EXCEPT ![j] = p]
    /\ wait' = [wait EXCEPT ![j] = d]
    /\ \/ /\ d > 0
          /\ delayed' = Append(delayed, j)
          /\ UNCHANGED pending
       \/ /\ d = 0
          /\ InsertByPriority(j, priority')
          /\ UNCHANGED delayed
    /\ UNCHANGED <<inFlight, stopped, polling, attempts, acked, dropped>>

(* A caller of Dequeue gets the mutex.  On a stopped queue it leaves with  *)
(* ErrQueueStopped, having changed nothing.                                *)
DequeueLock ==
    /\ ~polling
    /\ ~stopped
    /\ polling' = TRUE
    /\ UNCHANGED <<pending, delayed, inFlight, stopped, priority, attempts,
                   wait, accepted, acked, dropped>>

Ready(i) == wait[delayed[i]] = 0

NoneReady == \A i \in 1..Len(delayed) : ~Ready(i)

(* moveDelayedJobs moves the first delayed job whose time has come. *)
MoveReady ==
    /\ polling
    /\ \E i \in 1..Len(delayed) :
          /\ Ready(i)
          /\ \A k \in 1..(i - 1) : ~Ready(k)
          /\ delayed' = WithoutIndex(delayed, i)
          /\ InsertByPriority(delayed[i], priority)
    /\ UNCHANGED <<inFlight, stopped, polling, priority, attempts, wait,
                   accepted, acked, dropped>>

DequeueTake ==
    /\ polling
    /\ NoneReady
    /\ pending # <<>>
    /\ inFlight' = inFlight \union {Head(pending)}
    /\ pending' = Tail(pending)
    /\ polling' = FALSE
    /\ UNCHANGED <<delayed, stopped, priority, attempts, wait, accepted,
                   acked, dropped>>

(* Mutant: the Unlock on the empty path is forgotten. *)
DequeueEmptyKeepsLock ==
    polling /\ NoneReady /\ pending = <<>> /\ UNCHANGED vars

(* Nothing to hand out: Unlock, and the caller sleeps or gives up. *)
DequeueEmpty ==
    /\ polling
    /\ NoneReady
    /\ pending = <<>>
    /\ polling' = FALSE
    /\ UNCHANGED <<pending, delayed, inFlight, stopped, priority, attempts,
                   wait, accepted, acked, dropped>>

Ack(j) ==
    /\ ~polling
    /\ j \in inFlight
    /\ inFlight' = inFlight \ {j}
    /\ acked' = acked \union {j}
    /\ UNCHANGED <<pending, delayed, stopped, polling, priority, attempts,
                   wait, accepted, dropped>>

(* Mutant: one retry too many. *)
MayRetryOnceMore(j, retry) == retry /\ attempts[j] <= MaxAttempts

MayRetry(j, retry) == retry /\ attempts[j] < MaxAttempts

(* Mutant: a requeued job is put into no list. *)
NackForgetsDelayed(j, retry) ==
    /\ ~polling
    /\ j \in inFlight
    /\ MayRetry(j, retry)
    /\ inFlight' = inFlight \ {j}
    /\ attempts' = [attempts EXCEPT ![j] = @ + 1]
    /\ UNCHANGED <<pending, delayed, stopped, polling, priority, wait,
                   accepted, acked, dropped>>

(* Mutant: a requeued job stays in the inFlight map. *)
NackKeepsInFlight(j, retry) ==
    /\ ~polling
    /\ j \in inFlight
    /\ MayRetry(j, retry)
    /\ attempts' = [attempts EXCEPT ![j] = @ + 1]
    /\ wait' = [wait EXCEPT ![j] = Backoff(attempts'[j])]
    /\ delayed' = Append(delayed, j)
    /\ UNCHANGED <<pending, inFlight, stopped, polling, priority, accepted,
                   acked, dropped>>

Nack(j, retry) ==
    /\ ~polling
    /\ j \in inFlight
    /\ inFlight' = inFlight \ {j}
    /\ IF MayRetry(j, retry)
         THEN /\ attempts' = [attempts EXCEPT ![j] = @ + 1]
              /\ wait' = [wait EXCEPT ![j] = Backoff(attempts'[j])]
              /\ delayed' = Append(delayed, j)
              /\ UNCHANGED dropped
         ELSE /\ dropped' = dropped \union {j}
              /\ UNCHANGED <<attempts, wait, delayed>>
    /\ UNCHANGED <<pending, stopped, polling, priority, accepted, acked>>

(* main calls Close once. *)
Close ==
    /\ ~polling
    /\ ~stopped
    /\ stopped' = TRUE
    /\ UNCHANGED <<pending, delayed, inFlight, polling, priority, attempts,
                   wait, accepted, acked, dropped>>

(* The queue keeps nothing of a settled job: its name is free again. *)
Forget(j) ==
    /\ ~polling
    /\ j \in acked \union dropped
    /\ accepted' = accepted \ {j}
    /\ acked' = acked \ {j}
    /\ dropped' = dropped \ {j}
    /\ attempts' = [attempts EXCEPT ![j] = 0]
    /\ UNCHANGED <<pending, delayed, inFlight, stopped, polling, priority, wait>>

(* One unit of time passes; only the jobs that still wait can tell. *)
Tick ==
    /\ ~polling
    /\ \E j \in Job : wait[j] > 0
    /\ wait' = [j \in Job |-> IF wait[j] > 0 THEN wait[j] - 1 ELSE 0]
    /\ UNCHANGED <<pending, delayed, inFlight, stopped, polling, priority,
                   attempts, accepted, acked, dropped>>

Next ==
    \/ \E j \in Job, p \in Priorities, d \in Delays : Enqueue(j, p, d)
    \/ DequeueLock \/ MoveReady \/ DequeueTake \/ DequeueEmpty
    \/ \E j \in Job : Ack(j) \/ Forget(j)
    \/ \E j \in Job, retry \in BOOLEAN : Nack(j, retry)
    \/ Close
    \/ Tick

Spec == Init /\ [][Next]_vars

(* Idle workers poll in an endless loop, a poll runs to its Unlock, and    *)
(* time passes: strong fairness, because polls, during which the model     *)
(* holds the clock, do not stop it.  Nobody has to settle, enqueue or      *)
(* close anything.                                                         *)
FairSpec ==
    /\ Spec
    /\ WF_vars(DequeueLock)
    /\ WF_vars(MoveReady \/ DequeueTake \/ DequeueEmpty)
    /\ SF_vars(Tick)
-----------------------------------------------------------------------------
(* The types of the queue's fields, and the limit on attempts: a Nack      *)
(* counts an attempt only below MaxAttempts.                               *)
TypeOK ==
    /\ pending \in Seq(Job)
    /\ delayed \in Seq(Job)
    /\ inFlight \subseteq Job
    /\ stopped \in BOOLEAN
    /\ polling \in BOOLEAN
    /\ priority \in [Job -> Int]
    /\ attempts \in [Job -> Nat]
    /\ \A j \in Job : attempts[j] = 0 \/ attempts[j] <= MaxAttempts
    /\ wait \in [Job -> Nat]
    /\ accepted \subseteq Job
    /\ acked \subseteq Job
    /\ dropped \subseteq Job

NoRepeats(s) == \A i, k \in 1..Len(s) : s[i] = s[k] => i = k

(* No job is lost inside the queue or handed out twice: a job Enqueue       *)
(* accepted is at one position of one list, or in flight, or settled, so    *)
(* never in none of these and never in two of them at once, whatever the    *)
(* order of Enqueue, Dequeue, Ack and Nack calls.                           *)
JobInOnePlace ==
    /\ accepted = Elements(pending) \union Elements(delayed) \union inFlight
                     \union acked \union dropped
    /\ NoRepeats(pending)
    /\ NoRepeats(delayed)
    /\ Elements(pending) \intersect Elements(delayed) = {}
    /\ inFlight \intersect (Elements(pending) \union Elements(delayed)) = {}
    /\ (acked \union dropped) \intersect
         (Elements(pending) \union Elements(delayed) \union inFlight) = {}
    /\ acked \intersect dropped = {}

(* The pending list is ordered by priority, most urgent first, which is    *)
(* what lets Dequeue take its head: immediate triggers (PriorityHigh)      *)
(* overtake scheduled jobs (PriorityNormal) even after retries.            *)
UrgencyOrder ==
    \A i, k \in 1..Len(pending) :
        i < k => priority[pending[k]] <= priority[pending[i]]

(* Among jobs of one priority the list is first come, first served: a job  *)
(* never leaves before one that stands ahead of it, two pending jobs never *)
(* change their order, and a job that enters (new, or back from the        *)
(* delayed list) queues behind all of its priority.                        *)
Ahead(s, j, k) == \E a, b \in 1..Len(s) : a < b /\ s[a] = j /\ s[b] = k

NoOvertakingStep ==
    /\ \A j, k \in Elements(pending) :
          Ahead(pending, j, k) /\ j \in Elements(pending')
             => Ahead(pending', j, k)
    /\ \A j \in Elements(pending), k \in Elements(pending') \ Elements(pending) :
          priority'[j] = priority'[k] /\ j \in Elements(pending')
             => Ahead(pending', j, k)

NoOvertaking == [][NoOvertakingStep]_vars

Waiting == Elements(pending) \union Elements(delayed)

Outranked(j) == \E k \in Elements(pending) : priority[k] > priority[j]

(* No job is forgotten: while consumers keep polling an open queue, a job   *)
(* in it is handed out in the end, also a delayed one and also if no job is *)
(* ever settled.  The one exception is starvation, which strict priority    *)
(* allows: more urgent jobs stand in the pending list again and again, for  *)
(* ever.                                                                    *)
EventuallyHandedOut ==
    \A j \in Job :
        \/ []<>Outranked(j)
        \/ (j \in Waiting) ~> (j \in inFlight \/ stopped)

(* Close waits for q.mu, so no poll ends on a closed queue: what a poll    *)
(* hands out, it hands out before Close.                                   *)
PollOnOpenQueue == polling => ~stopped

-----------------------------------------------------------------------------
(* The refinement mapping: a job's place is the list or set that has it.   *)
PlaceAmong(j, inPending, inDelayed, held, done, lost) ==
    CASE j \in held -> "inFlight"
      [] j \in done -> "acked"
      [] j \in lost -> "dropped"
      [] j \in inPending -> "pending"
      [] j \in inDelayed -> "delayed"
      [] OTHER -> "none"

PlaceOf ==
    [j \in Job |-> PlaceAmong(j, Elements(pending), Elements(delayed),
                              inFlight, acked, dropped)]

Abstract == INSTANCE JobQueue WITH place <- PlaceOf

(* MemoryQueue does what the Queue interface promises: each critical       *)
(* section is one abstract operation or none, and Dequeue always hands out *)
(* a job no pending job is more urgent than.                               *)
ImplementsJobQueue == Abstract!JobQueueSpec
=============================================================================
