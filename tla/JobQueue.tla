------------------------------ MODULE JobQueue ------------------------------
(***************************************************************************)
(* What the interface queue.Queue (internal/queue/queue.go) promises to    *)
(* the scheduler that enqueues and to the two worker pools that dequeue,   *)
(* without lists, locks or clocks: where each job is, how often it was     *)
(* tried, how urgent it is, and whether the queue was closed.              *)
(*                                                                         *)
(* MemoryQueue.tla is the in-memory implementation; it is shown to         *)
(* implement this module.  Dispatch.tla builds the worker pools on it.     *)
(***************************************************************************)
EXTENDS Integers

CONSTANTS
    Job,          \* job identities; Enqueue draws a fresh UUID for each
    Priorities,   \* priorities callers use (queue.go: 1, 5, 10, 20)
    MaxRetries    \* ServiceConfig.MaxRetries, the MaxAttempts callers ask for

ASSUME JobQueueAssumption ==
    /\ Priorities \subseteq Int
    /\ MaxRetries \in Int

(* Enqueue replaces a zero MaxAttempts by three. *)
MaxAttempts == IF MaxRetries = 0 THEN 3 ELSE MaxRetries

VARIABLES
    place,      \* where the job is, as its holder sees it
    priority,   \* Job.Priority
    attempts,   \* Job.Attempts
    stopped     \* Close was called

qvars == <<place, priority, attempts, stopped>>

(* "none": never accepted.  "acked" and "dropped": the two ways out. *)
Places == {"none", "pending", "delayed", "inFlight", "acked", "dropped"}

Settled(j) == place[j] \in {"acked", "dropped"}

JobQueueTypeOK ==
    /\ place \in [Job -> Places]
    /\ priority \in [Job -> Int]
    /\ attempts \in [Job -> Nat]
    /\ stopped \in BOOLEAN

JobQueueInit ==
    /\ place = [j \in Job |-> "none"]
    /\ priority = [j \in Job |-> 0]
    /\ attempts = [j \in Job |-> 0]
    /\ stopped = FALSE

-----------------------------------------------------------------------------
(* A new job is accepted, to be handed out at once or from some later time *)
(* on.  A stopped queue refuses it with ErrQueueStopped and changes        *)
(* nothing.                                                                *)
Enqueue(j, p, where) ==
    /\ ~stopped
    /\ place[j] = "none"
    /\ place' = [place EXCEPT ![j] = where]
    /\ priority' = [priority EXCEPT ![j] = p]
    /\ UNCHANGED <<attempts, stopped>>

(* The time a delayed job waited for has come, and a Dequeue saw it. *)
Ripen(j) ==
    /\ ~stopped
    /\ place[j] = "delayed"
    /\ place' = [place EXCEPT ![j] = "pending"]
    /\ UNCHANGED <<priority, attempts, stopped>>

MostUrgent(j) ==
    \A k \in Job : place[k] = "pending" => priority[k] <= priority[j]

(* Dequeue hands out one of the most urgent pending jobs, to one caller. *)
Dequeue(j) ==
    /\ ~stopped
    /\ place[j] = "pending"
    /\ MostUrgent(j)
    /\ place' = [place EXCEPT ![j] = "inFlight"]
    /\ UNCHANGED <<priority, attempts, stopped>>

(* Ack and Nack of a job that is not in flight return ErrJobNotFound and   *)
(* change nothing.  Both work on a stopped queue.                          *)
Ack(j) ==
    /\ place[j] = "inFlight"
    /\ place' = [place EXCEPT ![j] = "acked"]
    /\ UNCHANGED <<priority, attempts, stopped>>

MayRetry(j, retry) == retry /\ attempts[j] < MaxAttempts

(* Mutant: a retry is not counted. *)
NackUncounted(j, retry) ==
    /\ place[j] = "inFlight"
    /\ place' = [place EXCEPT ![j] = IF MayRetry(j, retry) THEN "delayed"
                                                          ELSE "dropped"]
    /\ UNCHANGED <<priority, attempts, stopped>>

(* Mutant: attempts are counted down. *)
NackCountsDown(j, retry) ==
    /\ place[j] = "inFlight"
    /\ place' = [place EXCEPT ![j] = IF MayRetry(j, retry) THEN "delayed"
                                                          ELSE "dropped"]
    /\ attempts' = [attempts EXCEPT ![j] = @ - 1]
    /\ UNCHANGED <<priority, stopped>>

Nack(j, retry) ==
    /\ place[j] = "inFlight"
    /\ IF MayRetry(j, retry)
         THEN /\ place' = [place EXCEPT ![j] = "delayed"]
              /\ attempts' = [attempts EXCEPT ![j] = @ + 1]
         ELSE /\ place' = [place EXCEPT ![j] = "dropped"]
              /\ UNCHANGED attempts
    /\ UNCHANGED <<priority, stopped>>

(* The queue keeps nothing of a settled job: its name is free for a later  *)
(* one.                                                                    *)
Forget(j) ==
    /\ Settled(j)
    /\ place' = [place EXCEPT ![j] = "none"]
    /\ attempts' = [attempts EXCEPT ![j] = 0]
    /\ UNCHANGED <<priority, stopped>>

(* main closes the queue once, after both pools were stopped. *)
Close ==
    /\ ~stopped
    /\ stopped' = TRUE
    /\ UNCHANGED <<place, priority, attempts>>

JobQueueNext ==
    \/ \E j \in Job, p \in Priorities, where \in {"pending", "delayed"} :
          Enqueue(j, p, where)
    \/ \E j \in Job : Ripen(j) \/ Dequeue(j) \/ Ack(j) \/ Forget(j)
    \/ \E j \in Job, retry \in BOOLEAN : Nack(j, retry)
    \/ Close

JobQueueSpec == JobQueueInit /\ [][JobQueueNext]_qvars
=============================================================================
