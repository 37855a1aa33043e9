------------------------- MODULE MemoryQueueProofs --------------------------
(***************************************************************************)
(* Proofs about MemoryQueue, for any set of jobs, priorities and delays    *)
(* and any number of attempts.                                             *)
(***************************************************************************)
EXTENDS MemoryQueue, TLAPS

(* Putting an element in front of position i: the length grows by one and  *)
(* the elements are the old ones and the new one.                          *)
LEMMA InsertBeforeType ==
    ASSUME NEW S, NEW s \in Seq(S), NEW x \in S, NEW i \in 1..(Len(s) + 1)
    PROVE  /\ InsertBefore(s, i, x) \in Seq(S)
           /\ Len(InsertBefore(s, i, x)) = Len(s) + 1
           /\ \A k \in 1..(Len(s) + 1) :
                 InsertBefore(s, i, x)[k] =
                    IF k < i THEN s[k] ELSE IF k = i THEN x ELSE s[k - 1]
  BY DEF InsertBefore

(* Taking one job out of a list, as moveDelayedJobs does, leaves a list of  *)
(* jobs.                                                                    *)
LEMMA WithoutIndexType ==
    ASSUME NEW S, NEW s \in Seq(S), NEW i \in 1..Len(s)
    PROVE  /\ WithoutIndex(s, i) \in Seq(S)
           /\ Len(WithoutIndex(s, i)) = Len(s) - 1
           /\ \A k \in 1..(Len(s) - 1) :
                 WithoutIndex(s, i)[k] = IF k < i THEN s[k] ELSE s[k + 1]
  BY DEF WithoutIndex

(* What the four list operations do to the elements, and that none of them *)
(* makes a job appear twice.                                               *)
LEMMA InsertBeforeElements ==
    ASSUME NEW S, NEW s \in Seq(S), NEW x \in S, NEW i \in 1..(Len(s) + 1)
    PROVE  /\ Elements(InsertBefore(s, i, x)) = Elements(s) \union {x}
           /\ NoRepeats(s) /\ x \notin Elements(s)
                 => NoRepeats(InsertBefore(s, i, x))
<1> DEFINE t == InsertBefore(s, i, x)
<1>1. /\ t \in Seq(S)
      /\ Len(t) = Len(s) + 1
      /\ \A k \in 1..(Len(s) + 1) :
            t[k] = IF k < i THEN s[k] ELSE IF k = i THEN x ELSE s[k - 1]
  BY InsertBeforeType
<1> HIDE DEF t
<1>2. ASSUME NEW k \in 1..Len(t)
      PROVE  \/ k = i /\ t[k] = x
             \/ k < i /\ k \in 1..Len(s) /\ t[k] = s[k]
             \/ k > i /\ k - 1 \in 1..Len(s) /\ t[k] = s[k - 1]
  BY <1>1
<1>3. ASSUME NEW k \in 1..Len(s)  PROVE s[k] \in Elements(t)
  <2>1. CASE k < i
    BY <1>1, <2>1 DEF Elements
  <2>2. CASE k >= i
    <3>1. k + 1 \in 1..(Len(s) + 1) /\ t[k + 1] = s[k]
      BY <1>1, <2>2
    <3> QED BY <1>1, <3>1 DEF Elements
  <2> QED BY <2>1, <2>2
<1>4. x \in Elements(t)
  BY <1>1 DEF Elements
<1>5. ASSUME NoRepeats(s), x \notin Elements(s)  PROVE NoRepeats(t)
  <2> SUFFICES ASSUME NEW a \in 1..Len(t), NEW b \in 1..Len(t), t[a] = t[b]
               PROVE  a = b
    BY DEF NoRepeats
  <2>1. \A k \in 1..Len(s) : s[k] # x
    BY <1>5 DEF Elements
  <2>2. \A k, l \in 1..Len(s) : s[k] = s[l] => k = l
    BY <1>5 DEF NoRepeats
  <2>3. CASE a = i \/ b = i
    BY <1>1, <1>2, <2>1, <2>3
  <2>4. CASE a # i /\ b # i
    <3> DEFINE P(k) == IF k < i THEN k ELSE k - 1
    <3>1. P(a) \in 1..Len(s) /\ t[a] = s[P(a)]
      BY <1>1, <1>2, <2>4
    <3>2. P(b) \in 1..Len(s) /\ t[b] = s[P(b)]
      BY <1>1, <1>2, <2>4
    <3>3. P(a) = P(b)
      <4> HIDE DEF P
      <4> QED BY <2>2, <3>1, <3>2
    <3> QED BY <1>1, <2>4, <3>3
  <2> QED BY <2>3, <2>4
<1>6. Elements(t) = Elements(s) \union {x}
  <2>1. ASSUME NEW k \in 1..Len(t)  PROVE t[k] \in Elements(s) \union {x}
    BY <1>2 DEF Elements
  <2> QED BY <2>1, <1>3, <1>4 DEF Elements
<1> QED BY <1>5, <1>6 DEF t

(* It leaves out that one job and no other, if the list had no job twice.   *)
LEMMA WithoutIndexElements ==
    ASSUME NEW S, NEW s \in Seq(S), NEW i \in 1..Len(s), NoRepeats(s)
    PROVE  /\ Elements(WithoutIndex(s, i)) = Elements(s) \ {s[i]}
           /\ NoRepeats(WithoutIndex(s, i))
<1> DEFINE t == WithoutIndex(s, i)
<1>1. /\ t \in Seq(S)
      /\ Len(t) = Len(s) - 1
      /\ \A k \in 1..(Len(s) - 1) : t[k] = IF k < i THEN s[k] ELSE s[k + 1]
  BY WithoutIndexType
<1> HIDE DEF t
<1>2. ASSUME NEW k \in 1..Len(t)
      PROVE  \/ k < i /\ k \in 1..Len(s) /\ t[k] = s[k]
             \/ k >= i /\ k + 1 \in 1..Len(s) /\ t[k] = s[k + 1]
  BY <1>1
<1>3. \A k, l \in 1..Len(s) : s[k] = s[l] => k = l
  BY DEF NoRepeats
<1>4. ASSUME NEW k \in 1..Len(s), k # i  PROVE s[k] \in Elements(t)
  <2>1. CASE k < i
    BY <1>1, <2>1 DEF Elements
  <2>2. CASE k > i
    <3>1. k - 1 \in 1..(Len(s) - 1) /\ t[k - 1] = s[k]
      BY <1>1, <2>2
    <3> QED BY <1>1, <3>1 DEF Elements
  <2> QED BY <1>4, <2>1, <2>2
<1>5. NoRepeats(t)
  <2> SUFFICES ASSUME NEW a \in 1..Len(t), NEW b \in 1..Len(t), t[a] = t[b]
               PROVE  a = b
    BY DEF NoRepeats
  <2>1. \/ a < i /\ a \in 1..Len(s) /\ t[a] = s[a]
        \/ a >= i /\ a + 1 \in 1..Len(s) /\ t[a] = s[a + 1]
    BY <1>2
  <2>2. \/ b < i /\ b \in 1..Len(s) /\ t[b] = s[b]
        \/ b >= i /\ b + 1 \in 1..Len(s) /\ t[b] = s[b + 1]
    BY <1>2
  <2> QED BY <1>3, <2>1, <2>2
<1>6. Elements(t) = Elements(s) \ {s[i]}
  <2>1. ASSUME NEW k \in 1..Len(t)  PROVE t[k] \in Elements(s) \ {s[i]}
    <3>1. PICK l \in 1..Len(s) : l # i /\ t[k] = s[l]
      BY <1>2
    <3> QED BY <1>3, <3>1 DEF Elements
  <2>2. ASSUME NEW y \in Elements(s) \ {s[i]}  PROVE y \in Elements(t)
    <3>1. PICK k \in 1..Len(s) : y = s[k] /\ k # i
      BY DEF Elements
    <3> QED BY <1>4, <3>1
  <2>3. Elements(t) \subseteq Elements(s) \ {s[i]}
    BY <2>1 DEF Elements
  <2> QED BY <2>2, <2>3
<1> QED BY <1>5, <1>6 DEF t

(* A job appended to the delayed list is in it, and nothing else is new.    *)
LEMMA AppendElements ==
    ASSUME NEW S, NEW s \in Seq(S), NEW x \in S
    PROVE  /\ Elements(Append(s, x)) = Elements(s) \union {x}
           /\ NoRepeats(s) /\ x \notin Elements(s) => NoRepeats(Append(s, x))
<1> DEFINE t == Append(s, x)
<1>1. /\ Len(t) = Len(s) + 1
      /\ \A k \in 1..Len(s) : t[k] = s[k]
      /\ t[Len(s) + 1] = x
  OBVIOUS
<1> HIDE DEF t
<1>2. Elements(t) = Elements(s) \union {x}
  BY <1>1 DEF Elements
<1>3. NoRepeats(s) /\ x \notin Elements(s) => NoRepeats(t)
  BY <1>1 DEF Elements, NoRepeats
<1> QED BY <1>2, <1>3 DEF t

(* Dequeue takes the head of the pending list and leaves the rest.          *)
LEMMA TailElements ==
    ASSUME NEW S, NEW s \in Seq(S), s # <<>>, NoRepeats(s)
    PROVE  /\ Head(s) \in Elements(s)
           /\ Elements(Tail(s)) = Elements(s) \ {Head(s)}
           /\ NoRepeats(Tail(s))
<1> DEFINE t == Tail(s)
<1>1. /\ Len(s) >= 1
      /\ Head(s) = s[1]
      /\ Len(t) = Len(s) - 1
      /\ \A k \in 1..(Len(s) - 1) : t[k] = s[k + 1]
  OBVIOUS
<1> HIDE DEF t
<1>2. \A k \in 2..Len(s) : k - 1 \in 1..Len(t) /\ t[k - 1] = s[k]
  BY <1>1
<1>3. Elements(t) = Elements(s) \ {Head(s)}
  BY <1>1, <1>2 DEF Elements, NoRepeats
<1>4. NoRepeats(t)
  <2> SUFFICES ASSUME NEW a \in 1..Len(t), NEW b \in 1..Len(t), t[a] = t[b]
               PROVE  a = b
    BY DEF NoRepeats
  <2>1. /\ a + 1 \in 1..Len(s) /\ t[a] = s[a + 1]
        /\ b + 1 \in 1..Len(s) /\ t[b] = s[b + 1]
    BY <1>1
  <2>2. \A k, l \in 1..Len(s) : s[k] = s[l] => k = l
    BY DEF NoRepeats
  <2>3. a + 1 = b + 1
    BY <2>1, <2>2
  <2> QED BY <2>3
<1>5. Head(s) \in Elements(s)
  BY <1>1 DEF Elements
<1> QED BY <1>3, <1>4, <1>5 DEF t

-----------------------------------------------------------------------------
(* An insertion by priority, as Enqueue and MoveReady make it. *)
LEMMA InsertionEffect ==
    ASSUME TypeOK, NEW j \in Job, NEW prio, InsertByPriority(j, prio)
    PROVE  /\ pending' \in Seq(Job)
           /\ Elements(pending') = Elements(pending) \union {j}
           /\ NoRepeats(pending) /\ j \notin Elements(pending)
                 => NoRepeats(pending')
<1>1. PICK i \in 1..(Len(pending) + 1) :
             pending' = InsertBefore(pending, i, j)
  BY DEF InsertByPriority
<1>2. pending \in Seq(Job)
  BY DEF TypeOK
<1> QED BY <1>1, <1>2, InsertBeforeType, InsertBeforeElements

(* NewMemoryQueue makes lists of the right types.                           *)
LEMMA InitTypeOK == Init => TypeOK
<1> SUFFICES ASSUME Init  PROVE TypeOK
  OBVIOUS
<1>1. pending \in Seq(Job) /\ delayed \in Seq(Job)
  BY DEF Init
<1>2. /\ priority \in [Job -> Int] /\ attempts \in [Job -> Nat]
      /\ wait \in [Job -> Nat]
  BY DEF Init
<1>3. /\ inFlight = {} /\ accepted = {} /\ acked = {} /\ dropped = {}
      /\ \A j \in Job : attempts[j] = 0
      /\ stopped = FALSE /\ polling = FALSE
  BY DEF Init
<1> QED BY <1>1, <1>2, <1>3 DEF TypeOK

(* A back-off that wraps is none, any other is what the product gives.     *)
LEMMA BackoffType ==
    ASSUME NEW n \in 1..MaxAttempts
    PROVE  Backoff(n) \in Nat
<1> DEFINE raw == FirstBackoff * BackoffFactor ^ (n - 1)
           wrapped == raw % DurationRange
<1>1. BackoffFactor ^ (n - 1) \in Nat
  BY PowerAssumption
<1>2. raw \in Nat
  <2> SUFFICES \A k \in Nat : FirstBackoff * k \in Nat
    BY <1>1
  <2> QED BY MemoryQueueAssumption
<1> HIDE DEF raw
<1>3. wrapped \in Nat
  BY <1>2, MemoryQueueAssumption
<1> QED BY <1>3 DEF Backoff, raw

(* Every step keeps the types and the limit: an attempt is counted, and a  *)
(* back-off computed, only for numbers up to MaxAttempts.                  *)
LEMMA NextTypeOK == TypeOK /\ [Next]_vars => TypeOK'
<1> SUFFICES ASSUME TypeOK, [Next]_vars  PROVE TypeOK'
  OBVIOUS
<1> USE DEF TypeOK
<1>1. ASSUME NEW j \in Job, NEW p \in Priorities, NEW d \in Delays,
             Enqueue(j, p, d)
      PROVE  TypeOK'
  <2>1. priority' \in [Job -> Int] /\ wait' \in [Job -> Nat]
    BY <1>1, MemoryQueueAssumption DEF Enqueue
  <2>2. pending' \in Seq(Job) /\ delayed' \in Seq(Job)
    <3>1. CASE UNCHANGED pending /\ delayed' = Append(delayed, j)
      BY <3>1
    <3>2. CASE InsertByPriority(j, priority') /\ UNCHANGED delayed
      BY <3>2, InsertionEffect
    <3> QED BY <1>1, <3>1, <3>2 DEF Enqueue
  <2> QED BY <1>1, <2>1, <2>2 DEF Enqueue
<1>2. CASE DequeueLock
  BY <1>2 DEF DequeueLock
<1>3. CASE MoveReady
  <2>1. PICK i \in 1..Len(delayed) :
               /\ delayed' = WithoutIndex(delayed, i)
               /\ InsertByPriority(delayed[i], priority)
    BY <1>3 DEF MoveReady
  <2>2. delayed[i] \in Job
    BY <2>1
  <2>3. pending' \in Seq(Job) /\ delayed' \in Seq(Job)
    BY <2>1, <2>2, InsertionEffect, WithoutIndexType
  <2> QED BY <1>3, <2>3 DEF MoveReady
<1>4. CASE DequeueTake
  <2>1. Head(pending) \in Job /\ Tail(pending) \in Seq(Job)
    BY <1>4 DEF DequeueTake
  <2> QED BY <1>4, <2>1 DEF DequeueTake
<1>5. CASE DequeueEmpty
  BY <1>5 DEF DequeueEmpty
<1>6. ASSUME NEW j \in Job, Ack(j)  PROVE TypeOK'
  BY <1>6 DEF Ack
<1>7. ASSUME NEW j \in Job, NEW retry \in BOOLEAN, Nack(j, retry)
      PROVE  TypeOK'
  <2>1. CASE MayRetry(j, retry)
    <3>1. /\ attempts' = [attempts EXCEPT ![j] = @ + 1]
          /\ delayed' = Append(delayed, j)
          /\ wait' = [wait EXCEPT ![j] = Backoff(attempts'[j])]
          /\ UNCHANGED dropped
      BY <1>7, <2>1 DEF Nack
    <3>2. /\ attempts' \in [Job -> Nat] /\ attempts'[j] = attempts[j] + 1
          /\ \A k \in Job \ {j} : attempts'[k] = attempts[k]
      BY <3>1
    <3>3. attempts'[j] \in 1..MaxAttempts
      BY <2>1, <3>2, MemoryQueueAssumption DEF MayRetry, MaxAttempts
    <3>4. Backoff(attempts'[j]) \in Nat
      BY <3>3, BackoffType
    <3>5. wait' \in [Job -> Nat] /\ delayed' \in Seq(Job)
      BY <3>1, <3>4
    <3>6. \A k \in Job : attempts'[k] = 0 \/ attempts'[k] <= MaxAttempts
      <4>1. MaxAttempts \in Int
        BY MemoryQueueAssumption DEF MaxAttempts
      <4>2. attempts'[j] <= MaxAttempts
        BY <3>3, <4>1
      <4> QED BY <3>2, <4>2
    <3> QED BY <1>7, <3>1, <3>2, <3>5, <3>6 DEF Nack
  <2>2. CASE ~MayRetry(j, retry)
    BY <1>7, <2>2 DEF Nack
  <2> QED BY <2>1, <2>2
<1>8. CASE Close
  BY <1>8 DEF Close
<1>9. CASE Tick
  BY <1>9 DEF Tick
<1>10. CASE UNCHANGED vars
  BY <1>10 DEF vars
<1>11. ASSUME NEW j \in Job, Forget(j)  PROVE TypeOK'
  <2>1. attempts' = [attempts EXCEPT ![j] = 0]
    BY <1>11 DEF Forget
  <2>2. /\ attempts' \in [Job -> Nat]
        /\ \A k \in Job : attempts'[k] = 0 \/ attempts'[k] = attempts[k]
    BY <2>1
  <2>3. \A k \in Job : attempts'[k] = 0 \/ attempts'[k] <= MaxAttempts
    BY <2>2
  <2> QED BY <1>11, <2>2, <2>3 DEF Forget
<1> QED
  BY <1>1, <1>2, <1>3, <1>4, <1>5, <1>6, <1>7, <1>8, <1>9, <1>10, <1>11
  DEF Next

(* Type correctness of every behaviour of the queue. *)
THEOREM TypeCorrect == Spec => []TypeOK
  BY InitTypeOK, NextTypeOK, PTL DEF Spec

-----------------------------------------------------------------------------
(* A new queue holds no job at all.                                         *)
LEMMA InitOnePlace == Init => JobInOnePlace
  BY DEF Init, JobInOnePlace, NoRepeats, Elements

(* Every step keeps each accepted job in one place.  The invariant is      *)
(* inductive together with TypeOK: Enqueue accepts a job that is nowhere,  *)
(* and a job leaves a list, or inFlight, only for another place.           *)
LEMMA NextOnePlace ==
    TypeOK /\ JobInOnePlace /\ [Next]_vars => JobInOnePlace'
<1> SUFFICES ASSUME TypeOK, JobInOnePlace, [Next]_vars
             PROVE  JobInOnePlace'
  OBVIOUS
<1>0. /\ pending \in Seq(Job)
      /\ delayed \in Seq(Job)
  BY DEF TypeOK
<1>1. ASSUME NEW j \in Job, NEW p \in Priorities, NEW d \in Delays,
             Enqueue(j, p, d)
      PROVE  JobInOnePlace'
  <2>1. /\ j \notin accepted /\ accepted' = accepted \union {j}
        /\ UNCHANGED <<inFlight, acked, dropped>>
    BY <1>1 DEF Enqueue
  <2>2. CASE delayed' = Append(delayed, j) /\ UNCHANGED pending
    <3>1. /\ Elements(delayed') = Elements(delayed) \union {j}
          /\ NoRepeats(delayed) /\ j \notin Elements(delayed)
                => NoRepeats(delayed')
      BY <1>0, <2>2, AppendElements
    <3> QED BY <2>1, <2>2, <3>1 DEF JobInOnePlace
  <2>3. CASE InsertByPriority(j, priority') /\ UNCHANGED delayed
    BY <2>1, <2>3, InsertionEffect DEF JobInOnePlace
  <2> QED BY <1>1, <2>2, <2>3 DEF Enqueue
<1>2. CASE DequeueLock
  BY <1>2 DEF DequeueLock, JobInOnePlace
<1>3. CASE MoveReady
  <2>1. PICK i \in 1..Len(delayed) :
               /\ delayed' = WithoutIndex(delayed, i)
               /\ InsertByPriority(delayed[i], priority)
    BY <1>3 DEF MoveReady
  <2>2. /\ delayed[i] \in Job
        /\ delayed[i] \in Elements(delayed)
    BY <1>0, <2>1 DEF Elements
  <2>3. /\ Elements(delayed') = Elements(delayed) \ {delayed[i]}
        /\ NoRepeats(delayed')
    BY <1>0, <2>1, WithoutIndexElements DEF JobInOnePlace
  <2>4. /\ Elements(pending') = Elements(pending) \union {delayed[i]}
        /\ NoRepeats(pending) /\ delayed[i] \notin Elements(pending)
              => NoRepeats(pending')
    BY <2>1, <2>2, InsertionEffect
  <2>5. UNCHANGED <<inFlight, accepted, acked, dropped>>
    BY <1>3 DEF MoveReady
  <2> QED BY <2>2, <2>3, <2>4, <2>5 DEF JobInOnePlace
<1>4. CASE DequeueTake
  <2>1. /\ Head(pending) \in Elements(pending)
        /\ Elements(pending') = Elements(pending) \ {Head(pending)}
        /\ NoRepeats(pending')
    BY <1>0, <1>4, TailElements DEF DequeueTake, JobInOnePlace
  <2>2. /\ inFlight' = inFlight \union {Head(pending)}
        /\ UNCHANGED <<delayed, accepted, acked, dropped>>
    BY <1>4 DEF DequeueTake
  <2> QED BY <2>1, <2>2 DEF JobInOnePlace
<1>5. CASE DequeueEmpty
  BY <1>5 DEF DequeueEmpty, JobInOnePlace
<1>6. ASSUME NEW j \in Job, Ack(j)  PROVE JobInOnePlace'
  BY <1>6 DEF Ack, JobInOnePlace
<1>7. ASSUME NEW j \in Job, NEW retry \in BOOLEAN, Nack(j, retry)
      PROVE  JobInOnePlace'
  <2>1. /\ j \in inFlight
        /\ inFlight' = inFlight \ {j}
        /\ UNCHANGED <<pending, accepted, acked>>
    BY <1>7 DEF Nack
  <2>2. CASE MayRetry(j, retry)
    <3>1. delayed' = Append(delayed, j) /\ UNCHANGED dropped
      BY <1>7, <2>2 DEF Nack
    <3>2. /\ Elements(delayed') = Elements(delayed) \union {j}
          /\ NoRepeats(delayed) /\ j \notin Elements(delayed)
                => NoRepeats(delayed')
      BY <1>0, <3>1, AppendElements
    <3> QED BY <2>1, <3>1, <3>2 DEF JobInOnePlace
  <2>3. CASE ~MayRetry(j, retry)
    <3>1. dropped' = dropped \union {j} /\ UNCHANGED delayed
      BY <1>7, <2>3 DEF Nack
    <3> QED BY <2>1, <3>1 DEF JobInOnePlace
  <2> QED BY <2>2, <2>3
<1>8. CASE Close
  BY <1>8 DEF Close, JobInOnePlace
<1>9. CASE Tick
  BY <1>9 DEF Tick, JobInOnePlace
<1>10. CASE UNCHANGED vars
  BY <1>10 DEF vars, JobInOnePlace
<1>11. ASSUME NEW j \in Job, Forget(j)  PROVE JobInOnePlace'
  BY <1>11 DEF Forget, JobInOnePlace
<1> QED
  BY <1>1, <1>2, <1>3, <1>4, <1>5, <1>6, <1>7, <1>8, <1>9, <1>10, <1>11
  DEF Next

(* No job is lost inside the queue or handed out twice: every accepted job *)
(* is in exactly one place.                                                *)
THEOREM OnePlace == Spec => []JobInOnePlace
<1>1. TypeOK /\ JobInOnePlace /\ [Next]_vars => (TypeOK /\ JobInOnePlace)'
  BY NextTypeOK, NextOnePlace
<1> QED BY <1>1, InitTypeOK, InitOnePlace, PTL DEF Spec

-----------------------------------------------------------------------------
(* A list in which no job is followed by a more urgent one. *)
Ordered(s, prio) ==
    \A i, k \in 1..Len(s) : i < k => prio[s[k]] <= prio[s[i]]

(* The loop of insertByPriority finds the place that keeps the order. *)
LEMMA InsertionKeepsOrder ==
    ASSUME NEW s \in Seq(Job), NEW prio \in [Job -> Int], Ordered(s, prio),
           NEW j \in Job, NEW i \in 1..(Len(s) + 1),
           InsertionPoint(s, prio, prio[j], i)
    PROVE  Ordered(InsertBefore(s, i, j), prio)
<1> DEFINE t == InsertBefore(s, i, j)
<1>1. /\ Len(t) = Len(s) + 1
      /\ \A k \in 1..(Len(s) + 1) :
            t[k] = IF k < i THEN s[k] ELSE IF k = i THEN j ELSE s[k - 1]
  BY InsertBeforeType
<1> HIDE DEF t
<1>2. \A k \in 1..Len(s) : s[k] \in Job /\ prio[s[k]] \in Int
  OBVIOUS
<1>3. \A k \in 1..(i - 1) : prio[j] <= prio[s[k]]
  BY <1>2 DEF InsertionPoint
<1>4. \A k \in i..Len(s) : prio[s[k]] < prio[j]
  <2> SUFFICES ASSUME NEW k \in i..Len(s)  PROVE prio[s[k]] < prio[j]
    OBVIOUS
  <2>1. prio[s[i]] < prio[j]
    BY DEF InsertionPoint
  <2>2. prio[s[k]] <= prio[s[i]]
    BY <1>2 DEF Ordered
  <2> QED BY <1>2, <2>1, <2>2
<1>5. ASSUME NEW a \in 1..Len(t), NEW b \in 1..Len(t), a < b
      PROVE  prio[t[b]] <= prio[t[a]]
  <2>1. CASE b < i
    <3>1. t[a] = s[a] /\ t[b] = s[b] /\ a \in 1..Len(s) /\ b \in 1..Len(s)
      BY <1>1, <1>5, <2>1
    <3> QED BY <1>5, <3>1 DEF Ordered
  <2>2. CASE b = i
    <3>1. t[b] = j /\ t[a] = s[a] /\ a \in 1..(i - 1)
      BY <1>1, <1>5, <2>2
    <3> QED BY <1>3, <3>1
  <2>3. CASE b > i /\ a = i
    <3>1. t[a] = j /\ t[b] = s[b - 1] /\ b - 1 \in i..Len(s)
      BY <1>1, <2>3
    <3>2. prio[s[b - 1]] < prio[j] /\ prio[s[b - 1]] \in Int
      BY <1>2, <1>4, <3>1
    <3> QED BY <3>1, <3>2
  <2>4. CASE b > i /\ a < i
    <3>1. t[a] = s[a] /\ t[b] = s[b - 1] /\ a \in 1..Len(s)
          /\ b - 1 \in 1..Len(s) /\ (a < b - 1 \/ a = b - 1)
      BY <1>1, <1>5, <2>4
    <3> QED BY <1>2, <3>1 DEF Ordered
  <2>5. CASE b > i /\ a > i
    <3>1. t[a] = s[a - 1] /\ t[b] = s[b - 1] /\ a - 1 \in 1..Len(s)
          /\ b - 1 \in 1..Len(s) /\ a - 1 < b - 1
      BY <1>1, <1>5, <2>5
    <3> QED BY <3>1 DEF Ordered
  <2> QED BY <2>1, <2>2, <2>3, <2>4, <2>5
<1> QED BY <1>5 DEF t, Ordered

(* The empty pending list is ordered.                                       *)
LEMMA InitUrgency == Init => UrgencyOrder
  BY DEF Init, UrgencyOrder

(* Every step keeps the pending list ordered: an insertion stops before    *)
(* the first less urgent job, and a job's priority is set while it is in   *)
(* no list.                                                                *)
LEMMA NextUrgency ==
    TypeOK /\ JobInOnePlace /\ UrgencyOrder /\ [Next]_vars => UrgencyOrder'
<1> SUFFICES ASSUME TypeOK, JobInOnePlace, UrgencyOrder, [Next]_vars
             PROVE  UrgencyOrder'
  OBVIOUS
<1>0. /\ pending \in Seq(Job) /\ delayed \in Seq(Job)
      /\ priority \in [Job -> Int] /\ Ordered(pending, priority)
  BY DEF TypeOK, UrgencyOrder, Ordered
<1>1. ASSUME NEW j \in Job, NEW p \in Priorities, NEW d \in Delays,
             Enqueue(j, p, d)
      PROVE  UrgencyOrder'
  <2>1. priority' = [priority EXCEPT ![j] = p] /\ j \notin Elements(pending)
    BY <1>1 DEF Enqueue, JobInOnePlace
  <2>2. priority' \in [Job -> Int]
    BY <1>0, <2>1, MemoryQueueAssumption
  <2>3. \A k \in 1..Len(pending) :
            pending[k] \in Job /\ priority'[pending[k]] = priority[pending[k]]
    BY <1>0, <2>1 DEF Elements
  <2>4. Ordered(pending, priority')
    BY <1>0, <2>3 DEF Ordered
  <2>5. CASE UNCHANGED pending
    BY <2>4, <2>5 DEF UrgencyOrder, Ordered
  <2>6. CASE InsertByPriority(j, priority')
    <3>1. Ordered(pending', priority')
      BY <1>0, <2>2, <2>4, <2>6, InsertionKeepsOrder DEF InsertByPriority
    <3> QED BY <3>1 DEF UrgencyOrder, Ordered
  <2> QED BY <1>1, <2>5, <2>6 DEF Enqueue
<1>2. CASE MoveReady
  <2>1. PICK i \in 1..Len(delayed) : InsertByPriority(delayed[i], priority)
    BY <1>2 DEF MoveReady
  <2>2. delayed[i] \in Job
    BY <1>0, <2>1
  <2>3. Ordered(pending', priority)
    BY <1>0, <2>1, <2>2, InsertionKeepsOrder DEF InsertByPriority
  <2> QED BY <1>2, <2>3 DEF MoveReady, UrgencyOrder, Ordered
<1>3. CASE DequeueTake
  <2>1. /\ pending' = Tail(pending)
        /\ pending # <<>>
        /\ priority' = priority
    BY <1>3 DEF DequeueTake
  <2>2. /\ Len(pending') = Len(pending) - 1
        /\ \A k \in 1..Len(pending') :
              k + 1 \in 1..Len(pending) /\ pending'[k] = pending[k + 1]
    BY <1>0, <2>1
  <2> SUFFICES ASSUME NEW a \in 1..Len(pending'), NEW b \in 1..Len(pending'),
                      a < b
               PROVE  priority'[pending'[b]] <= priority'[pending'[a]]
    BY DEF UrgencyOrder
  <2>3. a + 1 < b + 1
    OBVIOUS
  <2> QED BY <1>0, <2>1, <2>2, <2>3 DEF Ordered
<1>4. CASE UNCHANGED <<pending, priority>>
  BY <1>4 DEF UrgencyOrder
<1> QED
  BY <1>1, <1>2, <1>3, <1>4
  DEF Next, vars, DequeueLock, DequeueEmpty, Ack, Nack, Close, Forget, Tick

(* Dequeue's head of the list is a most urgent job, always. *)
THEOREM Urgency == Spec => []UrgencyOrder
<1>1. TypeOK /\ JobInOnePlace /\ UrgencyOrder /\ [Next]_vars
        => (TypeOK /\ JobInOnePlace /\ UrgencyOrder)'
  BY NextTypeOK, NextOnePlace, NextUrgency
<1> QED BY <1>1, InitTypeOK, InitOnePlace, InitUrgency, PTL DEF Spec

-----------------------------------------------------------------------------
(* An insertion changes nobody's order.                                    *)
LEMMA InsertionKeepsAhead ==
    ASSUME NEW s \in Seq(Job), NEW x \in Job, NEW i \in 1..(Len(s) + 1),
           NEW j, NEW k, Ahead(s, j, k)
    PROVE  Ahead(InsertBefore(s, i, x), j, k)
<1> DEFINE t == InsertBefore(s, i, x)
           Q(c) == IF c < i THEN c ELSE c + 1
<1>1. /\ Len(t) = Len(s) + 1
      /\ \A c \in 1..(Len(s) + 1) :
            t[c] = IF c < i THEN s[c] ELSE IF c = i THEN x ELSE s[c - 1]
  BY InsertBeforeType
<1> HIDE DEF t
<1>2. PICK a \in 1..Len(s), b \in 1..Len(s) : a < b /\ s[a] = j /\ s[b] = k
  BY DEF Ahead
<1>3. ASSUME NEW c \in 1..Len(s)  PROVE Q(c) \in 1..Len(t) /\ t[Q(c)] = s[c]
  BY <1>1
<1>4. Q(a) < Q(b)
  BY <1>2
<1>5. Q(a) \in 1..Len(t) /\ Q(b) \in 1..Len(t) /\ t[Q(a)] = j /\ t[Q(b)] = k
  BY <1>2, <1>3
<1>6. Ahead(t, j, k)
  <2> HIDE DEF Q
  <2> QED BY <1>4, <1>5 DEF Ahead
<1> QED BY <1>6 DEF t

(* The inserted job queues behind all of its priority.                     *)
LEMMA InsertedIsBehindEquals ==
    ASSUME NEW s \in Seq(Job), NEW prio \in [Job -> Int], Ordered(s, prio),
           NEW x \in Job, NEW i \in 1..(Len(s) + 1),
           InsertionPoint(s, prio, prio[x], i),
           NEW j \in Elements(s), prio[j] = prio[x]
    PROVE  Ahead(InsertBefore(s, i, x), j, x)
<1> DEFINE t == InsertBefore(s, i, x)
<1>1. /\ Len(t) = Len(s) + 1
      /\ \A c \in 1..(Len(s) + 1) :
            t[c] = IF c < i THEN s[c] ELSE IF c = i THEN x ELSE s[c - 1]
  BY InsertBeforeType
<1> HIDE DEF t
<1>2. PICK a \in 1..Len(s) : s[a] = j
  BY DEF Elements
<1>3. a < i
  <2> SUFFICES ASSUME i <= a  PROVE FALSE
    OBVIOUS
  <2>1. i \in 1..Len(s) /\ prio[s[i]] < prio[x]
    BY DEF InsertionPoint
  <2>2. prio[s[a]] <= prio[s[i]]
    BY <2>1 DEF Ordered
  <2>3. prio[s[i]] \in Int /\ prio[x] \in Int
    BY <2>1
  <2> QED BY <1>2, <2>1, <2>2, <2>3
<1>4. /\ a \in 1..Len(t) /\ i \in 1..Len(t)
      /\ t[a] = j /\ t[i] = x
  BY <1>1, <1>2, <1>3
<1> QED BY <1>3, <1>4 DEF Ahead, t

(* What is left of a list keeps its order when its head is taken.          *)
LEMMA TailKeepsAhead ==
    ASSUME NEW s \in Seq(Job), s # <<>>, NoRepeats(s),
           NEW j \in Elements(Tail(s)), NEW k, Ahead(s, j, k)
    PROVE  Ahead(Tail(s), j, k)
<1> DEFINE t == Tail(s)
<1>1. /\ Len(t) = Len(s) - 1
      /\ \A c \in 1..(Len(s) - 1) : t[c] = s[c + 1]
  OBVIOUS
<1> HIDE DEF t
<1>2. PICK a \in 1..Len(s), b \in 1..Len(s) : a < b /\ s[a] = j /\ s[b] = k
  BY DEF Ahead
<1>3. PICK c \in 1..Len(t) : t[c] = j
  BY DEF Elements, t
<1>4. a = c + 1
  BY <1>1, <1>2, <1>3 DEF NoRepeats
<1>5. /\ a - 1 \in 1..Len(t) /\ b - 1 \in 1..Len(t) /\ a - 1 < b - 1
      /\ t[a - 1] = j /\ t[b - 1] = k
  BY <1>1, <1>2, <1>3, <1>4
<1> QED BY <1>5 DEF Ahead, t

(* What Enqueue and moveDelayedJobs do to the order of the list. *)
LEMMA InsertionOvertakesNone ==
    ASSUME TypeOK, NEW x \in Job, NEW prio \in [Job -> Int], Ordered(pending, prio),
           InsertByPriority(x, prio), priority' = prio
    PROVE  NoOvertakingStep
<1>1. PICK i \in 1..(Len(pending) + 1) :
        /\ InsertionPoint(pending, prio, prio[x], i)
        /\ pending' = InsertBefore(pending, i, x)
  BY DEF InsertByPriority
<1>2. pending \in Seq(Job)
  BY DEF TypeOK
<1>3. Elements(pending') = Elements(pending) \union {x}
  BY <1>1, <1>2, InsertBeforeElements
<1>4. \A j, k \in Elements(pending) : Ahead(pending, j, k) => Ahead(pending', j, k)
  BY <1>1, <1>2, InsertionKeepsAhead
<1>5. \A j \in Elements(pending) : prio[j] = prio[x] => Ahead(pending', j, x)
  BY <1>1, <1>2, InsertedIsBehindEquals
<1> QED BY <1>3, <1>4, <1>5 DEF NoOvertakingStep

LEMMA StepOvertakesNone ==
    ASSUME TypeOK, JobInOnePlace, UrgencyOrder, Next
    PROVE  NoOvertakingStep
<1>0. /\ pending \in Seq(Job) /\ delayed \in Seq(Job)
      /\ priority \in [Job -> Int] /\ Ordered(pending, priority)
  BY DEF TypeOK, UrgencyOrder, Ordered
<1>1. ASSUME UNCHANGED pending  PROVE NoOvertakingStep
  <2>1. pending' = pending
    BY <1>1
  <2> QED BY <2>1 DEF NoOvertakingStep
<1>2. ASSUME NEW j \in Job, NEW p \in Priorities, NEW d \in Delays,
             Enqueue(j, p, d)
      PROVE  NoOvertakingStep
  <2>1. priority' = [priority EXCEPT ![j] = p] /\ j \notin Elements(pending)
    BY <1>2 DEF Enqueue, JobInOnePlace
  <2>2. priority' \in [Job -> Int]
    BY <1>0, <2>1, MemoryQueueAssumption
  <2>3. \A k \in 1..Len(pending) :
            pending[k] \in Job /\ priority'[pending[k]] = priority[pending[k]]
    BY <1>0, <2>1 DEF Elements
  <2>4. Ordered(pending, priority')
    BY <1>0, <2>3 DEF Ordered
  <2>5. CASE InsertByPriority(j, priority')
    BY <2>2, <2>4, <2>5, InsertionOvertakesNone
  <2> QED BY <1>1, <1>2, <2>5 DEF Enqueue
<1>3. CASE MoveReady
  <2>1. PICK i \in 1..Len(delayed) : InsertByPriority(delayed[i], priority)
    BY <1>3 DEF MoveReady
  <2>2. delayed[i] \in Job /\ priority' = priority
    BY <1>0, <1>3, <2>1 DEF MoveReady
  <2> QED BY <1>0, <2>1, <2>2, InsertionOvertakesNone
<1>4. CASE DequeueTake
  <2>1. pending' = Tail(pending) /\ pending # <<>> /\ NoRepeats(pending)
    BY <1>4 DEF DequeueTake, JobInOnePlace
  <2>2. Elements(pending') \subseteq Elements(pending)
    BY <1>0, <2>1, TailElements
  <2>3. \A j, k \in Elements(pending) :
           Ahead(pending, j, k) /\ j \in Elements(pending') => Ahead(pending', j, k)
    BY <1>0, <2>1, TailKeepsAhead
  <2> QED BY <2>2, <2>3 DEF NoOvertakingStep
<1> QED
  BY <1>1, <1>2, <1>3, <1>4
  DEF Next, DequeueLock, DequeueEmpty, Ack, Nack, Close, Forget, Tick

(* A pending job leaves before those that stand behind it, and one that    *)
(* enters queues behind all of its priority, however calls interleave.     *)
THEOREM Overtaking == Spec => NoOvertaking
<1>1. Init => TypeOK /\ JobInOnePlace /\ UrgencyOrder
  BY InitTypeOK, InitOnePlace, InitUrgency
<1>2. TypeOK /\ JobInOnePlace /\ UrgencyOrder /\ [Next]_vars
        => (TypeOK /\ JobInOnePlace /\ UrgencyOrder)'
  BY NextTypeOK, NextOnePlace, NextUrgency
<1>3. TypeOK /\ JobInOnePlace /\ UrgencyOrder /\ [Next]_vars => [NoOvertakingStep]_vars
  BY StepOvertakesNone
<1> QED BY <1>1, <1>2, <1>3, PTL DEF Spec, NoOvertaking

-----------------------------------------------------------------------------
(* No poll is on when the queue is made.                                    *)
LEMMA InitPollOpen == Init => PollOnOpenQueue
  BY DEF Init, PollOnOpenQueue

(* Close and Dequeue exclude each other by the mutex: a queue is not        *)
(* stopped while a poll looks at its lists.                                 *)
LEMMA NextPollOpen == PollOnOpenQueue /\ [Next]_vars => PollOnOpenQueue'
  BY DEF PollOnOpenQueue, Next, vars, Enqueue, DequeueLock, MoveReady,
         DequeueTake, DequeueEmpty, Ack, Nack, Close, Forget, Tick

(* The inductive invariant of the refinement. *)
QueueInv ==
    /\ TypeOK
    /\ JobInOnePlace
    /\ UrgencyOrder
    /\ PollOnOpenQueue

(* What the refinement needs of every reachable state of the queue.         *)
LEMMA InvariantHolds == Spec => []QueueInv
<1>1. Init => QueueInv
  BY InitTypeOK, InitOnePlace, InitUrgency, InitPollOpen DEF QueueInv
<1>2. QueueInv /\ [Next]_vars => QueueInv'
  BY NextTypeOK, NextOnePlace, NextUrgency, NextPollOpen DEF QueueInv
<1> QED BY <1>1, <1>2, PTL DEF Spec

-----------------------------------------------------------------------------
(* Moving one job changes its place and no other's. *)
LEMMA PlaceChange ==
    ASSUME NEW j \in Job, NEW there,
           PlaceOf'[j] = there,
           \A k \in Job \ {j} : PlaceOf'[k] = PlaceOf[k]
    PROVE  PlaceOf' = [PlaceOf EXCEPT ![j] = there]
  BY DEF PlaceOf

(* A pending job is an element of the pending list. *)
LEMMA PendingPlace ==
    ASSUME NEW k \in Job, PlaceOf[k] = "pending"
    PROVE  k \in Elements(pending)
  BY DEF PlaceOf, PlaceAmong

(* An accepted job went into one of the two lists. *)
LEMMA EnqueueRefines ==
    ASSUME QueueInv, NEW j \in Job, NEW p \in Priorities, NEW d \in Delays,
           Enqueue(j, p, d)
    PROVE  \E where \in {"pending", "delayed"} : Abstract!Enqueue(j, p, where)
<1>1. /\ ~stopped
      /\ j \notin accepted
      /\ priority' = [priority EXCEPT ![j] = p]
      /\ UNCHANGED <<inFlight, stopped, attempts, acked, dropped>>
  BY DEF Enqueue
<1>6. j \notin Elements(pending) \union Elements(delayed) \union inFlight
               \union acked \union dropped
  BY <1>1 DEF QueueInv, JobInOnePlace
<1>2. PlaceOf[j] = "none"
  BY <1>6 DEF PlaceOf, PlaceAmong
<1>3. pending \in Seq(Job) /\ delayed \in Seq(Job)
  BY DEF QueueInv, TypeOK
<1>4. CASE delayed' = Append(delayed, j) /\ UNCHANGED pending
  <2>1. Elements(delayed') = Elements(delayed) \union {j}
    BY <1>3, <1>4, AppendElements
  <2>2. PlaceOf'[j] = "delayed"
    BY <1>1, <1>4, <1>6, <2>1 DEF PlaceOf, PlaceAmong
  <2>3. \A k \in Job \ {j} : PlaceOf'[k] = PlaceOf[k]
    BY <1>1, <1>4, <2>1 DEF PlaceOf, PlaceAmong
  <2>4. Abstract!Enqueue(j, p, "delayed")
    BY <1>1, <1>2, <2>2, <2>3, PlaceChange DEF Abstract!Enqueue
  <2> QED BY <2>4
<1>5. CASE InsertByPriority(j, priority') /\ UNCHANGED delayed
  <2>1. Elements(pending') = Elements(pending) \union {j}
    BY <1>5, InsertionEffect DEF QueueInv
  <2>2. PlaceOf'[j] = "pending"
    BY <1>1, <1>5, <1>6, <2>1 DEF PlaceOf, PlaceAmong
  <2>3. \A k \in Job \ {j} : PlaceOf'[k] = PlaceOf[k]
    BY <1>1, <1>5, <2>1 DEF PlaceOf, PlaceAmong
  <2>4. Abstract!Enqueue(j, p, "pending")
    BY <1>1, <1>2, <2>2, <2>3, PlaceChange DEF Abstract!Enqueue
  <2> QED BY <2>4
<1> QED BY <1>4, <1>5 DEF Enqueue

(* One turn of moveDelayedJobs lets one delayed job ripen. *)
LEMMA MoveRefines ==
    ASSUME QueueInv, MoveReady
    PROVE  \E j \in Job : Abstract!Ripen(j)
<1>1. PICK i \in 1..Len(delayed) :
             /\ delayed' = WithoutIndex(delayed, i)
             /\ InsertByPriority(delayed[i], priority)
  BY DEF MoveReady
<1> DEFINE j == delayed[i]
<1>2. /\ pending \in Seq(Job) /\ delayed \in Seq(Job)
      /\ NoRepeats(delayed)
  BY DEF QueueInv, TypeOK, JobInOnePlace
<1>3. j \in Job /\ j \in Elements(delayed)
  BY <1>2 DEF Elements
<1>4. Elements(delayed') = Elements(delayed) \ {j}
  BY <1>1, <1>2, WithoutIndexElements
<1>5. Elements(pending') = Elements(pending) \union {j}
  BY <1>1, <1>3, InsertionEffect DEF QueueInv
<1>6. /\ ~stopped
      /\ UNCHANGED <<inFlight, acked, dropped, priority, attempts, stopped>>
  BY DEF MoveReady, QueueInv, PollOnOpenQueue
<1> HIDE DEF j
<1>7. j \notin Elements(pending) \union inFlight \union acked \union dropped
  BY <1>3 DEF QueueInv, JobInOnePlace
<1>8. PlaceOf[j] = "delayed" /\ PlaceOf'[j] = "pending"
  BY <1>3, <1>4, <1>5, <1>6, <1>7 DEF PlaceOf, PlaceAmong
<1>9. \A k \in Job \ {j} : PlaceOf'[k] = PlaceOf[k]
  BY <1>4, <1>5, <1>6 DEF PlaceOf, PlaceAmong
<1>10. Abstract!Ripen(j)
  BY <1>3, <1>6, <1>8, <1>9, PlaceChange DEF Abstract!Ripen
<1> QED BY <1>3, <1>10

(* The head of the ordered list is a most urgent pending job. *)
LEMMA TakeRefines ==
    ASSUME QueueInv, DequeueTake
    PROVE  \E j \in Job : Abstract!Dequeue(j)
<1> DEFINE j == Head(pending)
<1>1. /\ pending \in Seq(Job) /\ pending # <<>> /\ NoRepeats(pending)
  BY DEF QueueInv, TypeOK, JobInOnePlace, DequeueTake
<1>2. /\ j \in Job /\ j \in Elements(pending) /\ j = pending[1]
      /\ Elements(pending') = Elements(pending) \ {j}
  BY <1>1, TailElements DEF DequeueTake
<1>3. /\ ~stopped
      /\ inFlight' = inFlight \union {j}
      /\ UNCHANGED <<delayed, acked, dropped, priority, attempts, stopped>>
  BY DEF DequeueTake, QueueInv, PollOnOpenQueue
<1>4. ASSUME NEW k \in Job, PlaceOf[k] = "pending"
      PROVE  priority[k] <= priority[j]
  <2>1. PICK a \in 1..Len(pending) : k = pending[a]
    BY <1>4, PendingPlace DEF Elements
  <2>2. priority[k] \in Int
    BY DEF QueueInv, TypeOK
  <2>3. CASE a = 1
    BY <1>2, <2>1, <2>2, <2>3
  <2>4. CASE 1 < a
    <3>1. 1 \in 1..Len(pending)
      BY <2>1
    <3> QED BY <1>2, <2>1, <2>4, <3>1 DEF QueueInv, UrgencyOrder
  <2> QED BY <2>3, <2>4
<1> HIDE DEF j
<1>5. j \notin inFlight \union acked \union dropped \union Elements(delayed)
  BY <1>2 DEF QueueInv, JobInOnePlace
<1>6. PlaceOf[j] = "pending" /\ PlaceOf'[j] = "inFlight"
  BY <1>2, <1>3, <1>5 DEF PlaceOf, PlaceAmong
<1>7. \A k \in Job \ {j} : PlaceOf'[k] = PlaceOf[k]
  BY <1>2, <1>3 DEF PlaceOf, PlaceAmong
<1>8. Abstract!Dequeue(j)
  BY <1>2, <1>3, <1>4, <1>6, <1>7, PlaceChange
  DEF Abstract!Dequeue, Abstract!MostUrgent
<1> QED BY <1>2, <1>8

(* Ack deletes the job from inFlight, which is the abstract Ack.            *)
LEMMA AckRefines ==
    ASSUME QueueInv, NEW j \in Job, Ack(j)
    PROVE  Abstract!Ack(j)
<1>1. /\ j \in inFlight
      /\ inFlight' = inFlight \ {j}
      /\ acked' = acked \union {j}
      /\ UNCHANGED <<pending, delayed, dropped, priority, attempts, stopped>>
  BY DEF Ack
<1>2. j \notin Elements(pending) \union Elements(delayed) \union acked
               \union dropped
  BY <1>1 DEF QueueInv, JobInOnePlace
<1>3. PlaceOf[j] = "inFlight" /\ PlaceOf'[j] = "acked"
  BY <1>1, <1>2 DEF PlaceOf, PlaceAmong
<1>4. \A k \in Job \ {j} : PlaceOf'[k] = PlaceOf[k]
  BY <1>1 DEF PlaceOf, PlaceAmong
<1> QED BY <1>1, <1>3, <1>4, PlaceChange DEF Abstract!Ack

(* Nack drops the job or appends it to the delayed list, which is the       *)
(* abstract Nack.                                                           *)
LEMMA NackRefines ==
    ASSUME QueueInv, NEW j \in Job, NEW retry \in BOOLEAN, Nack(j, retry)
    PROVE  Abstract!Nack(j, retry)
<1>1. /\ j \in inFlight
      /\ inFlight' = inFlight \ {j}
      /\ UNCHANGED <<pending, acked, priority, stopped>>
  BY DEF Nack
<1>2. j \notin Elements(pending) \union Elements(delayed) \union acked
               \union dropped
  BY <1>1 DEF QueueInv, JobInOnePlace
<1>3. PlaceOf[j] = "inFlight"
  BY <1>1, <1>2 DEF PlaceOf, PlaceAmong
<1>4. Abstract!MayRetry(j, retry) <=> MayRetry(j, retry)
  BY DEF Abstract!MayRetry, MayRetry, Abstract!MaxAttempts, MaxAttempts
<1>5. CASE MayRetry(j, retry)
  <2>1. /\ attempts' = [attempts EXCEPT ![j] = @ + 1]
        /\ delayed' = Append(delayed, j)
        /\ UNCHANGED dropped
    BY <1>5 DEF Nack
  <2>2. Elements(delayed') = Elements(delayed) \union {j}
    BY <2>1, AppendElements DEF QueueInv, TypeOK
  <2>3. PlaceOf'[j] = "delayed"
    BY <1>1, <1>2, <2>1, <2>2 DEF PlaceOf, PlaceAmong
  <2>4. \A k \in Job \ {j} : PlaceOf'[k] = PlaceOf[k]
    BY <1>1, <2>1, <2>2 DEF PlaceOf, PlaceAmong
  <2> QED BY <1>1, <1>3, <1>4, <1>5, <2>1, <2>3, <2>4, PlaceChange
          DEF Abstract!Nack
<1>6. CASE ~MayRetry(j, retry)
  <2>1. /\ dropped' = dropped \union {j}
        /\ UNCHANGED <<attempts, delayed>>
    BY <1>6 DEF Nack
  <2>2. PlaceOf'[j] = "dropped"
    BY <1>1, <1>2, <2>1 DEF PlaceOf, PlaceAmong
  <2>3. \A k \in Job \ {j} : PlaceOf'[k] = PlaceOf[k]
    BY <1>1, <2>1 DEF PlaceOf, PlaceAmong
  <2> QED BY <1>1, <1>3, <1>4, <1>6, <2>1, <2>2, <2>3, PlaceChange
          DEF Abstract!Nack
<1> QED BY <1>5, <1>6

(* The name of a settled job is free in both. *)
LEMMA ForgetRefines ==
    ASSUME QueueInv, NEW j \in Job, Forget(j)
    PROVE  Abstract!Forget(j)
<1>1. /\ j \in acked \union dropped
      /\ acked' = acked \ {j}
      /\ dropped' = dropped \ {j}
      /\ attempts' = [attempts EXCEPT ![j] = 0]
      /\ UNCHANGED <<pending, delayed, inFlight, priority, stopped>>
  BY DEF Forget
<1>2. j \notin Elements(pending) \union Elements(delayed) \union inFlight
  BY <1>1 DEF QueueInv, JobInOnePlace
<1>3. PlaceOf[j] \in {"acked", "dropped"} /\ PlaceOf'[j] = "none"
  BY <1>1, <1>2 DEF PlaceOf, PlaceAmong
<1>4. \A k \in Job \ {j} : PlaceOf'[k] = PlaceOf[k]
  BY <1>1 DEF PlaceOf, PlaceAmong
<1> QED BY <1>1, <1>3, <1>4, PlaceChange DEF Abstract!Forget, Abstract!Settled

(* Every step of the queue is one abstract operation or none of them. *)
LEMMA StepRefines ==
    QueueInv /\ [Next]_vars => [Abstract!JobQueueNext]_(Abstract!qvars)
<1> SUFFICES ASSUME QueueInv, [Next]_vars
             PROVE  Abstract!JobQueueNext \/ UNCHANGED Abstract!qvars
  OBVIOUS
<1>1. ASSUME NEW j \in Job, NEW p \in Priorities, NEW d \in Delays,
             Enqueue(j, p, d)
      PROVE  Abstract!JobQueueNext
  BY <1>1, EnqueueRefines DEF Abstract!JobQueueNext
<1>2. CASE MoveReady
  BY <1>2, MoveRefines DEF Abstract!JobQueueNext
<1>3. CASE DequeueTake
  BY <1>3, TakeRefines DEF Abstract!JobQueueNext
<1>4. ASSUME NEW j \in Job, Ack(j)  PROVE Abstract!JobQueueNext
  BY <1>4, AckRefines DEF Abstract!JobQueueNext
<1>5. ASSUME NEW j \in Job, NEW retry \in BOOLEAN, Nack(j, retry)
      PROVE  Abstract!JobQueueNext
  BY <1>5, NackRefines DEF Abstract!JobQueueNext
<1>6. CASE Close
  <2>1. Abstract!Close
    BY <1>6 DEF Close, Abstract!Close, PlaceOf
  <2> QED BY <2>1 DEF Abstract!JobQueueNext
<1>7. CASE UNCHANGED <<pending, delayed, inFlight, stopped, priority, attempts,
                       acked, dropped>>
  BY <1>7 DEF Abstract!qvars, PlaceOf
<1>8. ASSUME NEW j \in Job, Forget(j)  PROVE Abstract!JobQueueNext
  BY <1>8, ForgetRefines DEF Abstract!JobQueueNext
<1> QED
  BY <1>1, <1>2, <1>3, <1>4, <1>5, <1>6, <1>7, <1>8
  DEF Next, vars, DequeueLock, DequeueEmpty, Tick

(* The in-memory queue implements the promise of the Queue interface. *)
THEOREM Refinement == Spec => ImplementsJobQueue
<1>1. Init => Abstract!JobQueueInit
  BY DEF Init, Abstract!JobQueueInit, PlaceOf, PlaceAmong, Elements
<1> QED
  BY <1>1, InvariantHolds, StepRefines, PTL
  DEF Spec, ImplementsJobQueue, Abstract!JobQueueSpec
=============================================================================
