--------------------------- MODULE DeliveryProofs ---------------------------
(***************************************************************************)
(* What Delivery.tla's runs check on two workers, two channels and two     *)
(* reviews, proved for any of them.                                        *)
(***************************************************************************)
EXTENDS Delivery, TLAPS

(* Review r is in the hands of run w on channel c. *)
Carries(w, c, r) == run[w].channel = c /\ run[w].review = r

(* The tables' types, and the runs' types by how far they are: only a run   *)
(* that has picked a review carries one.                                    *)
Idle == {NoRun}
Loaded ==
    [at : {"loaded"}, channel : Channels, review : {None}]
Carrying ==
    [at : {"picked", "sent"}, channel : Channels, review : Reviews]

TypeInv ==
    /\ stored \subseteq Reviews
    /\ sent \in [Channels -> SUBSET Reviews]
    /\ run \in [NotificationWorkers -> Idle \union Loaded \union Carrying]
    /\ received \in [Channels -> [Reviews -> 0..2]]
    /\ refused \subseteq Reviews
    /\ blamed \in [Channels -> SUBSET Reviews]

(* Two runs that carry one review on one channel were noticed. *)
SharedIsBlamed ==
    \A v, w \in NotificationWorkers, c \in Channels, r \in Reviews :
        v # w /\ Carries(v, c, r) /\ Carries(w, c, r) => r \in blamed[c]

(* A picked review was not listed, and without a reason it is not yet.      *)
PickedIsUnsent ==
    \A w \in NotificationWorkers, c \in Channels, r \in Reviews :
        Carries(w, c, r) /\ run[w].at = "picked" /\ r \in sent[c]
            => r \in blamed[c]

(* A run is behind its call only if the call arrived. *)
SentHasArrived ==
    \A w \in NotificationWorkers, c \in Channels, r \in Reviews :
        Carries(w, c, r) /\ run[w].at = "sent" => received[c][r] > 0

(* What arrived is listed, or about to be, or there was a reason. *)
ArrivedIsKnown ==
    \A c \in Channels, r \in Reviews :
        received[c][r] > 0 =>
            \/ r \in sent[c]
            \/ r \in blamed[c]
            \/ \E w \in NotificationWorkers :
                  Carries(w, c, r) /\ run[w].at = "sent"

IInv ==
    /\ TypeInv
    /\ SharedIsBlamed
    /\ PickedIsUnsent
    /\ SentHasArrived
    /\ ArrivedIsKnown
    /\ ListedHasArrived
    /\ ArrivesTwiceForAReason

-----------------------------------------------------------------------------
(* The invariant holds with empty tables and idle workers.                  *)
LEMMA InitIInv == Init => IInv
<1> SUFFICES ASSUME Init PROVE IInv
    OBVIOUS
<1> USE DeliveryAssumption
<1>1. TypeInv
    BY DEF Init, TypeInv, Idle
<1>2. SharedIsBlamed /\ PickedIsUnsent /\ SentHasArrived
    BY DEF Init, NoRun, SharedIsBlamed, PickedIsUnsent, SentHasArrived, Carries
<1>3. ArrivedIsKnown /\ ListedHasArrived /\ ArrivesTwiceForAReason
    BY DEF Init, ArrivedIsKnown, ListedHasArrived, ArrivesTwiceForAReason
<1>4. QED
    BY <1>1, <1>2, <1>3 DEF IInv

(* A run that stops, or starts, carries no review: nothing about a review   *)
(* is disturbed, as long as it had not sent one or was blamed for it.       *)
LEMMA PickNothing ==
    ASSUME IInv, NEW w \in NotificationWorkers,
           NEW after \in Idle \union Loaded,
           run' = [run EXCEPT ![w] = after],
           run[w].at # "sent",
           UNCHANGED <<stored, sent, received, blamed, refused>>
    PROVE  IInv'
<1> USE DeliveryAssumption DEF IInv, TypeInv
<1>1. /\ run'[w] = after
      /\ after.review = None
      /\ after.at # "sent"
      /\ \A v \in NotificationWorkers \ {w} : run'[v] = run[v]
    BY DEF Idle, Loaded, NoRun
<1>2. TypeInv'
    OBVIOUS
<1>3. SharedIsBlamed'
    BY <1>1 DEF SharedIsBlamed, Carries
<1>4. PickedIsUnsent'
    BY <1>1 DEF PickedIsUnsent, Carries
<1>5. SentHasArrived'
    BY <1>1 DEF SentHasArrived, Carries
<1>6. ArrivedIsKnown'
    BY <1>1 DEF ArrivedIsKnown, Carries
<1>7. ListedHasArrived' /\ ArrivesTwiceForAReason'
    BY DEF ListedHasArrived, ArrivesTwiceForAReason
<1>8. QED
    BY <1>2, <1>3, <1>4, <1>5, <1>6, <1>7

(* getUnsentReview: a worker takes up a review, maybe one that another      *)
(* worker carries.                                                          *)
LEMMA QueryKeeps ==
    ASSUME IInv, NEW w \in NotificationWorkers, NEW r \in Reviews, Query(w, r)
    PROVE  IInv'
<1> USE DeliveryAssumption DEF IInv, TypeInv
<1> DEFINE c == run[w].channel
           after == [at |-> "picked", channel |-> c, review |-> r]
<1>1. /\ c \in Channels
      /\ run[w].review = None
      /\ r \notin sent[c]
    BY DEF Query, Unsent, Idle, Loaded, Carrying, NoRun
<1>2. /\ run' = [run EXCEPT ![w] = after]
      /\ run'[w] = after
      /\ \A v \in NotificationWorkers \ {w} : run'[v] = run[v]
    BY DEF Query, Advance
<1>3. /\ UNCHANGED <<stored, sent, received, refused>>
      /\ blamed' \in [Channels -> SUBSET Reviews]
      /\ \A d \in Channels : blamed[d] \subseteq blamed'[d]
    BY <1>1 DEF Query
<1>4. ASSUME NEW v \in NotificationWorkers \ {w},
             run[v].channel = c, run[v].review = r
      PROVE  r \in blamed'[c]
    BY <1>1, <1>4 DEF Query
<1>5. TypeInv'
    BY <1>1, <1>2, <1>3 DEF Carrying
<1>6. SharedIsBlamed'
  <2> SUFFICES ASSUME NEW u \in NotificationWorkers, NEW v \in NotificationWorkers,
                      NEW d \in Channels, NEW s \in Reviews,
                      u # v, Carries(u, d, s)', Carries(v, d, s)'
               PROVE  s \in blamed'[d]
      BY DEF SharedIsBlamed
  <2>1. CASE u # w /\ v # w
      BY <2>1, <1>2, <1>3 DEF SharedIsBlamed, Carries
  <2>2. CASE u = w
      BY <2>2, <1>2, <1>4 DEF Carries
  <2>3. CASE v = w
      BY <2>3, <1>2, <1>4 DEF Carries
  <2>4. QED
      BY <2>1, <2>2, <2>3
<1>7. PickedIsUnsent'
    BY <1>1, <1>2, <1>3 DEF PickedIsUnsent, Carries
<1>8. SentHasArrived'
    BY <1>2, <1>3 DEF SentHasArrived, Carries
<1>9. ArrivedIsKnown'
    BY <1>1, <1>2, <1>3 DEF ArrivedIsKnown, Carries
<1>10. ListedHasArrived' /\ ArrivesTwiceForAReason'
    BY <1>3 DEF ListedHasArrived, ArrivesTwiceForAReason
<1>11. QED
    BY <1>5, <1>6, <1>7, <1>8, <1>9, <1>10

(* What a call does to the receiver's counts. *)
LEMMA Arrival ==
    ASSUME TypeInv, NEW c \in Channels, NEW r \in Reviews, Arrives(c, r)
    PROVE  /\ received' \in [Channels -> [Reviews -> 0..2]]
           /\ received'[c][r] > 0
           /\ received[c][r] = 0 => received'[c][r] = 1
           /\ \A d \in Channels, s \in Reviews :
                 /\ received'[d][s] >= received[d][s]
                 /\ d # c \/ s # r => received'[d][s] = received[d][s]
<1> USE DEF TypeInv
<1>1. received[c] \in [Reviews -> 0..2] /\ received[c][r] \in 0..2
    OBVIOUS
<1>2. CASE received[c][r] < 2
    BY <1>1, <1>2 DEF Arrives
<1>3. CASE received[c][r] = 2
    BY <1>1, <1>3 DEF Arrives
<1>4. QED
    BY <1>1, <1>2, <1>3

(* sendWebhook: a first arrival, or one there was a reason for.             *)
LEMMA SendWebhookKeeps ==
    ASSUME IInv, NEW w \in NotificationWorkers, SendWebhook(w)
    PROVE  IInv'
<1> USE DeliveryAssumption DEF IInv
<1> DEFINE c == run[w].channel
           r == run[w].review
           after == [at |-> "sent", channel |-> c, review |-> r]
<1>1. c \in Channels /\ r \in Reviews /\ run[w].at = "picked"
    BY DEF SendWebhook, TypeInv, Idle, Loaded, Carrying, NoRun
<1>2. /\ run' = [run EXCEPT ![w] = after]
      /\ run'[w] = after
      /\ \A v \in NotificationWorkers \ {w} : run'[v] = run[v]
    BY DEF SendWebhook, Advance, TypeInv
<1>3. UNCHANGED <<stored, sent, blamed, refused>> /\ Arrives(c, r)
    BY DEF SendWebhook
<1>4. /\ received' \in [Channels -> [Reviews -> 0..2]]
      /\ received'[c][r] > 0
      /\ received[c][r] = 0 => received'[c][r] = 1
      /\ \A d \in Channels, s \in Reviews :
            /\ received'[d][s] >= received[d][s]
            /\ d # c \/ s # r => received'[d][s] = received[d][s]
    BY <1>1, <1>3, Arrival
<1>5. \A d \in Channels, s \in Reviews :
          received[d][s] \in Int /\ received'[d][s] \in Int
    BY <1>4 DEF TypeInv
<1>6. r \notin blamed[c] => received[c][r] = 0
  <2>0. received[c][r] \in 0..2
      BY <1>1 DEF TypeInv
  <2> SUFFICES ASSUME r \notin blamed[c], received[c][r] > 0 PROVE FALSE
      BY <2>0
  <2>1. r \notin sent[c]
      BY <1>1 DEF PickedIsUnsent, Carries
  <2>2. PICK v \in NotificationWorkers : Carries(v, c, r) /\ run[v].at = "sent"
      BY <1>1, <2>1 DEF ArrivedIsKnown
  <2>3. v # w /\ Carries(w, c, r)
      BY <1>1, <2>2 DEF Carries
  <2>4. QED
      BY <1>1, <2>2, <2>3 DEF SharedIsBlamed
<1>7. TypeInv'
    BY <1>1, <1>2, <1>3, <1>4 DEF TypeInv, Carrying
<1>8. SharedIsBlamed'
    BY <1>2, <1>3 DEF SharedIsBlamed, Carries
<1>9. PickedIsUnsent'
    BY <1>2, <1>3 DEF PickedIsUnsent, Carries
<1>10. SentHasArrived'
  <2> SUFFICES ASSUME NEW v \in NotificationWorkers, NEW d \in Channels,
                      NEW s \in Reviews, Carries(v, d, s)', run'[v].at = "sent"
               PROVE  received'[d][s] > 0
      BY DEF SentHasArrived
  <2>1. CASE v = w
      BY <2>1, <1>2, <1>4 DEF Carries
  <2>2. CASE v # w
    <3>1. received[d][s] > 0
        BY <2>2, <1>2 DEF SentHasArrived, Carries
    <3>2. QED
        BY <3>1, <1>4, <1>5
  <2>3. QED
      BY <2>1, <2>2
<1>11. ArrivedIsKnown'
  <2> SUFFICES ASSUME NEW d \in Channels, NEW s \in Reviews, received'[d][s] > 0,
                      s \notin sent[d], s \notin blamed[d]
               PROVE  \E v \in NotificationWorkers :
                          Carries(v, d, s)' /\ run'[v].at = "sent"
      BY <1>3 DEF ArrivedIsKnown
  <2>1. CASE d = c /\ s = r
      BY <2>1, <1>2 DEF Carries
  <2>2. CASE d # c \/ s # r
    <3>1. PICK v \in NotificationWorkers : Carries(v, d, s) /\ run[v].at = "sent"
        BY <2>2, <1>4 DEF ArrivedIsKnown
    <3>2. QED
        BY <3>1, <1>1, <1>2 DEF Carries
  <2>3. QED
      BY <2>1, <2>2
<1>12. ListedHasArrived'
    BY <1>3, <1>4, <1>5 DEF ListedHasArrived, TypeInv
<1>13. ArrivesTwiceForAReason'
    BY <1>3, <1>4, <1>5, <1>6 DEF ArrivesTwiceForAReason
<1>14. QED
    BY <1>7, <1>8, <1>9, <1>10, <1>11, <1>12, <1>13

(* sendWebhook with a lost answer: the review gets blamed, the run ends.    *)
LEMMA AnswerLostKeeps ==
    ASSUME IInv, NEW w \in NotificationWorkers, AnswerLost(w)
    PROVE  IInv'
<1> USE DeliveryAssumption DEF IInv
<1> DEFINE c == run[w].channel
           r == run[w].review
<1>1. c \in Channels /\ r \in Reviews /\ run[w].at = "picked"
    BY DEF AnswerLost, TypeInv, Idle, Loaded, Carrying, NoRun
<1>2. /\ run' = [run EXCEPT ![w] = NoRun]
      /\ run'[w] = NoRun
      /\ \A v \in NotificationWorkers \ {w} : run'[v] = run[v]
    BY DEF AnswerLost, EndRun, TypeInv
<1>3. /\ UNCHANGED <<stored, sent, refused>>
      /\ Arrives(c, r)
      /\ blamed' \in [Channels -> SUBSET Reviews]
      /\ r \in blamed'[c]
      /\ \A d \in Channels : blamed[d] \subseteq blamed'[d]
    BY <1>1 DEF AnswerLost, TypeInv
<1>0. Arrives(c, r)
    BY <1>3
<1>4. /\ received' \in [Channels -> [Reviews -> 0..2]]
      /\ \A d \in Channels, s \in Reviews :
            /\ received'[d][s] >= received[d][s]
            /\ d # c \/ s # r => received'[d][s] = received[d][s]
    BY <1>0, <1>1, Arrival
<1>5. \A d \in Channels, s \in Reviews :
          received[d][s] \in Int /\ received'[d][s] \in Int
    BY <1>4 DEF TypeInv
<1>6. TypeInv'
    BY <1>2, <1>3, <1>4 DEF TypeInv, Idle
<1>7. SharedIsBlamed'
    BY <1>2, <1>3 DEF SharedIsBlamed, Carries, NoRun
<1>8. PickedIsUnsent'
  <2> SUFFICES ASSUME NEW v \in NotificationWorkers, NEW d \in Channels,
                      NEW s \in Reviews, Carries(v, d, s)',
                      run'[v].at = "picked", s \in sent[d]
               PROVE  s \in blamed'[d]
      BY <1>3 DEF PickedIsUnsent
  <2>1. v # w /\ Carries(v, d, s) /\ run[v].at = "picked"
      BY <1>2 DEF Carries, NoRun
  <2>2. QED
      BY <2>1, <1>3 DEF PickedIsUnsent
<1>9. SentHasArrived'
  <2> SUFFICES ASSUME NEW v \in NotificationWorkers, NEW d \in Channels,
                      NEW s \in Reviews, Carries(v, d, s)', run'[v].at = "sent"
               PROVE  received'[d][s] > 0
      BY DEF SentHasArrived
  <2>1. v # w
      BY <1>2 DEF NoRun
  <2>2. received[d][s] > 0
      BY <2>1, <1>2 DEF SentHasArrived, Carries
  <2>3. QED
      BY <2>2, <1>4, <1>5
<1>10. ArrivedIsKnown'
  <2> SUFFICES ASSUME NEW d \in Channels, NEW s \in Reviews, received'[d][s] > 0,
                      s \notin sent[d], s \notin blamed'[d]
               PROVE  \E v \in NotificationWorkers :
                          Carries(v, d, s)' /\ run'[v].at = "sent"
      BY <1>3 DEF ArrivedIsKnown
  <2>1. received[d][s] > 0
      BY <1>3, <1>4
  <2>2. PICK v \in NotificationWorkers : Carries(v, d, s) /\ run[v].at = "sent"
      BY <2>1, <1>3 DEF ArrivedIsKnown
  <2>3. QED
      BY <2>2, <1>1, <1>2 DEF Carries
<1>11. ListedHasArrived'
    BY <1>3, <1>4, <1>5 DEF ListedHasArrived, TypeInv
<1>12. ArrivesTwiceForAReason'
    BY <1>3, <1>4, <1>5 DEF ArrivesTwiceForAReason
<1>13. QED
    BY <1>6, <1>7, <1>8, <1>9, <1>10, <1>11, <1>12

(* markReviewAsSent: the review that arrived is listed, or blamed.          *)
LEMMA MarkReviewAsSentKeeps ==
    ASSUME IInv, NEW w \in NotificationWorkers, MarkReviewAsSent(w)
    PROVE  IInv'
<1> USE DeliveryAssumption DEF IInv
<1> DEFINE c == run[w].channel
           r == run[w].review
<1>1. c \in Channels /\ r \in Reviews /\ run[w].at = "sent"
    BY DEF MarkReviewAsSent, TypeInv, Idle, Loaded, Carrying, NoRun
<1>2. /\ run' = [run EXCEPT ![w] = NoRun]
      /\ run'[w] = NoRun
      /\ \A v \in NotificationWorkers \ {w} : run'[v] = run[v]
    BY DEF MarkReviewAsSent, EndRun, TypeInv
<1>3. /\ UNCHANGED <<stored, received, refused>>
      /\ sent' \in [Channels -> SUBSET Reviews]
      /\ blamed' \in [Channels -> SUBSET Reviews]
      /\ r \in sent'[c] \/ r \in blamed'[c]
      /\ \A d \in Channels :
            blamed[d] \subseteq blamed'[d] /\ sent[d] \subseteq sent'[d]
      /\ \A d \in Channels, s \in Reviews :
            s \in sent'[d] /\ s \notin sent[d] => d = c /\ s = r
  <2>1. CASE sent' = [sent EXCEPT ![c] = @ \union {r}] /\ UNCHANGED blamed
      BY <1>1, <2>1 DEF MarkReviewAsSent, TypeInv
  <2>2. CASE blamed' = [blamed EXCEPT ![c] = @ \union {r}] /\ UNCHANGED sent
      BY <1>1, <2>2 DEF MarkReviewAsSent, TypeInv
  <2>3. QED
      BY <2>1, <2>2 DEF MarkReviewAsSent
<1>4. TypeInv'
    BY <1>2, <1>3 DEF TypeInv, Idle
<1>5. SharedIsBlamed'
  <2> SUFFICES ASSUME NEW u \in NotificationWorkers, NEW v \in NotificationWorkers,
                      NEW d \in Channels, NEW s \in Reviews,
                      u # v, Carries(u, d, s)', Carries(v, d, s)'
               PROVE  s \in blamed'[d]
      BY DEF SharedIsBlamed
  <2>1. u # w /\ v # w /\ Carries(u, d, s) /\ Carries(v, d, s)
      BY <1>2 DEF Carries, NoRun
  <2>2. QED
      BY <2>1, <1>3 DEF SharedIsBlamed
<1>6. PickedIsUnsent'
  <2> SUFFICES ASSUME NEW v \in NotificationWorkers, NEW d \in Channels,
                      NEW s \in Reviews, Carries(v, d, s)',
                      run'[v].at = "picked", s \in sent'[d]
               PROVE  s \in blamed'[d]
      BY DEF PickedIsUnsent
  <2>1. v # w /\ Carries(v, d, s) /\ run[v].at = "picked"
      BY <1>2 DEF Carries, NoRun
  <2>2. CASE s \in sent[d]
      BY <2>1, <2>2, <1>3 DEF PickedIsUnsent
  <2>3. CASE d = c /\ s = r
    <3>1. Carries(w, d, s)
        BY <2>3 DEF Carries
    <3>2. QED
        BY <3>1, <2>1, <1>3 DEF SharedIsBlamed
  <2>4. QED
      BY <2>2, <2>3, <1>3
<1>7. SentHasArrived'
    BY <1>2, <1>3 DEF SentHasArrived, Carries, NoRun
<1>8. ArrivedIsKnown'
  <2> SUFFICES ASSUME NEW d \in Channels, NEW s \in Reviews, received[d][s] > 0,
                      s \notin sent'[d], s \notin blamed'[d]
               PROVE  \E v \in NotificationWorkers :
                          Carries(v, d, s)' /\ run'[v].at = "sent"
      BY <1>3 DEF ArrivedIsKnown
  <2>1. PICK v \in NotificationWorkers : Carries(v, d, s) /\ run[v].at = "sent"
      BY <1>3 DEF ArrivedIsKnown
  <2>2. v # w
      BY <2>1, <1>3 DEF Carries
  <2>3. QED
      BY <2>1, <2>2, <1>2 DEF Carries
<1>9. ListedHasArrived'
  <2>1. received[c][r] > 0
      BY <1>1 DEF SentHasArrived, Carries
  <2>2. QED
      BY <2>1, <1>3 DEF ListedHasArrived, TypeInv
<1>10. ArrivesTwiceForAReason'
    BY <1>3 DEF ArrivesTwiceForAReason
<1>11. QED
    BY <1>4, <1>5, <1>6, <1>7, <1>8, <1>9, <1>10

(* The end of the process: what was sent and not listed gets blamed.        *)
LEMMA RestartKeeps ==
    ASSUME IInv, Restart
    PROVE  IInv'
<1> USE DeliveryAssumption DEF IInv
<1>1. /\ \A w \in NotificationWorkers : run'[w] = NoRun
      /\ run' \in [NotificationWorkers -> Idle]
      /\ UNCHANGED <<stored, sent, received, refused>>
    BY DEF Restart, Idle
<1>2. /\ blamed' \in [Channels -> SUBSET Reviews]
      /\ \A d \in Channels : blamed[d] \subseteq blamed'[d]
    BY DEF Restart, TypeInv
<1>3. TypeInv'
    BY <1>1, <1>2 DEF TypeInv
<1>4. SharedIsBlamed' /\ PickedIsUnsent' /\ SentHasArrived'
    BY <1>1 DEF SharedIsBlamed, PickedIsUnsent, SentHasArrived, Carries, NoRun
<1>5. ArrivedIsKnown'
  <2> SUFFICES ASSUME NEW c \in Channels, NEW r \in Reviews, received[c][r] > 0,
                      r \notin sent[c]
               PROVE  r \in blamed'[c]
      BY <1>1 DEF ArrivedIsKnown
  <2>1. CASE r \in blamed[c]
      BY <2>1, <1>2
  <2>2. CASE r \notin blamed[c]
    <3>1. PICK w \in NotificationWorkers : Carries(w, c, r) /\ run[w].at = "sent"
        BY <2>2 DEF ArrivedIsKnown
    <3>2. run[w] = [at |-> "sent", channel |-> c, review |-> r]
        BY <3>1 DEF TypeInv, Idle, Loaded, Carrying, NoRun, Carries
    <3>3. QED
        BY <3>2 DEF Restart
  <2>3. QED
      BY <2>1, <2>2
<1>6. ListedHasArrived' /\ ArrivesTwiceForAReason'
    BY <1>1, <1>2 DEF ListedHasArrived, ArrivesTwiceForAReason
<1>7. QED
    BY <1>3, <1>4, <1>5, <1>6

(* Every step of the workers, of a scrape and of the process keeps the      *)
(* invariant.                                                               *)
LEMMA NextIInv == IInv /\ [Next]_vars => IInv'
<1> SUFFICES ASSUME IInv, [Next]_vars PROVE IInv'
    OBVIOUS
<1>1. ASSUME NEW r \in Reviews, StoreReview(r) PROVE IInv'
    BY <1>1 DEF StoreReview, IInv, TypeInv, SharedIsBlamed, PickedIsUnsent,
        SentHasArrived, ArrivedIsKnown, ListedHasArrived,
        ArrivesTwiceForAReason, Carries
<1>2. ASSUME NEW w \in NotificationWorkers, RunStep(w) PROVE IInv'
  <2>1. ASSUME NEW c \in Channels, Begin(w, c) PROVE IInv'
    <3> DEFINE after == [at |-> "loaded", channel |-> c, review |-> None]
    <3>1. after \in Idle \union Loaded
        BY DEF Loaded
    <3>2. /\ run' = [run EXCEPT ![w] = after]
          /\ run[w].at # "sent"
          /\ UNCHANGED <<stored, sent, received, blamed, refused>>
        BY <2>1 DEF Begin, Advance
    <3>3. QED
        BY <3>1, <3>2, PickNothing
  <2>2. ASSUME NEW r \in Reviews, Query(w, r) PROVE IInv'
      BY <2>2, QueryKeeps
  <2>3. CASE GiveUp(w)
    <3>1. NoRun \in Idle \union Loaded
        BY DEF Idle
    <3>2. /\ run' = [run EXCEPT ![w] = NoRun]
          /\ run[w].at # "sent"
          /\ UNCHANGED <<stored, sent, received, blamed, refused>>
        BY <2>3 DEF GiveUp, EndRun
    <3>3. QED
        BY <3>1, <3>2, PickNothing
  <2>4. CASE SendWebhook(w)
      BY <2>4, SendWebhookKeeps
  <2>5. CASE AnswerLost(w)
      BY <2>5, AnswerLostKeeps
  <2>6. CASE MarkReviewAsSent(w)
      BY <2>6, MarkReviewAsSentKeeps
  <2>7. QED
      BY <1>2, <2>1, <2>2, <2>3, <2>4, <2>5, <2>6 DEF RunStep
<1>3. CASE Restart
    BY <1>3, RestartKeeps
<1>4. CASE UNCHANGED vars
    BY <1>4 DEF vars, IInv, TypeInv, SharedIsBlamed, PickedIsUnsent,
        SentHasArrived, ArrivedIsKnown, ListedHasArrived,
        ArrivesTwiceForAReason, Carries
<1>5. QED
    BY <1>1, <1>2, <1>3, <1>4 DEF Next

(* The invariant holds in every behaviour.                                  *)
LEMMA Invariant == Spec => []IInv
BY InitIInv, NextIInv, PTL DEF Spec

-----------------------------------------------------------------------------
(* sent_reviews, the runs and the histories keep their types. *)
THEOREM TypeCorrect == Spec => []TypeOK
<1>1. IInv => TypeOK
    BY DEF IInv, TypeInv, TypeOK, Idle, Loaded, Carrying, NoRun
<1>2. QED
    BY <1>1, Invariant, PTL

(* What sent_reviews lists has arrived, for any number of workers, whatever *)
(* fails: a review that never arrived stays a candidate of the next runs.   *)
THEOREM NothingListedUnsent == Spec => []ListedHasArrived
<1>1. IInv => ListedHasArrived
    BY DEF IInv
<1>2. QED
    BY <1>1, Invariant, PTL

(* The four reasons for a duplicate are all there are: without one of them  *)
(* markReviewAsSent keeps every later run from the review.                  *)
THEOREM DuplicatesHaveAReason == Spec => []ArrivesTwiceForAReason
<1>1. IInv => ArrivesTwiceForAReason
    BY DEF IInv
<1>2. QED
    BY <1>1, Invariant, PTL
=============================================================================
