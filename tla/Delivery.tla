------------------------------ MODULE Delivery ------------------------------
(***************************************************************************)
(* What notification workers (worker/notification_worker.go, processJob)   *)
(* send: a run for a channel picks the newest review of its website that   *)
(* sent_reviews does not list for the channel, posts it to the channel's   *)
(* webhook and then lists it.  Query, call and insert are separate steps;  *)
(* jobs of one channel are not kept apart, the answer to a call can get    *)
(* lost, an insert can fail, and the process can stop anywhere.            *)
(*                                                                         *)
(* When jobs start, and that a failed run is retried, is Dispatch.tla's    *)
(* matter; here a free worker may start a run for any channel at any time. *)
(* The reviews are numbered by their date and belong to the one website    *)
(* of all the channels.  The receiver of the webhooks is external.         *)
(***************************************************************************)
EXTENDS Integers

CONSTANTS
    Channels,
    Reviews,               \* dates, the newest is the largest
    NotificationWorkers,
    None,                  \* no channel, no review
    CallMayFail,           \* a webhook call may fail, before or after the
                           \* receiver got it
    DbMayFail,             \* statements may fail
    MayRestart,            \* the process may stop and start again
    Answering              \* channels whose receiver answers every call, and
                           \* time and again with success

ASSUME DeliveryAssumption ==
    /\ Reviews \subseteq Int
    /\ Answering \subseteq Channels
    /\ None \notin Channels \union Reviews
    /\ {CallMayFail, DbMayFail, MayRestart} \subseteq BOOLEAN

VARIABLES
    stored,      \* reviews in the database
    sent,        \* sent_reviews, per channel
    run,         \* per worker: how far its run is, its channel, its review
    received,    \* per channel and review: calls that arrived, two at most
    refused,     \* reviews the receivers refuse each time
    blamed       \* history: why a review may arrive on a channel again

vars == <<stored, sent, run, received, refused, blamed>>

NoRun == [at |-> "idle", channel |-> None, review |-> None]

Init ==
    /\ stored = {}
    /\ sent = [c \in Channels |-> {}]
    /\ run = [w \in NotificationWorkers |-> NoRun]
    /\ received = [c \in Channels |-> [r \in Reviews |-> 0]]
    /\ refused \in SUBSET Reviews
    /\ blamed = [c \in Channels |-> {}]

-----------------------------------------------------------------------------
(* A scrape saves a review, of any date. *)
StoreReview(r) ==
    /\ r \notin stored
    /\ stored' = stored \union {r}
    /\ UNCHANGED <<sent, run, received, blamed, refused>>

Advance(w, where, c, r) ==
    run' = [run EXCEPT ![w] = [at |-> where, channel |-> c, review |-> r]]

EndRun(w) == run' = [run EXCEPT ![w] = NoRun]

(* The channel and a template are there.  If they are not, the run fails    *)
(* and that is all.                                                         *)
Begin(w, c) ==
    /\ run[w].at = "idle"
    /\ Advance(w, "loaded", c, None)
    /\ UNCHANGED <<stored, sent, received, blamed, refused>>

(* Mutant: sent_reviews is not asked. *)
UnsentUnfiltered(c) == stored

Unsent(c) == stored \ sent[c]

(* Mutant: the oldest review comes first. *)
QueryOldest(w, r) ==
    LET c == run[w].channel IN
    /\ run[w].at = "loaded"
    /\ r \in Unsent(c)
    /\ \A other \in Unsent(c) : other >= r
    /\ Advance(w, "picked", c, r)
    /\ blamed' = IF \E v \in NotificationWorkers \ {w} :
                        run[v].channel = c /\ run[v].review = r
                   THEN [blamed EXCEPT ![c] = @ \union {r}]
                   ELSE blamed
    /\ UNCHANGED <<stored, sent, received, refused>>

(* getUnsentReview.  Behind it the rating is loaded.  If another worker has *)
(* the same review for the same channel in its hands, both will send it.    *)
Query(w, r) ==
    LET c == run[w].channel IN
    /\ run[w].at = "loaded"
    /\ r \in Unsent(c)
    /\ \A other \in Unsent(c) : other <= r
    /\ Advance(w, "picked", c, r)
    /\ blamed' = IF \E v \in NotificationWorkers \ {w} :
                        run[v].channel = c /\ run[v].review = r
                   THEN [blamed EXCEPT ![c] = @ \union {r}]
                   ELSE blamed
    /\ UNCHANGED <<stored, sent, received, refused>>

(* Mutant: no check for the empty result. *)
GiveUpUnchecked(w) ==
    /\ run[w].at = "loaded"
    /\ Unsent(run[w].channel) = {}
    /\ Advance(w, "picked", run[w].channel, None)
    /\ UNCHANGED <<stored, sent, received, blamed, refused>>

(* Mutant: no return behind failJob. *)
GiveUpFallsThrough(w) ==
    /\ run[w].at = "picked"
    /\ Advance(w, "sent", run[w].channel, run[w].review)
    /\ UNCHANGED <<stored, sent, received, blamed, refused>>

(* No review to send: the job is done.  No rating, or the query failed: the *)
(* job failed.                                                              *)
GiveUp(w) ==
    /\ \/ run[w].at = "loaded" /\ (Unsent(run[w].channel) = {} \/ DbMayFail)
       \/ run[w].at = "picked"
    /\ EndRun(w)
    /\ UNCHANGED <<stored, sent, received, blamed, refused>>

Arrives(c, r) ==
    received' = [received EXCEPT ![c][r] = IF @ < 2 THEN @ + 1 ELSE @]

(* sendWebhook, answered with a 2xx status. *)
SendWebhook(w) ==
    LET c == run[w].channel
        r == run[w].review IN
    /\ run[w].at = "picked"
    /\ r \notin refused
    /\ Arrives(c, r)
    /\ Advance(w, "sent", c, r)
    /\ UNCHANGED <<stored, sent, blamed, refused>>

(* The call arrives, but its answer is lost or no success: the job failed. *)
AnswerLost(w) ==
    LET c == run[w].channel
        r == run[w].review IN
    /\ CallMayFail \/ r \in refused
    /\ run[w].at = "picked"
    /\ Arrives(c, r)
    /\ blamed' = [blamed EXCEPT ![c] = @ \union {r}]
    /\ EndRun(w)
    /\ UNCHANGED <<stored, sent, refused>>

(* markReviewAsSent; the job succeeds whether or not the insert does. *)
MarkReviewAsSent(w) ==
    LET c == run[w].channel
        r == run[w].review IN
    /\ run[w].at = "sent"
    /\ \/ /\ sent' = [sent EXCEPT ![c] = @ \union {r}]
          /\ UNCHANGED blamed
       \/ /\ DbMayFail
          /\ blamed' = [blamed EXCEPT ![c] = @ \union {r}]
          /\ UNCHANGED sent
    /\ EndRun(w)
    /\ UNCHANGED <<stored, received, refused>>

(* The process ends in the middle of its runs.  Those that were between the *)
(* call and the insert have sent a review nobody will know of.              *)
Restart ==
    /\ MayRestart
    /\ run' = [w \in NotificationWorkers |-> NoRun]
    /\ blamed' = [c \in Channels |->
          blamed[c] \union {r \in Reviews :
              \E w \in NotificationWorkers :
                  run[w] = [at |-> "sent", channel |-> c, review |-> r]}]
    /\ UNCHANGED <<stored, sent, received, refused>>

RunStep(w) ==
    \/ \E c \in Channels : Begin(w, c)
    \/ \E r \in Reviews : Query(w, r)
    \/ GiveUp(w) \/ SendWebhook(w) \/ AnswerLost(w) \/ MarkReviewAsSent(w)

Next ==
    \/ \E r \in Reviews : StoreReview(r)
    \/ \E w \in NotificationWorkers : RunStep(w)
    \/ Restart

Spec == Init /\ [][Next]_vars

(* The call of a webhook has no timeout (http.Client{}, sendWebhook): a     *)
(* worker that calls a channel whose receiver is not known to answer may    *)
(* stay there for ever.                                                     *)
Hangs(w) == run[w].at = "picked" /\ run[w].channel \notin Answering

(* Workers go on where nothing but the database and an answering receiver   *)
(* is waited for.  Cron triggers a channel again and again, and what is     *)
(* tried time and again (a statement, a call for a review that is not       *)
(* refused) succeeds in the end: retries and cron entries keep trying; that *)
(* an answering receiver and the database do not fail for ever is assumed.  *)
ChannelFairness(c) ==
    /\ SF_vars(\E w \in NotificationWorkers : Begin(w, c))
    /\ SF_vars(\E w \in NotificationWorkers :
                  run[w].channel = c /\ \E r \in Reviews : Query(w, r))
    /\ SF_vars(\E w \in NotificationWorkers :
                  run[w].channel = c /\ SendWebhook(w))
    /\ SF_vars(\E w \in NotificationWorkers :
                  run[w].channel = c /\ MarkReviewAsSent(w) /\ sent' # sent)

FairSpec ==
    /\ Spec
    /\ \A w \in NotificationWorkers : WF_vars(~Hangs(w) /\ RunStep(w))
    /\ \A c \in Answering : ChannelFairness(c)

-----------------------------------------------------------------------------
(* The types of the tables and of the runs. *)
TypeOK ==
    /\ stored \subseteq Reviews
    /\ sent \in [Channels -> SUBSET Reviews]
    /\ run \in [NotificationWorkers ->
                  [at : {"idle", "loaded", "picked", "sent"},
                   channel : Channels \union {None},
                   review : Reviews \union {None}]]
    /\ received \in [Channels -> [Reviews -> 0..2]]
    /\ refused \subseteq Reviews
    /\ blamed \in [Channels -> SUBSET Reviews]

(* No review is lost: only a review that arrived on a channel is listed as  *)
(* sent there, whatever calls fail and wherever the process stops, so that  *)
(* every other one stays a candidate of the next runs.                      *)
ListedHasArrived ==
    \A c \in Channels : \A r \in sent[c] : received[c][r] > 0

(* A review arrives twice on a channel only for one of four reasons: two    *)
(* workers picked it at the same time, an answer was lost, the insert into  *)
(* sent_reviews failed, or the process stopped before it.                   *)
ArrivesTwiceForAReason ==
    \A c \in Channels, r \in Reviews : received[c][r] > 1 => r \in blamed[c]

(* No review of a channel waits for ever behind others, although the newest *)
(* goes first and workers collide, are restarted and fail: it is listed as  *)
(* sent unless one the receiver refuses, as new as it or newer, is in its   *)
(* way, or calls to channels that do not answer end up holding every        *)
(* worker.                                                                  *)
OnlyRefusedReviewsBlock ==
    \/ <>[](\A w \in NotificationWorkers : Hangs(w))
    \/ \A c \in Answering, r \in Reviews :
          r \in stored ~> \/ r \in sent[c]
                         \/ \E other \in refused \intersect stored : other >= r
=============================================================================
