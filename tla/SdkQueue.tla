------------------------------ MODULE SdkQueue ------------------------------
(***************************************************************************)
(* The Go SDK's delivery queue: pkg/transport/http/queue.go (queue), with  *)
(* the HTTP outcomes of batch.go (flushBatch).  Application goroutines     *)
(* submit events; one worker goroutine (run) takes batches and posts them. *)
(*                                                                         *)
(* takeReadyBatches holds the queue's lock over several steps of the       *)
(* model, during which Submit and Shutdown wait.                           *)
(***************************************************************************)
EXTENDS Integers, FiniteSets, SequencesExt

CONSTANTS
    Events,         \* events the application submits, once each
    Priority,       \* the ones whose status IsPriority
    Unencodable,    \* the ones with a field JSON has no form for
    Size,           \* estimateEventSize
    InFlightCap, OkBudgetPct, MaxBatch, MaxBatchSize, MaxRetries,  \* Config
    MaxSubmits      \* bound: how many of the events are submitted

ASSUME PriorityAssumption == Priority \subseteq Events
ASSUME SizeAssumption ==
    /\ Unencodable \subseteq Events
    /\ Size \in [Events -> Nat] /\ \A e \in Unencodable : Size[e] = 0
ASSUME ConfigAssumption ==
    /\ InFlightCap \in Nat \ {0} /\ OkBudgetPct \in 1 .. 100
    /\ MaxBatch \in Nat \ {0} /\ MaxBatchSize \in Nat \ {0}
    /\ MaxRetries \in Nat \ {0} /\ MaxSubmits \in Nat

VARIABLES
    okQ, prioQ,             \* queued events, each with its attempts
    okBytes, prioBytes,
    closing,
    notify,                 \* the one-slot channel
    pc,                     \* the worker: "select", "take", "deliver", "sleep", "done"
    force, last,            \* takeReadyBatches(force); run returns afterwards
    batches,                \* what is left of the batches it took
    retry,                  \* what it will put back after the backoff
    submitted,              \* events passed to Submit
    delivered,              \* events a 2xx response covered
    dropped,                \* Client.dropped
    posts                   \* how often each event was in a batch to post

queueVars == <<okQ, prioQ, okBytes, prioBytes>>
workerVars == <<pc, force, last, batches, retry>>
vars == <<queueVars, closing, notify, workerVars, submitted, delivered,
          dropped, posts>>

OkCap == (InFlightCap * OkBudgetPct) \div 100

Item == [ev : Events, attempts : 0 .. MaxRetries]

TypeOK ==
    /\ okQ \in Seq(Item) /\ prioQ \in Seq(Item)
    /\ okBytes \in Int /\ prioBytes \in Int
    /\ closing \in BOOLEAN /\ notify \in BOOLEAN
    /\ pc \in {"select", "take", "deliver", "sleep", "done"}
    /\ force \in BOOLEAN /\ last \in BOOLEAN
    /\ batches \in Seq(Seq(Item)) /\ retry \in Seq(Item)
    /\ submitted \subseteq Events /\ delivered \subseteq Events
    /\ dropped \in Nat
    /\ posts \in [Events -> Nat]

Init ==
    /\ okQ = <<>> /\ prioQ = <<>> /\ okBytes = 0 /\ prioBytes = 0
    /\ closing = FALSE /\ notify = FALSE
    /\ pc = "select" /\ force = FALSE /\ last = FALSE
    /\ batches = <<>> /\ retry = <<>>
    /\ submitted = {} /\ delivered = {} /\ dropped = 0
    /\ posts = [e \in Events |-> 0]

-----------------------------------------------------------------------------
(***************************************************************************)
(* Sequences of queued events.                                             *)
(***************************************************************************)
Bytes(s) == FoldLeft(LAMBDA n, item : n + Size[item.ev], 0, s)

First(s, n) == SubSeq(s, 1, n)
Rest(s, n) == SubSeq(s, n + 1, Len(s))
EventsOf(s) == {item.ev : item \in Range(s)}

\* How many events the dropping loops take off the front (or the back) of s
\* to free the bytes that are too many.
DropHead(s, excess) ==
    Min({n \in 0 .. Len(s) : n = Len(s) \/ Bytes(First(s, n)) >= excess})

DropTail(s, excess) ==
    Min({n \in 0 .. Len(s) : n = Len(s) \/ Bytes(Rest(s, Len(s) - n)) >= excess})

-----------------------------------------------------------------------------
(***************************************************************************)
(* enqueue.  A refused event is counted as dropped by Client.Submit.       *)
(***************************************************************************)

\* An OK event pushes out older OK events, within the budget of OK events.
EnqueueOK(e) ==
    LET n == DropHead(okQ, okBytes + Size[e] - OkCap)
        left == okBytes - Bytes(First(okQ, n))
    IN  IF Size[e] > OkCap
          THEN UNCHANGED <<queueVars, notify>> /\ dropped' = dropped + 1
          ELSE /\ IF left + Size[e] > OkCap
                    THEN /\ okQ' = Rest(okQ, n) /\ okBytes' = left
                         /\ dropped' = dropped + n + 1
                         /\ UNCHANGED notify
                    ELSE /\ okQ' = Append(Rest(okQ, n), [ev |-> e, attempts |-> 0])
                         /\ okBytes' = left + Size[e]
                         /\ dropped' = dropped + n
                         /\ notify' = TRUE
               /\ UNCHANGED <<prioQ, prioBytes>>

\* Mutant: priority events go first.
EnqueuePriorityEvictsOwn(e) ==
    LET p == DropHead(prioQ, okBytes + prioBytes + Size[e] - InFlightCap)
        left == prioBytes - Bytes(First(prioQ, p))
        n == DropHead(okQ, okBytes + left + Size[e] - InFlightCap)
    IN  IF Size[e] > InFlightCap
          THEN UNCHANGED <<queueVars, notify>> /\ dropped' = dropped + 1
          ELSE /\ okQ' = Rest(okQ, n) /\ okBytes' = okBytes - Bytes(First(okQ, n))
               /\ prioQ' = Append(Rest(prioQ, p), [ev |-> e, attempts |-> 0])
               /\ prioBytes' = left + Size[e]
               /\ dropped' = dropped + n + p
               /\ notify' = TRUE

\* A priority event pushes out OK events first, then older priority events.
EnqueuePriority(e) ==
    LET excess == okBytes + prioBytes + Size[e] - InFlightCap
        n == DropHead(okQ, excess)
        okLeft == okBytes - Bytes(First(okQ, n))
        p == DropHead(prioQ, okLeft + prioBytes + Size[e] - InFlightCap)
        prioLeft == prioBytes - Bytes(First(prioQ, p))
        fits == okLeft + prioLeft + Size[e] <= InFlightCap
    IN  IF Size[e] > InFlightCap
          THEN UNCHANGED <<queueVars, notify>> /\ dropped' = dropped + 1
          ELSE /\ okQ' = Rest(okQ, n) /\ okBytes' = okLeft
               /\ prioQ' = IF fits THEN Append(Rest(prioQ, p), [ev |-> e, attempts |-> 0])
                                   ELSE Rest(prioQ, p)
               /\ prioBytes' = IF fits THEN prioLeft + Size[e] ELSE prioLeft
               /\ dropped' = dropped + n + p + (IF fits THEN 0 ELSE 1)
               /\ notify' = (notify \/ fits)

Unlocked == pc # "take"

\* Mutant: the closing flag is not looked at.
SubmitAfterClose(e) ==
    /\ Unlocked
    /\ e \notin submitted /\ Cardinality(submitted) < MaxSubmits
    /\ submitted' = submitted \cup {e}
    /\ IF e \in Priority THEN EnqueuePriority(e) ELSE EnqueueOK(e)
    /\ UNCHANGED <<closing, workerVars, delivered, posts>>

Submit(e) ==
    /\ Unlocked
    /\ e \notin submitted /\ Cardinality(submitted) < MaxSubmits
    /\ submitted' = submitted \cup {e}
    /\ IF closing
         THEN UNCHANGED <<queueVars, notify>> /\ dropped' = dropped + 1
         ELSE IF e \in Priority THEN EnqueuePriority(e) ELSE EnqueueOK(e)
    /\ UNCHANGED <<closing, workerVars, delivered, posts>>

Shutdown ==
    /\ Unlocked
    /\ ~closing
    /\ closing' = TRUE
    /\ UNCHANGED <<queueVars, notify, workerVars, submitted, delivered, dropped,
                   posts>>

-----------------------------------------------------------------------------
(***************************************************************************)
(* The worker's select.                                                    *)
(***************************************************************************)
Take(forced, final) ==
    /\ pc = "select"
    /\ pc' = "take" /\ force' = forced /\ last' = final
    /\ UNCHANGED <<queueVars, closing, batches, retry, submitted, delivered,
                   dropped, posts>>

Wake == notify /\ notify' = FALSE /\ Take(FALSE, FALSE)

\* Mutant: the ticker does not force small batches out.
AgeUnforced == Take(FALSE, FALSE) /\ UNCHANGED notify

Age == Take(TRUE, FALSE) /\ UNCHANGED notify

\* Mutant: the loop goes on after the stop signal.
StoppedGoesOn == closing /\ Take(TRUE, FALSE) /\ UNCHANGED notify

Stopped == closing /\ Take(TRUE, TRUE) /\ UNCHANGED notify

-----------------------------------------------------------------------------
(***************************************************************************)
(* takeReadyBatches: priority batches, then OK batches.                    *)
(***************************************************************************)
\* How many events takeFromLocked takes.
BatchLen(q, bytes) ==
    IF q = <<>> \/ (~force /\ Len(q) < MaxBatch /\ bytes < MaxBatchSize)
      THEN 0
      ELSE Max({n \in 1 .. Min({Len(q), MaxBatch}) :
                   n = 1 \/ Bytes(First(q, n)) <= MaxBatchSize})

\* Back to the select, or out of run.
Resume == pc' = IF last THEN "done" ELSE "select"

\* Mutant: the bytes of a batch are not given back.
TakeOneKeepsBytes ==
    /\ pc = "take"
    /\ LET p == BatchLen(prioQ, prioBytes)
           n == BatchLen(okQ, okBytes)
       IN  \/ /\ p > 0
              /\ batches' = Append(batches, First(prioQ, p))
              /\ prioQ' = Rest(prioQ, p)
              /\ UNCHANGED <<okQ, okBytes, prioBytes, pc>>
           \/ /\ p = 0 /\ n > 0
              /\ batches' = Append(batches, First(okQ, n))
              /\ okQ' = Rest(okQ, n)
              /\ UNCHANGED <<prioQ, prioBytes, okBytes, pc>>
           \/ /\ p = 0 /\ n = 0
              /\ IF batches = <<>> THEN Resume ELSE pc' = "deliver"
              /\ UNCHANGED <<queueVars, batches>>
    /\ UNCHANGED <<closing, notify, force, last, retry, submitted, delivered,
                   dropped, posts>>

TakeOne ==
    /\ pc = "take"
    /\ LET p == BatchLen(prioQ, prioBytes)
           n == BatchLen(okQ, okBytes)
       IN  \/ /\ p > 0
              /\ batches' = Append(batches, First(prioQ, p))
              /\ prioQ' = Rest(prioQ, p)
              /\ prioBytes' = prioBytes - Bytes(First(prioQ, p))
              /\ UNCHANGED <<okQ, okBytes, pc>>
           \/ /\ p = 0 /\ n > 0
              /\ batches' = Append(batches, First(okQ, n))
              /\ okQ' = Rest(okQ, n)
              /\ okBytes' = okBytes - Bytes(First(okQ, n))
              /\ UNCHANGED <<prioQ, prioBytes, pc>>
           \/ /\ p = 0 /\ n = 0
              /\ IF batches = <<>> THEN Resume ELSE pc' = "deliver"
              /\ UNCHANGED <<queueVars, batches>>
    /\ UNCHANGED <<closing, notify, force, last, retry, submitted, delivered,
                   dropped, posts>>

-----------------------------------------------------------------------------
(***************************************************************************)
(* deliver: post the next batch.  flushBatch counts an event it cannot     *)
(* encode as dropped and posts the others; the event stays in the batch.   *)
(***************************************************************************)
Posting ==
    /\ pc = "deliver"
    /\ posts' = [e \in Events |->
                    IF e \in EventsOf(Head(batches)) THEN posts[e] + 1 ELSE posts[e]]
    /\ batches' = Tail(batches)
    /\ UNCHANGED <<queueVars, closing, notify, force, last, submitted>>

Unencoded(s) == Len(SelectSeq(s, LAMBDA item : item.ev \in Unencodable))

\* There is a body to post.
Posted == Unencoded(Head(batches)) < Len(Head(batches))

Continue == IF Len(batches) = 1 THEN Resume ELSE UNCHANGED pc

\* A 2xx response, or nothing to post.
Accepted ==
    /\ Posting
    /\ delivered' = delivered \cup (EventsOf(Head(batches)) \ Unencodable)
    /\ dropped' = dropped + Unencoded(Head(batches))
    /\ Continue
    /\ UNCHANGED retry

\* Mutant: a refused batch is not counted.
RefusedUncounted ==
    /\ Posting
    /\ Posted
    /\ dropped' = dropped + Unencoded(Head(batches))
    /\ Continue
    /\ UNCHANGED <<retry, delivered>>

\* A status that is not worth a retry.
Refused ==
    /\ Posting
    /\ Posted
    /\ dropped' = dropped + Unencoded(Head(batches)) + Len(Head(batches))
    /\ Continue
    /\ UNCHANGED <<retry, delivered>>

Tried(s) == [k \in DOMAIN s |-> [s[k] EXCEPT !.attempts = @ + 1]]

\* Mutant: off by one.
RetriedOnceMore(s) ==
    SelectSeq(Tried(s), LAMBDA item : item.attempts <= MaxRetries + 1)

\* The events of a failed batch that have attempts left.
Retried(s) == SelectSeq(Tried(s), LAMBDA item : item.attempts <= MaxRetries)

\* A timeout, a connection error, 429 or 5xx.
Failed ==
    /\ Posting
    /\ Posted
    /\ LET batch == Head(batches)
           kept == Retried(batch)
           counted == dropped + Unencoded(batch)
       IN  IF kept = <<>> \/ closing
             THEN /\ dropped' = counted + Len(batch)
                  /\ Continue
                  /\ UNCHANGED retry
             ELSE /\ dropped' = counted + Len(batch) - Len(kept)
                  /\ retry' = kept
                  /\ pc' = "sleep"
    /\ UNCHANGED delivered

\* Mutant: a batch put back in front of others does not make room for itself.
RequeuedOver ==
    IF closing THEN UNCHANGED <<queueVars, notify>> /\ dropped' = dropped + Len(retry)
    ELSE /\ IF retry[1].ev \in Priority
              THEN /\ prioQ' = retry \o prioQ /\ prioBytes' = prioBytes + Bytes(retry)
                   /\ UNCHANGED <<okQ, okBytes>>
              ELSE /\ okQ' = retry \o okQ /\ okBytes' = okBytes + Bytes(retry)
                   /\ UNCHANGED <<prioQ, prioBytes>>
         /\ notify' = TRUE /\ UNCHANGED dropped

\* requeueFront.
Requeued ==
    LET bytes == Bytes(retry)
        cap == IF retry[1].ev \in Priority THEN InFlightCap ELSE OkCap
        used == IF retry[1].ev \in Priority THEN okBytes + prioBytes ELSE okBytes
        n == DropHead(okQ, used + bytes - cap)
        okLeft == okBytes - Bytes(First(okQ, n))
        p == IF retry[1].ev \in Priority
               THEN DropTail(prioQ, okLeft + prioBytes + bytes - cap) ELSE 0
        prioRest == First(prioQ, Len(prioQ) - p)
        prioLeft == prioBytes - Bytes(Rest(prioQ, Len(prioQ) - p))
        fits == bytes + okLeft + (IF retry[1].ev \in Priority THEN prioLeft ELSE 0) <= cap
        back == IF fits THEN retry ELSE <<>>
    IN  IF closing
          THEN UNCHANGED <<queueVars, notify>> /\ dropped' = dropped + Len(retry)
          ELSE /\ IF retry[1].ev \in Priority
                    THEN /\ okQ' = Rest(okQ, n) /\ okBytes' = okLeft
                         /\ prioQ' = back \o prioRest
                         /\ prioBytes' = prioLeft + Bytes(back)
                    ELSE /\ okQ' = back \o Rest(okQ, n)
                         /\ okBytes' = okLeft + Bytes(back)
                         /\ UNCHANGED <<prioQ, prioBytes>>
               /\ dropped' = dropped + n + p + Len(retry) - Len(back)
               /\ notify' = (notify \/ fits)

\* The backoff is over.
Requeue ==
    /\ pc = "sleep"
    /\ Requeued
    /\ retry' = <<>>
    /\ IF batches = <<>> THEN Resume ELSE pc' = "deliver"
    /\ UNCHANGED <<closing, force, last, batches, submitted, delivered, posts>>

-----------------------------------------------------------------------------
Next ==
    \/ \E e \in Events : Submit(e)
    \/ Shutdown
    \/ Wake \/ Age \/ Stopped
    \/ TakeOne
    \/ Accepted \/ Refused \/ Failed
    \/ Requeue

Spec == Init /\ [][Next]_vars

(***************************************************************************)
(* The worker goroutine runs, the ticker ticks, every post ends (the HTTP  *)
(* client has a timeout) and every sleep is over.  Go's select picks among *)
(* the ready cases at random, so none is passed over for ever.             *)
(***************************************************************************)
Fairness ==
    /\ WF_vars(TakeOne) /\ WF_vars(Accepted \/ Refused \/ Failed)
    /\ WF_vars(Requeue) /\ WF_vars(Age)
    /\ SF_vars(Stopped)

FairSpec == Spec /\ Fairness

-----------------------------------------------------------------------------
(***************************************************************************)
(* Properties.                                                             *)
(***************************************************************************)

\* Everything the queue or the worker still holds.
Held == okQ \o prioQ \o FlattenSeq(batches) \o retry

\* No silent loss and no duplication: an event is held once or not at all;
\* and Client.Dropped counts the submitted events that are neither held nor
\* delivered, whichever of the places of the code dropped them.  The count is
\* exact but for events that cannot be encoded, which flushBatch counts each
\* time their batch comes up, and once more if the batch is then given up.
DropsCounted ==
    /\ Len(Held) = Cardinality(EventsOf(Held))
    /\ EventsOf(Held) \cap delivered = {}
    /\ LET lost == Cardinality(submitted \ (EventsOf(Held) \cup delivered))
           recounts == FoldSet(LAMBDA e, n : n + posts[e], 0, Unencodable)
       IN  dropped \in lost .. lost + recounts

\* okBytes and prioBytes are the sizes of what is queued, through evictions at
\* both ends, batches taken and batches put back; and stay in their budgets.
BytesExact ==
    /\ okBytes = Bytes(okQ) /\ prioBytes = Bytes(prioQ)
    /\ okBytes <= OkCap /\ prioBytes <= InFlightCap

\* An event is posted at most MaxRetries + 1 times.
PostsBounded == \A e \in Events : posts[e] <= MaxRetries + 1

\* Once run has returned nothing is left behind, whatever was submitted while
\* the queue was closing.
DrainedEmpty == pc = "done" => Held = <<>>

\* requeueFront always finds room for the batch it puts back: a retry is given
\* up only when its attempts are used up or the queue is closing.
RetryPutBack ==
    [][pc = "sleep" /\ pc' # "sleep" /\ ~closing
         => EventsOf(retry) \subseteq EventsOf(okQ' \o prioQ')]_vars

\* A priority event is pushed out of the queue only when no OK event is left
\* to push out (TestQueueEvictsOKBeforePriority).
PriorityLast ==
    [][EventsOf(prioQ) \subseteq EventsOf(prioQ' \o FlattenSeq(batches'))
         \/ okQ' = <<>>]_vars

\* Every submitted event is delivered or counted as dropped in the end: when
\* the application has submitted its last event, the queue runs empty.
Settles == <>[](Held = <<>>)

\* Shutdown(0) returns: the worker drains and stops.
Drains == closing ~> pc = "done"

=============================================================================
