------------------------------ MODULE PlanStore ------------------------------
(***************************************************************************)
(* Progress of plan executions and its SSE subscribers:                    *)
(* internal/ingest/plan_store.go, with the executor                        *)
(* (executePlanWithProgress) and the stream (PlanStream) of handler.go     *)
(* that use it.                                                            *)
(*                                                                         *)
(* The store's lock covers one action; sends to the subscribers' channels  *)
(* happen outside it, one action each.  A plan's events are numbered in    *)
(* the order it publishes them (step_start is odd, step_complete even);    *)
(* the done event is Done.                                                 *)
(***************************************************************************)
EXTENDS Integers, FiniteSets, SequencesExt

CONSTANTS
    Plans,          \* plan IDs, unique to an execution
    Subs,           \* calls of PlanStream
    PlanOf,         \* the plan ID in each call's URL
    MaxSteps,       \* ValidatePlan's limit, 10
    MaxSize,        \* planStoreMaxSize, 100
    MaxLog          \* planEventMaxLog, 21

ASSUME PlanOfAssumption == PlanOf \in [Subs -> Plans]
ASSUME BoundsAssumption ==
    MaxSteps \in Nat \ {0} /\ MaxSize \in Nat \ {0} /\ MaxLog \in Nat \ {0}

VARIABLES
    entries, order, closed,     \* the store
    running,                    \* plans whose Status is "running"
    log,                        \* Events
    subscribers,                \* for each plan, calls with a registered channel
    exec,                       \* the executor of each plan
    published,                  \* number of events it has published
    toSend,                     \* channels left in its fan-out
    chan, closes,               \* contents of each channel; how often it was closed
    late,                       \* the plan of a stream was over already
    replay,                     \* what the replay goroutine has left to send
    reader,                     \* "none", "reading" or "gone"
    got                         \* events the reader wrote to the response

storeVars == <<entries, order, closed, running, log>>
execVars == <<exec, published, toSend>>
streamVars == <<late, reader, got>>
vars == <<storeVars, subscribers, execVars, chan, closes, streamVars, replay>>

Done == 0
Event == 0 .. 2 * MaxSteps

\* Mutant: a channel with one place.
ChanCapOne == 1

ChanCap == MaxLog + 1

TypeOK ==
    /\ entries \subseteq Plans /\ order \in Seq(Plans) /\ closed \in BOOLEAN
    /\ running \subseteq Plans
    /\ log \in [Plans -> Seq(Event)]
    /\ subscribers \in [Plans -> SUBSET Subs]
    /\ exec \in [Plans -> {"new", "idle", "publish", "complete", "over", "panicked"}]
    /\ published \in [Plans -> Event]
    /\ toSend \in [Plans -> SUBSET Subs]
    /\ chan \in [Subs -> Seq(Event)] /\ closes \in [Subs -> Nat]
    /\ late \in [Subs -> BOOLEAN]
    /\ replay \in [Subs -> Seq(Event)]
    /\ reader \in [Subs -> {"none", "reading", "gone"}]
    /\ got \in [Subs -> Seq(Event)]

Init ==
    /\ entries = {} /\ order = <<>> /\ closed = FALSE /\ running = {}
    /\ log = [p \in Plans |-> <<>>]
    /\ subscribers = [p \in Plans |-> {}]
    /\ exec = [p \in Plans |-> "new"]
    /\ published = [p \in Plans |-> 0]
    /\ toSend = [p \in Plans |-> {}]
    /\ chan = [s \in Subs |-> <<>>] /\ closes = [s \in Subs |-> 0]
    /\ late = [s \in Subs |-> FALSE]
    /\ replay = [s \in Subs |-> <<>>]
    /\ reader = [s \in Subs |-> "none"]
    /\ got = [s \in Subs |-> <<>>]

CloseChannels(S) ==
    closes' = [s \in Subs |-> IF s \in S THEN closes[s] + 1 ELSE closes[s]]

Logged(p, e) ==
    log' = IF Len(log[p]) < MaxLog THEN [log EXCEPT ![p] = Append(@, e)] ELSE log

-----------------------------------------------------------------------------
(***************************************************************************)
(* The executor of a plan.                                                 *)
(***************************************************************************)

\* Mutant: the oldest plan, running or not.
VictimOldest == order[1]

\* evictLocked: the oldest plan that is over, or else the oldest plan.  The
\* loop around it makes one turn, as StoreExact shows.
Victim ==
    LET over == SelectSeq(order, LAMBDA p : p \notin running)
    IN  IF over # <<>> THEN over[1] ELSE order[1]

\* Mutant: the store may hold one plan too many.
CreateOneMore(p) ==
    /\ exec[p] = "new"
    /\ exec' = [exec EXCEPT ![p] = "idle"]
    /\ running' = running \cup {p}
    /\ LET gone == IF Cardinality(entries) > MaxSize THEN {Victim} ELSE {}
       IN  /\ entries' = (entries \ gone) \cup {p}
           /\ order' = Append(SelectSeq(order, LAMBDA q : q \notin gone), p)
           /\ CloseChannels(UNION {subscribers[q] : q \in gone})
           /\ subscribers' = [q \in Plans |-> IF q \in gone THEN {} ELSE subscribers[q]]
    /\ UNCHANGED <<closed, log, published, toSend, chan, streamVars, replay>>

\* Mutant: the evicted plan keeps its subscribers.
CreateKeepsSubscribers(p) ==
    /\ exec[p] = "new"
    /\ exec' = [exec EXCEPT ![p] = "idle"]
    /\ running' = running \cup {p}
    /\ LET gone == IF Cardinality(entries) >= MaxSize THEN {Victim} ELSE {}
       IN  /\ entries' = (entries \ gone) \cup {p}
           /\ order' = Append(SelectSeq(order, LAMBDA q : q \notin gone), p)
    /\ UNCHANGED <<closed, log, published, toSend, chan, closes, subscribers,
                   streamVars, replay>>

Create(p) ==
    /\ exec[p] = "new"
    /\ exec' = [exec EXCEPT ![p] = "idle"]
    /\ IF closed
         THEN UNCHANGED <<storeVars, subscribers, closes>>
         ELSE LET gone == IF Cardinality(entries) >= MaxSize THEN {Victim} ELSE {}
              IN  /\ entries' = (entries \ gone) \cup {p}
                  /\ order' = Append(SelectSeq(order, LAMBDA q : q \notin gone), p)
                  /\ running' = running \cup {p}
                  /\ CloseChannels(UNION {subscribers[q] : q \in gone})
                  /\ subscribers' = [q \in Plans |->
                                        IF q \in gone THEN {} ELSE subscribers[q]]
                  /\ UNCHANGED <<closed, log>>
    /\ UNCHANGED <<published, toSend, chan, streamVars, replay>>

\* Mutant: a plan with more steps than ValidatePlan allows.
PublishUnbounded(p) ==
    LET e == published[p] + 1
    IN  /\ exec[p] = "idle" /\ e < 6
        /\ published' = [published EXCEPT ![p] = e]
        /\ IF p \in entries
             THEN /\ Logged(p, e)
                  /\ toSend' = [toSend EXCEPT ![p] = subscribers[p]]
                  /\ exec' = IF subscribers[p] = {} THEN exec
                             ELSE [exec EXCEPT ![p] = "publish"]
             ELSE UNCHANGED <<log, toSend, exec>>
        /\ UNCHANGED <<entries, order, closed, running, subscribers, chan, closes,
                       streamVars, replay>>

\* Publish of a step_start or step_complete event, under the lock.
Publish(p) ==
    LET e == published[p] + 1
    IN  /\ exec[p] = "idle"
        /\ published[p] < 2 * MaxSteps
        /\ published' = [published EXCEPT ![p] = e]
        /\ IF p \in entries
             THEN /\ Logged(p, e)
                  /\ toSend' = [toSend EXCEPT ![p] = subscribers[p]]
                  /\ exec' = IF subscribers[p] = {} THEN exec
                             ELSE [exec EXCEPT ![p] = "publish"]
             ELSE UNCHANGED <<log, toSend, exec>>
        /\ UNCHANGED <<entries, order, closed, running, subscribers, chan, closes,
                       streamVars, replay>>

\* The non-blocking send.  A channel closed in the meantime makes it panic,
\* which ends the handler that executes the plan.
Send(p, s) ==
    /\ exec[p] = "publish" /\ s \in toSend[p]
    /\ IF closes[s] > 0
         THEN /\ exec' = [exec EXCEPT ![p] = "panicked"]
              /\ toSend' = [toSend EXCEPT ![p] = {}]
              /\ UNCHANGED chan
         ELSE /\ toSend' = [toSend EXCEPT ![p] = @ \ {s}]
              /\ chan' = IF Len(chan[s]) < ChanCap
                           THEN [chan EXCEPT ![s] = Append(@, published[p])] ELSE chan
              /\ exec' = IF toSend[p] = {s} THEN [exec EXCEPT ![p] = "idle"] ELSE exec
    /\ UNCHANGED <<storeVars, subscribers, published, closes, streamVars, replay>>

\* Mutant: the done event goes to the subscribers only.
CompleteUnlogged(p) ==
    /\ exec[p] = "idle" /\ published[p] > 0 /\ published[p] % 2 = 0
    /\ p \in entries
    /\ running' = running \ {p}
    /\ toSend' = [toSend EXCEPT ![p] = subscribers[p]]
    /\ subscribers' = [subscribers EXCEPT ![p] = {}]
    /\ exec' = [exec EXCEPT ![p] = IF subscribers[p] = {} THEN "over" ELSE "complete"]
    /\ UNCHANGED <<entries, order, closed, log, published, chan, closes, streamVars,
                   replay>>

\* Complete, after the last step or a step that failed, under the lock.
Complete(p) ==
    /\ exec[p] = "idle" /\ published[p] > 0 /\ published[p] % 2 = 0
    /\ IF p \in entries
         THEN /\ Logged(p, Done)
              /\ running' = running \ {p}
              /\ toSend' = [toSend EXCEPT ![p] = subscribers[p]]
              /\ subscribers' = [subscribers EXCEPT ![p] = {}]
              /\ exec' = [exec EXCEPT ![p] = IF subscribers[p] = {} THEN "over" ELSE "complete"]
         ELSE /\ exec' = [exec EXCEPT ![p] = "over"]
              /\ UNCHANGED <<log, running, toSend, subscribers>>
    /\ UNCHANGED <<entries, order, closed, published, chan, closes, streamVars, replay>>

\* Complete's fan-out, outside the lock.
SendDone(p, s) ==
    /\ exec[p] = "complete" /\ s \in toSend[p]
    /\ toSend' = [toSend EXCEPT ![p] = @ \ {s}]
    /\ chan' = IF Len(chan[s]) < ChanCap THEN [chan EXCEPT ![s] = Append(@, Done)] ELSE chan
    /\ CloseChannels({s})
    /\ exec' = IF toSend[p] = {s} THEN [exec EXCEPT ![p] = "over"] ELSE exec
    /\ UNCHANGED <<storeVars, subscribers, published, streamVars, replay>>

-----------------------------------------------------------------------------
(***************************************************************************)
(* A stream: Subscribe, the replay goroutine, and the loop that reads.     *)
(***************************************************************************)
\* Mutant: a running plan's events are not replayed.
SubscribeUnreplayed(s) ==
    LET p == PlanOf[s]
    IN  /\ reader[s] = "none"
        /\ p \in entries /\ ~closed
        /\ reader' = [reader EXCEPT ![s] = "reading"]
        /\ late' = [late EXCEPT ![s] = p \notin running]
        /\ replay' = [replay EXCEPT ![s] = IF p \in running THEN <<>> ELSE log[p]]
        /\ subscribers' = IF p \in running THEN [subscribers EXCEPT ![p] = @ \cup {s}]
                                           ELSE subscribers
        /\ UNCHANGED <<storeVars, execVars, chan, closes, got>>

Subscribe(s) ==
    LET p == PlanOf[s]
    IN  /\ reader[s] = "none"
        /\ p \in entries /\ ~closed
        /\ reader' = [reader EXCEPT ![s] = "reading"]
        /\ late' = [late EXCEPT ![s] = p \notin running]
        /\ replay' = [replay EXCEPT ![s] = log[p]]
        /\ subscribers' = IF p \in running THEN [subscribers EXCEPT ![p] = @ \cup {s}]
                                           ELSE subscribers
        /\ UNCHANGED <<storeVars, execVars, chan, closes, got>>

\* Mutant: the channel of a plan that was over is closed one event early.
ReplayClosesEarly(s) ==
    /\ replay[s] # <<>>
    /\ IF closes[s] > 0
         THEN replay' = [replay EXCEPT ![s] = <<>>] /\ UNCHANGED <<chan, closes>>
         ELSE /\ Len(chan[s]) < ChanCap
              /\ replay' = [replay EXCEPT ![s] = Tail(@)]
              /\ chan' = [chan EXCEPT ![s] = Append(@, Head(replay[s]))]
              /\ CloseChannels(IF late[s] /\ Len(replay[s]) = 2 THEN {s} ELSE {})
    /\ UNCHANGED <<storeVars, subscribers, execVars, streamVars>>

\* One send of the replay goroutine, which blocks while the channel is full
\* and recovers from a closed one; the last closes the channel of a plan that
\* was over.
Replay(s) ==
    /\ replay[s] # <<>>
    /\ IF closes[s] > 0
         THEN replay' = [replay EXCEPT ![s] = <<>>] /\ UNCHANGED <<chan, closes>>
         ELSE /\ Len(chan[s]) < ChanCap
              /\ replay' = [replay EXCEPT ![s] = Tail(@)]
              /\ chan' = [chan EXCEPT ![s] = Append(@, Head(replay[s]))]
              /\ CloseChannels(IF late[s] /\ Len(replay[s]) = 1 THEN {s} ELSE {})
    /\ UNCHANGED <<storeVars, subscribers, execVars, streamVars>>

\* The reader takes an event and leaves after done.
Receive(s) ==
    /\ reader[s] = "reading" /\ chan[s] # <<>>
    /\ chan' = [chan EXCEPT ![s] = Tail(@)]
    /\ got' = [got EXCEPT ![s] = Append(@, Head(chan[s]))]
    /\ reader' = IF Head(chan[s]) = Done THEN [reader EXCEPT ![s] = "gone"] ELSE reader
    /\ UNCHANGED <<storeVars, subscribers, execVars, closes, late, replay>>

EndOfStream(s) ==
    /\ reader[s] = "reading" /\ chan[s] = <<>> /\ closes[s] > 0
    /\ reader' = [reader EXCEPT ![s] = "gone"]
    /\ UNCHANGED <<storeVars, subscribers, execVars, chan, closes, late, replay,
                   got>>

\* Mutant: closes the channel of a subscriber that is not registered any more.
CancelAlways(s) ==
    /\ reader[s] = "reading"
    /\ reader' = [reader EXCEPT ![s] = "gone"]
    /\ subscribers' = [subscribers EXCEPT ![PlanOf[s]] = @ \ {s}]
    /\ CloseChannels({s})
    /\ UNCHANGED <<storeVars, execVars, chan, late, replay, got>>

\* The client goes away: Unsubscribe.
Cancel(s) ==
    LET registered == s \in subscribers[PlanOf[s]]
    IN  /\ reader[s] = "reading"
        /\ reader' = [reader EXCEPT ![s] = "gone"]
        /\ subscribers' = [subscribers EXCEPT ![PlanOf[s]] = @ \ {s}]
        /\ CloseChannels(IF registered THEN {s} ELSE {})
        /\ UNCHANGED <<storeVars, execVars, chan, late, replay, got>>

-----------------------------------------------------------------------------
\* Get or Subscribe finds that a plan has been over for planStoreTTL.
Expire(p) ==
    /\ p \in entries \ running
    /\ entries' = entries \ {p}
    /\ order' = SelectSeq(order, LAMBDA q : q # p)
    /\ CloseChannels(subscribers[p])
    /\ subscribers' = [subscribers EXCEPT ![p] = {}]
    /\ UNCHANGED <<closed, running, log, execVars, chan, streamVars, replay>>

\* Shutdown of the process, which does not wait for handlers for ever.
Close ==
    /\ ~closed
    /\ closed' = TRUE
    /\ CloseChannels(UNION {subscribers[p] : p \in entries})
    /\ subscribers' = [p \in Plans |-> IF p \in entries THEN {} ELSE subscribers[p]]
    /\ UNCHANGED <<entries, order, running, log, execVars, chan, streamVars, replay>>

Execute(p) ==
    \/ Create(p) \/ Publish(p) \/ Complete(p)
    \/ \E s \in Subs : Send(p, s) \/ SendDone(p, s)

Stream(s) == Subscribe(s) \/ Replay(s) \/ Receive(s) \/ EndOfStream(s) \/ Cancel(s)

Next ==
    \/ \E p \in Plans : Execute(p) \/ Expire(p)
    \/ \E s \in Subs : Stream(s)
    \/ Close

Spec == Init /\ [][Next]_vars

(***************************************************************************)
(* Tools return, the goroutines run, and clients read their streams; no    *)
(* client has to go away and nothing has to be created, expired or closed. *)
(***************************************************************************)
Fairness ==
    /\ \A p \in Plans :
          /\ WF_vars(Publish(p) \/ Complete(p))
          /\ WF_vars(\E s \in Subs : Send(p, s) \/ SendDone(p, s))
    /\ \A s \in Subs : WF_vars(Replay(s)) /\ WF_vars(Receive(s) \/ EndOfStream(s))

FairSpec == Spec /\ Fairness

-----------------------------------------------------------------------------
(***************************************************************************)
(* Properties.                                                             *)
(***************************************************************************)

\* The store holds at most planStoreMaxSize plans, and order lists exactly
\* those, each once, so that eviction neither meets stale IDs nor fails to
\* find a plan to evict.
StoreExact ==
    /\ Cardinality(entries) <= MaxSize
    /\ Range(order) = entries /\ Len(order) = Cardinality(entries)

\* Eviction takes a running plan, and ends the streams of its clients, only
\* when every plan of the store is running.
RunningKept ==
    [][\A p \in entries \cap running : p \notin entries' => entries \subseteq running]_vars

\* The log of a plan in the store is everything the plan has published, in
\* order, and ends with done once the plan is over: with the limit of 10
\* steps the 21 places of the log are just enough.
LogComplete ==
    \A p \in entries :
        log[p] = [i \in 1 .. published[p] |-> i] \o (IF p \in running THEN <<>> ELSE <<Done>>)

\* No channel is closed twice (which would panic), though Unsubscribe,
\* Complete, Close, eviction and replay all close channels.
ClosedOnce == \A s \in Subs : closes[s] <= 1

\* A registered channel is open and belongs to a running plan of an open
\* store and to a client that still reads.
RegisteredLive ==
    \A p \in Plans : \A s \in subscribers[p] :
        /\ closes[s] = 0 /\ reader[s] = "reading"
        /\ p \in entries \cap running /\ ~closed

\* Replay and live events together give a registered subscriber every event
\* of its plan once, though they race for the channel; in particular the
\* channel never fills up, so that "drop if slow" drops nothing and replay
\* never blocks.  (A panic of the executor cuts its fan-out short.)
EachOnce ==
    \A p \in Plans : exec[p] # "panicked" => \A s \in subscribers[p] :
        LET seen == got[s] \o chan[s] \o replay[s]
        IN  /\ Cardinality(Range(seen)) = Len(seen)
            /\ Range(seen) =
                  Range(log[p]) \ (IF s \in toSend[p] THEN {published[p]} ELSE {})

\* "For completed plans, all events are replayed and the channel is closed":
\* the client of a plan that was over reads a prefix of the log, and all of it
\* before the channel ends.
LateReplayExact ==
    \A s \in Subs : late[s] =>
        /\ IsPrefix(got[s], log[PlanOf[s]])
        /\ closes[s] > 0 => got[s] \o chan[s] = log[PlanOf[s]]

\* Every stream ends, by done or by its channel, unless the executor of its
\* plan panicked.
StreamEnds ==
    \A s \in Subs :
        reader[s] = "reading" ~> reader[s] = "gone" \/ exec[PlanOf[s]] = "panicked"

\* No replay goroutine is left blocked on a full channel.
ReplayEnds == \A s \in Subs : replay[s] # <<>> ~> replay[s] = <<>>

\* "For running plans, existing events are replayed asynchronously before live
\* events arrive": a client reads the events in the order of the log.
ReplayBeforeLive ==
    \A s \in Subs : \A i, j \in DOMAIN got[s] :
        i < j => got[s][i] # Done /\ (got[s][j] = Done \/ got[s][i] < got[s][j])

\* "Publish appends event to the plan log and fans out to subscribers (dropping
\* slow ones)": a subscriber that goes away does not stop the fan-out.
PublishFansOut == \A p \in Plans : exec[p] # "panicked"

=============================================================================
