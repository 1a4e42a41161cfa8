---------------------------- MODULE Notifications ----------------------------
(***************************************************************************)
(* Dispatches of one logical notification: the dedupe claim, the rows of   *)
(* notification_deliveries, one job per row, the worker that sends and     *)
(* settles them, the handler of exhausted jobs, and cancelPending.         *)
(***************************************************************************)
EXTENDS JobQueue, FiniteSets

CONSTANTS
    Dispatches,      \* calls of dispatch() with one dedupe key, numbered as they start
    Channels,        \* channels a dispatch may plan deliveries for
    Couriers,        \* slots of the delivery worker
    MaxDeliveries,   \* bound: rows of notification_deliveries
    MaxMishaps       \* bound: calls that throw, crashes, and losses of the claim

ASSUME NotificationsAssumption ==
    /\ Dispatches \subseteq Nat /\ MaxDeliveries \in Nat /\ MaxMishaps \in Nat

VARIABLES
    claimed,       \* cache: the dedupe key is there
    dispatch,      \* dispatch -> [pc, todo]: rows not enqueued yet
    delivery,      \* <<dispatch, channel>> -> status of the row, or "none"
    deliveryJob,   \* <<dispatch, channel>> -> its job
    courier,       \* worker slot -> [pc, of]
    exhausting,    \* <<dispatch, channel>> -> pc of onExhausted
    cancel,        \* dispatch -> [pc, ids] of its cancelPending
    tried,         \* history: deliveries a provider was called for
    quiet,         \* history: cancelled with nobody at work on them and never tried
    stranded,      \* history: left without a job by a fault, a crash or a cancel
    raced,         \* history: two claims overlapped, or the cache forgot one
    mishaps

noteVars == << claimed, dispatch, delivery, deliveryJob, courier, exhausting, cancel, tried, quiet, stranded,
               raced, mishaps >>

Deliveries == Dispatches \X Channels
RowsOf(d) == {d} \X Channels
Idle == [pc |-> "idle", of |-> {}]

NotificationsInit ==
    /\ claimed = FALSE /\ raced = FALSE
    /\ dispatch = [d \in Dispatches |-> [pc |-> "idle", todo |-> {}]]
    /\ delivery = [x \in Deliveries |-> "none"]
    /\ deliveryJob = [x \in Deliveries |-> NoJob]
    /\ courier = [w \in Couriers |-> Idle]
    /\ exhausting = [x \in Deliveries |-> "no"]
    /\ cancel = [d \in Dispatches |-> [pc |-> "idle", ids |-> {}]]
    /\ tried = {} /\ quiet = {} /\ stranded = {}
    /\ mishaps = 0

DispatchAt(d, pc) == dispatch[d].pc = pc
DispatchTo(d, pc, todo) == dispatch' = [dispatch EXCEPT ![d] = [pc |-> pc, todo |-> todo]]
Mishap == mishaps < MaxMishaps /\ mishaps' = mishaps + 1
Carries(w, x) == courier[w].of = {x}

-----------------------------------------------------------------------------
(* doDispatch. *)

\* DedupeService.claim looks first ...
CheckClaim(d) ==
    /\ DispatchAt(d, "idle") /\ \A e \in Dispatches : e < d => ~DispatchAt(e, "idle")
    /\ DispatchTo(d, IF claimed THEN "deduped" ELSE "claim", {})
    /\ raced' = (raced \/ (~claimed /\ \E e \in Dispatches : DispatchAt(e, "claim")))
    /\ UNCHANGED << claimed, delivery, deliveryJob, courier, exhausting, cancel, tried, quiet, stranded, mishaps >>

\* Mutant of SetClaim: the key is not set.
PassClaim(d) ==
    /\ DispatchAt(d, "claim") /\ DispatchTo(d, "plan", {})
    /\ UNCHANGED << claimed, delivery, deliveryJob, courier, exhausting, cancel, tried, quiet, stranded, raced, mishaps >>

\* ... and sets the key with another call.
SetClaim(d) ==
    /\ DispatchAt(d, "claim") /\ DispatchTo(d, "plan", {})
    /\ claimed' = TRUE
    /\ UNCHANGED << delivery, deliveryJob, courier, exhausting, cancel, tried, quiet, stranded, raced, mishaps >>

\* PreferenceResolver allows no channel: the claim is released.
Skip(d) ==
    /\ DispatchAt(d, "plan") /\ DispatchTo(d, "skipped", {})
    /\ claimed' = FALSE
    /\ UNCHANGED << delivery, deliveryJob, courier, exhausting, cancel, tried, quiet, stranded, raced, mishaps >>

\* It allows some: the notification and its rows are created together.
CreateRows(d) ==
    /\ DispatchAt(d, "plan")
    /\ \E planned \in (SUBSET Channels) \ {{}} :
        /\ Cardinality({x \in Deliveries : delivery[x] # "none"} \cup {d} \X planned) <= MaxDeliveries
        /\ DispatchTo(d, "enqueue", {d} \X planned)
        /\ delivery' = [x \in Deliveries |-> IF x \in {d} \X planned THEN "PENDING" ELSE delivery[x]]
    /\ UNCHANGED << claimed, deliveryJob, courier, exhausting, cancel, tried, quiet, stranded, raced, mishaps >>

EnqueueDelivery(d) ==
    /\ DispatchAt(d, "enqueue")
    /\ \E x \in dispatch[d].todo :
        LET left == dispatch[d].todo \ {x} IN
        /\ deliveryJob' = [deliveryJob EXCEPT ![x] = Added(@)]
        /\ DispatchTo(d, IF left = {} THEN "enqueued" ELSE "enqueue", left)
    /\ UNCHANGED << claimed, delivery, courier, exhausting, cancel, tried, quiet, stranded, raced, mishaps >>

\* Any of these calls, or the event between them, throws: the consumer ignores
\* it, and neither the claim nor the rows are taken back.
DispatchFails(d) ==
    /\ dispatch[d].pc \in {"claim", "plan", "enqueue"}
    /\ Mishap
    /\ DispatchTo(d, "failed", {}) /\ stranded' = stranded \cup dispatch[d].todo
    /\ UNCHANGED << claimed, delivery, deliveryJob, courier, exhausting, cancel, tried, quiet, raced >>

\* The key's time to live ends, or Redis loses it.
Expire ==
    /\ claimed /\ Mishap
    /\ claimed' = FALSE /\ raced' = TRUE
    /\ UNCHANGED << dispatch, delivery, deliveryJob, courier, exhausting, cancel, tried, quiet, stranded >>

-----------------------------------------------------------------------------
(* The delivery worker. *)

CourierUnchanged == UNCHANGED << claimed, dispatch, cancel, quiet, raced >>

Pickup(w, x) ==
    /\ courier[w] = Idle /\ deliveryJob[x].state = "waiting"
    /\ courier' = [courier EXCEPT ![w] = [pc |-> "read", of |-> {x}]]
    /\ deliveryJob' = [deliveryJob EXCEPT ![x].state = "active"]
    /\ CourierUnchanged /\ UNCHANGED << delivery, exhausting, tried, stranded, mishaps >>

\* Mutant of FindDelivery: only a sent delivery is not sent.
FindUnsentDelivery(w, x) ==
    /\ Carries(w, x) /\ courier[w].pc = "read"
    /\ IF delivery[x] = "SENT"
       THEN deliveryJob' = [deliveryJob EXCEPT ![x] = Completed(@)] /\ courier' = [courier EXCEPT ![w] = Idle]
       ELSE deliveryJob' = deliveryJob /\ courier' = [courier EXCEPT ![w].pc = "send"]
    /\ CourierUnchanged /\ UNCHANGED << delivery, exhausting, tried, stranded, mishaps >>

\* findDelivery: a row that is cancelled or sent ends the job.
FindDelivery(w, x) ==
    /\ Carries(w, x) /\ courier[w].pc = "read"
    /\ IF delivery[x] \in {"CANCELLED", "SENT"}
       THEN deliveryJob' = [deliveryJob EXCEPT ![x] = Completed(@)] /\ courier' = [courier EXCEPT ![w] = Idle]
       ELSE deliveryJob' = deliveryJob /\ courier' = [courier EXCEPT ![w].pc = "send"]
    /\ CourierUnchanged /\ UNCHANGED << delivery, exhausting, tried, stranded, mishaps >>

\* provider.send: "DEAD" is a permanent failure, "FAILED" a transient one.
Send(w, x) ==
    /\ Carries(w, x) /\ courier[w].pc = "send"
    /\ \E outcome \in {"SENT", "DEAD", "FAILED"} : courier' = [courier EXCEPT ![w].pc = outcome]
    /\ tried' = tried \cup {x}
    /\ CourierUnchanged /\ UNCHANGED << delivery, deliveryJob, exhausting, stranded, mishaps >>

\* The handler throws; the `failed` listener counts the attempts.
Throw(w, x) ==
    /\ deliveryJob' = [deliveryJob EXCEPT ![x] = Rejected(@)]
    /\ exhausting' = [exhausting EXCEPT ![x] = IF deliveryJob[x].failures + 1 >= Attempts THEN "read" ELSE @]
    /\ courier' = [courier EXCEPT ![w] = Idle]

\* Mutant of Settle: a transient failure is recorded and not thrown.
SettleQuietly(w, x) ==
    /\ Carries(w, x) /\ courier[w].pc \in {"SENT", "DEAD", "FAILED"}
    /\ delivery' = [delivery EXCEPT ![x] = courier[w].pc]
    /\ deliveryJob' = [deliveryJob EXCEPT ![x] = Completed(@)]
    /\ courier' = [courier EXCEPT ![w] = Idle] /\ exhausting' = exhausting
    /\ CourierUnchanged /\ UNCHANGED << tried, stranded, mishaps >>

\* markResult or markAttempt, whatever the row has become since it was read;
\* then the job completes or, for a transient failure, is retried.
Settle(w, x) ==
    /\ Carries(w, x) /\ courier[w].pc \in {"SENT", "DEAD", "FAILED"}
    /\ delivery' = [delivery EXCEPT ![x] = courier[w].pc]
    /\ IF courier[w].pc = "FAILED" THEN Throw(w, x)
       ELSE /\ deliveryJob' = [deliveryJob EXCEPT ![x] = Completed(@)]
            /\ courier' = [courier EXCEPT ![w] = Idle] /\ exhausting' = exhausting
    /\ CourierUnchanged /\ UNCHANGED << tried, stranded, mishaps >>

\* A read throws, the row cannot be marked, or the event after the mark throws.
CourierFails(w, x) ==
    /\ Carries(w, x)
    /\ Mishap
    /\ \/ delivery' = delivery
       \/ courier[w].pc \in {"SENT", "DEAD", "FAILED"} /\ delivery' = [delivery EXCEPT ![x] = courier[w].pc]
    /\ Throw(w, x)
    /\ CourierUnchanged /\ UNCHANGED << tried, stranded >>

\* onExhausted reads the row, which may be settled or cancelled by now, ...
ReadExhausted(x) ==
    /\ exhausting[x] = "read"
    /\ exhausting' = [exhausting EXCEPT ![x] = IF delivery[x] \in {"SENT", "CANCELLED"} THEN "no" ELSE "mark"]
    /\ CourierUnchanged /\ UNCHANGED << delivery, deliveryJob, courier, tried, stranded, mishaps >>

\* ... and marks it dead.
MarkDead(x) ==
    /\ exhausting[x] = "mark" /\ exhausting' = [exhausting EXCEPT ![x] = "no"]
    /\ delivery' = [delivery EXCEPT ![x] = "DEAD"]
    /\ CourierUnchanged /\ UNCHANGED << deliveryJob, courier, tried, stranded, mishaps >>

ExhaustedFails(x) ==
    /\ exhausting[x] # "no" /\ exhausting' = [exhausting EXCEPT ![x] = "no"]
    /\ Mishap
    /\ stranded' = stranded \cup {x}
    /\ CourierUnchanged /\ UNCHANGED << delivery, deliveryJob, courier, tried >>

-----------------------------------------------------------------------------
(* cancelPending of a dispatched notification. *)

CancelUnchanged == UNCHANGED << claimed, dispatch, courier, exhausting, tried, raced >>
Pending(d) == {x \in RowsOf(d) : delivery[x] = "PENDING"}
Busy(x) == exhausting[x] # "no" \/ \E w \in Couriers : Carries(w, x)

ReadPending(d) ==
    /\ cancel[d].pc = "idle" /\ Pending(d) # {}
    /\ cancel' = [cancel EXCEPT ![d] = [pc |-> "update", ids |-> Pending(d)]]
    /\ CancelUnchanged /\ UNCHANGED << delivery, deliveryJob, quiet, stranded, mishaps >>

CancelRows(d) ==
    /\ cancel[d].pc = "update" /\ cancel' = [cancel EXCEPT ![d].pc = "remove"]
    /\ delivery' = [x \in Deliveries |-> IF x \in Pending(d) THEN "CANCELLED" ELSE delivery[x]]
    /\ quiet' = quiet \cup {x \in Pending(d) : ~Busy(x) /\ x \notin tried}
    /\ CancelUnchanged /\ UNCHANGED << deliveryJob, stranded, mishaps >>

\* removeDelivery of each id read, whatever its row has become: only an active
\* job refuses.
RemoveDelivery(d) ==
    /\ cancel[d].pc = "remove"
    /\ \E x \in cancel[d].ids :
        LET left == cancel[d].ids \ {x}
            removed == deliveryJob[x].state # "active" IN
        /\ cancel' = [cancel EXCEPT ![d] = [pc |-> IF left = {} THEN "done" ELSE "remove", ids |-> left]]
        /\ deliveryJob' = [deliveryJob EXCEPT ![x] = IF removed THEN NoJob ELSE @]
        /\ stranded' = IF removed /\ delivery[x] = "FAILED" THEN stranded \cup {x} ELSE stranded
    /\ CancelUnchanged /\ UNCHANGED << delivery, quiet, mishaps >>

CancelFails(d) ==
    /\ cancel[d].pc \in {"update", "remove"} /\ cancel' = [cancel EXCEPT ![d] = [pc |-> "done", ids |-> {}]]
    /\ Mishap
    /\ CancelUnchanged /\ UNCHANGED << delivery, deliveryJob, quiet, stranded >>

\* The process dies; the stalled check gives its jobs to the next one.
NotificationsCrash ==
    /\ Mishap
    /\ dispatch' = [d \in Dispatches |-> [pc |-> IF dispatch[d].pc \in {"claim", "plan", "enqueue"}
                                                THEN "failed" ELSE dispatch[d].pc, todo |-> {}]]
    /\ cancel' = [d \in Dispatches |-> [pc |-> IF cancel[d].pc = "idle" THEN "idle" ELSE "done", ids |-> {}]]
    /\ courier' = [w \in Couriers |-> Idle]
    /\ deliveryJob' = [x \in Deliveries |-> IF deliveryJob[x].state = "active" THEN Stalled(deliveryJob[x])
                                           ELSE deliveryJob[x]]
    /\ exhausting' = [x \in Deliveries |-> "no"]
    /\ stranded' = stranded \cup (UNION {dispatch[d].todo : d \in Dispatches})
                   \cup {x \in Deliveries : exhausting[x] # "no" \/ deliveryJob'[x].state = "failed"}
    /\ UNCHANGED << claimed, delivery, tried, quiet, raced >>

NotificationsNext ==
    \/ \E d \in Dispatches :
        \/ CheckClaim(d) \/ SetClaim(d) \/ Skip(d) \/ CreateRows(d) \/ EnqueueDelivery(d) \/ DispatchFails(d)
        \/ ReadPending(d) \/ CancelRows(d) \/ RemoveDelivery(d) \/ CancelFails(d)
    \/ \E w \in Couriers, x \in Deliveries :
        Pickup(w, x) \/ FindDelivery(w, x) \/ Send(w, x) \/ Settle(w, x) \/ CourierFails(w, x)
    \/ \E x \in Deliveries : ReadExhausted(x) \/ MarkDead(x) \/ ExhaustedFails(x)
    \/ Expire \/ NotificationsCrash

NotificationsSpec == NotificationsInit /\ [][NotificationsNext]_noteVars

-----------------------------------------------------------------------------
NotificationsTypeOK ==
    /\ claimed \in BOOLEAN /\ raced \in BOOLEAN
    /\ dispatch \in [Dispatches -> [pc : {"idle", "claim", "plan", "enqueue", "enqueued", "deduped", "skipped", "failed"},
                                    todo : SUBSET Deliveries]]
    /\ delivery \in [Deliveries -> {"none", "PENDING", "SENT", "FAILED", "DEAD", "CANCELLED"}]
    /\ \A x \in Deliveries : JobTypeOK(deliveryJob[x])
    /\ \A w \in Couriers : courier[w].of \subseteq Deliveries
    /\ exhausting \in [Deliveries -> {"no", "read", "mark"}]
    /\ cancel \in [Dispatches -> [pc : {"idle", "update", "remove", "done"}, ids : SUBSET Deliveries]]
    /\ tried \cup quiet \cup stranded \subseteq Deliveries
    /\ mishaps \in Nat

\* A delivery that is neither sent, dead nor cancelled is still on somebody's
\* list: the dispatch's, the queue's or the exhaustion handler's; unless a
\* fault or a crash dropped it there, or a cancel that read it as pending took
\* the job of a delivery that had failed since.
UnsettledHasJob ==
    \A x \in Deliveries : delivery[x] \in {"PENDING", "FAILED"} /\ x \notin stranded =>
        \/ x \in dispatch[x[1]].todo \/ exhausting[x] # "no"
        \/ deliveryJob[x].state \in {"waiting", "active"}

\* A delivery cancelled while nobody was at work on it stays cancelled, and no
\* provider is ever called for it, although its job may still be added, run,
\* retried or stalled.
CancelledStaysUnsent ==
    \A x \in quiet : delivery[x] = "CANCELLED" /\ x \notin tried

\* One dedupe key creates at most one notification, unless two claims
\* overlapped (has and set are two calls) or the cache forgot the key.
KeyNotifiesOnce ==
    ~raced => Cardinality({d \in Dispatches : \E x \in RowsOf(d) : delivery[x] # "none"}) <= 1
=============================================================================
