------------------------------ MODULE EventBus ------------------------------
(***************************************************************************)
(* The core event bus: publish() checks the idempotency key, logs the      *)
(* envelope, runs the sync handlers and enqueues a job; the worker of the  *)
(* ghost.events queue runs the async handlers in order, retries, and dead- *)
(* letters what it gives up; operators replay and discard dead letters.    *)
(***************************************************************************)
EXTENDS JobQueue, Sequences, FiniteSets

CONSTANTS
    Publishers,      \* concurrent publish() calls, operators' replays included: slots, the lowest free one is taken
    Events,          \* logical events, each published again when its publisher retries
    KeyedEvents,     \* those with an idempotency key and an idempotent policy
    DeliveryOf,      \* event -> delivery policy of its name
    SyncHandlers,    \* subscriptions in order: not durable
    AsyncHandlers,   \* subscriptions in order: durable and not durable
    Workers,         \* slots of the worker
    MaxEnvelopes,    \* bound: publish() calls
    MaxDisruptions   \* bound: calls to cache, database or queue that throw, and crashes

\* The members of a Set of registrations.
HandlersOf == {AsyncHandlers[k] : k \in DOMAIN AsyncHandlers}

ASSUME EventsAssumption ==
    /\ AsyncHandlers \in Seq(HandlersOf)
    /\ \A j, k \in DOMAIN AsyncHandlers : AsyncHandlers[j] = AsyncHandlers[k] => j = k
    /\ KeyedEvents \subseteq Events /\ Events \cap Nat = {}
    /\ DeliveryOf \in [Events -> {"sync", "async", "both"}]
    /\ Publishers \subseteq Nat /\ MaxEnvelopes \in Nat /\ MaxDisruptions \in Nat

VARIABLES
    envelopes,    \* envelopes in order of creation: [event, keyed, letter, log]
    seen,         \* cache: keys marked as seen
    pub,          \* publisher -> [pc, env, h]
    job,          \* job id -> [env, queue]
    work,         \* worker slot -> [pc, id, h]
    letters,      \* event_dead_letters: [env, handler, status]
    runs,         \* history: job id -> handler -> times it was run by the worker
    ended,        \* history: job id -> handler -> it returned at least once
    accepted,     \* history: events whose publish() resolved
    broken,       \* history: events whose publish() failed after its key was marked
    faults, crashes

vars == << envelopes, seen, pub, job, work, letters, runs, ended, accepted, broken, faults, crashes >>

EnvIds == 1 .. MaxEnvelopes
JobIds == KeyedEvents \cup EnvIds
IdlePub == [pc |-> "idle", env |-> 0, h |-> 0]
IdleWork == [pc |-> "idle", id |-> 0, h |-> 0]

Init ==
    /\ envelopes = << >> /\ seen = {} /\ letters = << >>
    /\ pub = [p \in Publishers |-> IdlePub]
    /\ job = [j \in JobIds |-> [env |-> 0, queue |-> NoJob]]
    /\ work = [w \in Workers |-> IdleWork]
    /\ runs = [j \in JobIds |-> [h \in HandlersOf |-> 0]]
    /\ ended = [j \in JobIds |-> {}]
    /\ accepted = {} /\ broken = {}
    /\ faults = 0 /\ crashes = 0

At(p, pc) == pub[p].pc = pc
EnvOf(p) == envelopes[pub[p].env]
EventOf(p) == EnvOf(p).event
Async(event) == DeliveryOf[event] \in {"async", "both"}
Sync(event) == DeliveryOf[event] \in {"sync", "both"}

\* Mutant of JobId: every envelope is a job of its own.
JobIdOfEnvelope(i) == i

\* jobId: the idempotency key, or the id of the envelope.
JobId(i) == IF envelopes[i].keyed THEN envelopes[i].event ELSE i

-----------------------------------------------------------------------------
(* publish() *)

\* A publisher, or an operator's replay of a dead letter (letter > 0, no key).
Begin(p, event, keyed, letter) ==
    /\ At(p, "idle") /\ (\A q \in Publishers : q < p => ~At(q, "idle"))
    /\ Len(envelopes) < MaxEnvelopes
    /\ envelopes' = Append(envelopes, [event |-> event, keyed |-> keyed, letter |-> letter, log |-> "none"])
    /\ pub' = [pub EXCEPT ![p] = [pc |-> IF keyed THEN "check" ELSE "log", h |-> 1,
                                  env |-> Len(envelopes) + 1]]

Publish(p) ==
    /\ \E e \in Events : Begin(p, e, e \in KeyedEvents, 0)
    /\ UNCHANGED << seen, job, work, letters, runs, ended, accepted, broken, faults, crashes >>

\* isDuplicate: the envelope of a key that was seen goes no further.
CheckDuplicate(p) ==
    /\ At(p, "check")
    /\ \/ /\ EventOf(p) \in seen
          /\ accepted' = accepted \cup {EventOf(p)}
          /\ pub' = [pub EXCEPT ![p] = IdlePub]
       \/ /\ EventOf(p) \notin seen
          /\ pub' = [pub EXCEPT ![p].pc = "mark"]
          /\ UNCHANGED accepted
    /\ UNCHANGED << envelopes, seen, job, work, letters, runs, ended, broken, faults, crashes >>

MarkSeen(p) ==
    /\ At(p, "mark")
    /\ seen' = seen \cup {EventOf(p)}
    /\ pub' = [pub EXCEPT ![p].pc = "log"]
    /\ UNCHANGED << envelopes, job, work, letters, runs, ended, accepted, broken, faults, crashes >>

\* eventLog.persist of an envelope that is delivered asynchronously.
PersistLog(p) ==
    /\ At(p, "log")
    /\ envelopes' = IF Async(EventOf(p)) THEN [envelopes EXCEPT ![pub[p].env].log = "published"]
                    ELSE envelopes
    /\ pub' = [pub EXCEPT ![p].pc = IF Sync(EventOf(p)) THEN "sync" ELSE "enqueue"]
    /\ UNCHANGED << seen, job, work, letters, runs, ended, accepted, broken, faults, crashes >>

\* The next sync handler returns.
SyncHandler(p) ==
    /\ At(p, "sync") /\ pub[p].h <= Len(SyncHandlers)
    /\ pub' = [pub EXCEPT ![p].h = @ + 1]
    /\ UNCHANGED << envelopes, seen, job, work, letters, runs, ended, accepted, broken, faults, crashes >>

\* Mutant of SyncDone: an event that has sync handlers is taken as delivered.
SyncDoneForBoth(p) ==
    /\ At(p, "sync") /\ pub[p].h > Len(SyncHandlers)
    /\ pub' = [pub EXCEPT ![p].pc = "resolve"]
    /\ UNCHANGED << envelopes, seen, job, work, letters, runs, ended, accepted, broken, faults, crashes >>

SyncDone(p) ==
    /\ At(p, "sync") /\ pub[p].h > Len(SyncHandlers)
    /\ pub' = [pub EXCEPT ![p].pc = IF Async(EventOf(p)) THEN "enqueue" ELSE "resolve"]
    /\ UNCHANGED << envelopes, seen, job, work, letters, runs, ended, accepted, broken, faults, crashes >>

\* Mutant of Enqueue: the job of the id is removed and added afresh.
EnqueueReplaces(p) ==
    LET id == JobId(pub[p].env)
    IN  /\ At(p, "enqueue")
        /\ job' = [job EXCEPT ![id] = [env |-> pub[p].env, queue |-> Added(NoJob)]]
        /\ pub' = [pub EXCEPT ![p].pc = "resolve"]
        /\ UNCHANGED << envelopes, seen, work, letters, runs, ended, accepted, broken, faults, crashes >>

\* queue.add: nothing happens when the job id is taken.
Enqueue(p) ==
    LET id == JobId(pub[p].env)
    IN  /\ At(p, "enqueue")
        /\ job' = [job EXCEPT ![id] = [env |-> IF @.env = 0 THEN pub[p].env ELSE @.env,
                                       queue |-> Added(@.queue)]]
        /\ pub' = [pub EXCEPT ![p].pc = "resolve"]
        /\ UNCHANGED << envelopes, seen, work, letters, runs, ended, accepted, broken, faults, crashes >>

\* publish() resolves; a replay goes on to mark its dead letter.
Resolve(p) ==
    /\ At(p, "resolve")
    /\ accepted' = accepted \cup {EventOf(p)}
    /\ pub' = [pub EXCEPT ![p] = IF EnvOf(p).letter = 0 THEN IdlePub ELSE [pub[p] EXCEPT !.pc = "mark letter"]]
    /\ UNCHANGED << envelopes, seen, job, work, letters, runs, ended, broken, faults, crashes >>

Disruptable == faults + crashes < MaxDisruptions

\* A sync handler, the cache, the database or the queue throws: publish() rejects.
PublishFails(p) ==
    /\ ~At(p, "idle") /\ Disruptable
    /\ faults' = faults + 1
    /\ broken' = IF EnvOf(p).keyed /\ pub[p].pc \notin {"check", "mark"}
                 THEN broken \cup {EventOf(p)} ELSE broken
    /\ pub' = [pub EXCEPT ![p] = IdlePub]
    /\ UNCHANGED << envelopes, seen, job, work, letters, runs, ended, accepted, crashes >>

-----------------------------------------------------------------------------
(* processJob() *)

WorkAt(w, pc) == work[w].pc = pc
Data(w) == job[work[w].id].env
SetJob(w, op(_)) == job' = [job EXCEPT ![work[w].id].queue = op(@)]

Take(w, j) ==
    /\ WorkAt(w, "idle") /\ job[j].queue.state = "waiting"
    /\ job' = [job EXCEPT ![j].queue.state = "active"]
    /\ work' = [work EXCEPT ![w] = [pc |-> "handle", id |-> j, h |-> 1]]
    /\ UNCHANGED << envelopes, seen, pub, letters, runs, ended, accepted, broken, faults, crashes >>

Run(w) == runs' = [runs EXCEPT ![work[w].id][AsyncHandlers[work[w].h]] = @ + 1]

\* The next handler, the first one again in a retry, returns ...
HandlerReturns(w) ==
    /\ WorkAt(w, "handle") /\ work[w].h <= Len(AsyncHandlers)
    /\ Run(w)
    /\ ended' = [ended EXCEPT ![work[w].id] = @ \cup {AsyncHandlers[work[w].h]}]
    /\ work' = [work EXCEPT ![w].h = @ + 1]
    /\ UNCHANGED << envelopes, seen, pub, job, letters, accepted, broken, faults, crashes >>

\* Mutant of WillRetry: the last attempt counts as one that will be retried.
WillRetryAlways(queue) == queue.failures < Attempts

WillRetry(queue) == queue.failures < Attempts - 1

\* Mutant of HandlerThrows: the error is logged and the next handler runs.
HandlerThrowSwallowed(w) ==
    /\ WorkAt(w, "handle") /\ work[w].h <= Len(AsyncHandlers)
    /\ Run(w)
    /\ work' = [work EXCEPT ![w].h = @ + 1]
    /\ UNCHANGED << envelopes, seen, pub, job, letters, ended, accepted, broken, faults, crashes >>

\* ... or throws: the handlers after it are not run, and the last attempt
\* leaves a dead letter before the job is rejected.
HandlerThrows(w) ==
    /\ WorkAt(w, "handle") /\ work[w].h <= Len(AsyncHandlers)
    /\ Run(w)
    /\ work' = [work EXCEPT ![w].pc = IF WillRetry(job[work[w].id].queue) THEN "throw" ELSE "letter"]
    /\ UNCHANGED << envelopes, seen, pub, job, letters, ended, accepted, broken, faults, crashes >>

CreateLetter(w) ==
    /\ WorkAt(w, "letter")
    /\ letters' = Append(letters, [env |-> Data(w), handler |-> AsyncHandlers[work[w].h], status |-> "pending"])
    /\ work' = [work EXCEPT ![w].pc = "fail"]
    /\ UNCHANGED << envelopes, seen, pub, job, runs, ended, accepted, broken, faults, crashes >>

\* The status update is best effort; then the error goes on to BullMQ.
RejectWork(w) ==
    /\ \/ WorkAt(w, "throw") /\ UNCHANGED envelopes
       \/ WorkAt(w, "fail") /\ envelopes' \in {envelopes, [envelopes EXCEPT ![Data(w)].log = "failed"]}
    /\ SetJob(w, Rejected)
    /\ work' = [work EXCEPT ![w] = IdleWork]
    /\ UNCHANGED << seen, pub, letters, runs, ended, accepted, broken, faults, crashes >>

\* deadLetterRepo.create throws: its error rejects the job instead.
LetterFails(w) ==
    /\ WorkAt(w, "letter") /\ Disruptable
    /\ faults' = faults + 1
    /\ SetJob(w, Rejected)
    /\ work' = [work EXCEPT ![w] = IdleWork]
    /\ UNCHANGED << envelopes, seen, pub, letters, runs, ended, accepted, broken, crashes >>

MarkDispatched(w) ==
    /\ WorkAt(w, "handle") /\ work[w].h > Len(AsyncHandlers)
    /\ envelopes' \in {envelopes, [envelopes EXCEPT ![Data(w)].log = "dispatched"]}
    /\ work' = [work EXCEPT ![w].pc = "return"]
    /\ UNCHANGED << seen, pub, job, letters, runs, ended, accepted, broken, faults, crashes >>

CompleteWork(w) ==
    /\ WorkAt(w, "return")
    /\ SetJob(w, Completed)
    /\ work' = [work EXCEPT ![w] = IdleWork]
    /\ UNCHANGED << envelopes, seen, pub, letters, runs, ended, accepted, broken, faults, crashes >>

Stall(j) ==
    /\ job[j].queue.state = "active" /\ \A w \in Workers : work[w].id # j
    /\ job' = [job EXCEPT ![j].queue = Stalled(@)]
    /\ UNCHANGED << envelopes, seen, pub, work, letters, runs, ended, accepted, broken, faults, crashes >>

-----------------------------------------------------------------------------
(* replay *)

\* replayDeadLetter: a pending letter is published again under a new envelope.
ReplayLetter(p, l) ==
    /\ letters[l].status = "pending"
    /\ Begin(p, envelopes[letters[l].env].event, FALSE, l)
    /\ UNCHANGED << seen, job, work, letters, runs, ended, accepted, broken, faults, crashes >>

MarkReplayed(p) ==
    /\ At(p, "mark letter")
    /\ letters' = [letters EXCEPT ![EnvOf(p).letter].status = "replayed"]
    /\ pub' = [pub EXCEPT ![p] = IdlePub]
    /\ UNCHANGED << envelopes, seen, job, work, runs, ended, accepted, broken, faults, crashes >>

\* discardDeadLetter, whatever the status of the letter.
Discard(l) ==
    /\ letters[l].status # "discarded"
    /\ letters' = [letters EXCEPT ![l].status = "discarded"]
    /\ UNCHANGED << envelopes, seen, pub, job, work, runs, ended, accepted, broken, faults, crashes >>

\* The process dies: publishers and workers are gone, cache, log and queue stay.
Crash ==
    /\ Disruptable
    /\ crashes' = crashes + 1
    /\ broken' = broken \cup {EventOf(p) : p \in {q \in Publishers :
                    pub[q].env # 0 /\ EnvOf(q).keyed /\ pub[q].pc \notin {"check", "mark"}}}
    /\ pub' = [p \in Publishers |-> IdlePub]
    /\ work' = [w \in Workers |-> IdleWork]
    /\ UNCHANGED << envelopes, seen, job, letters, runs, ended, accepted, faults >>

PublishStep(p) ==
    \/ Publish(p) \/ CheckDuplicate(p) \/ MarkSeen(p) \/ PersistLog(p) \/ SyncHandler(p)
    \/ SyncDone(p) \/ Enqueue(p) \/ Resolve(p) \/ PublishFails(p)
    \/ \E l \in DOMAIN letters : ReplayLetter(p, l)
    \/ MarkReplayed(p)

WorkStep(w) ==
    \/ \E j \in JobIds : Take(w, j)
    \/ HandlerReturns(w) \/ HandlerThrows(w) \/ CreateLetter(w) \/ RejectWork(w)
    \/ LetterFails(w) \/ MarkDispatched(w) \/ CompleteWork(w)

Next ==
    \/ \E p \in Publishers : PublishStep(p)
    \/ \E w \in Workers : WorkStep(w)
    \/ \E j \in JobIds : Stall(j)
    \/ \E l \in DOMAIN letters : Discard(l)
    \/ Crash

Spec == Init /\ [][Next]_vars

-----------------------------------------------------------------------------
TypeOK ==
    /\ \A i \in DOMAIN envelopes : /\ envelopes[i].event \in Events /\ envelopes[i].keyed \in BOOLEAN
                                   /\ envelopes[i].log \in {"none", "published", "dispatched", "failed"}
    /\ seen \subseteq KeyedEvents /\ accepted \subseteq Events /\ broken \subseteq KeyedEvents
    /\ \A p \in Publishers : pub[p] # IdlePub => pub[p].env \in DOMAIN envelopes
    /\ \A j \in JobIds : JobTypeOK(job[j].queue) /\ (job[j].env = 0 <=> job[j].queue.state = "none")
    /\ \A w \in Workers : work[w] # IdleWork => job[work[w].id].queue.state = "active"
    /\ \A l \in DOMAIN letters : letters[l].status \in {"pending", "replayed", "discarded"}

HasJob(event) == \E j \in JobIds : job[j].env # 0 /\ envelopes[job[j].env].event = event

InFlight(event) == \E p \in Publishers : pub[p].env # 0 /\ EventOf(p) = event

\* What becomes of a job is told truly: a log entry says dispatched, and a job
\* completes, only when every async handler has returned for it, over however
\* many attempts; a job that used up its attempts left a dead letter, unless
\* the insert of the letter itself failed (a crash before it only delays it).
OutcomesAreTrue ==
    \A j \in JobIds :
        /\ (job[j].queue.state = "completed" \/ (job[j].env # 0 /\ envelopes[job[j].env].log = "dispatched"))
             => ended[j] = HandlersOf
        /\ job[j].queue.failures = Attempts =>
             faults > 0 \/ \E l \in DOMAIN letters : letters[l].env = job[j].env

\* An event with a key runs its async handlers as one job, however publishers
\* race through the check and the mark of the guard: a handler is run once,
\* and once more for every failed attempt or dead worker.
KeyedRunsOnce ==
    \A e \in KeyedEvents : \A h \in HandlersOf :
        /\ runs[e][h] <= 1 + job[e].queue.failures + job[e].queue.stalls
        /\ \A i \in EnvIds : runs[i][h] > 0 /\ envelopes[job[i].env].event = e =>
              ~envelopes[job[i].env].keyed

\* What the bus reports as done is queued: an event whose publish() resolved,
\* as a duplicate too, has a job, is on its way in another call, or was lost by
\* a call that failed after it marked the key; and a dead letter is marked
\* replayed only after its event was enqueued again.
ReportedIsQueued ==
    /\ \A e \in accepted : Async(e) => HasJob(e) \/ InFlight(e) \/ e \in broken
    /\ \A l \in DOMAIN letters : letters[l].status = "replayed" =>
        \E i \in DOMAIN envelopes : envelopes[i].letter = l /\ job[i].env = i
=============================================================================
