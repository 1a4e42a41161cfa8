--------------------------- MODULE WebhookInbound ---------------------------
(***************************************************************************)
(* The ingress half of the webhooks module: requests run through           *)
(* InboundWebhookService.accept (row lookup, signature, cache claim,       *)
(* persist, enqueue) one await at a time and race each other, and a worker *)
(* runs process() for every job that was enqueued.                         *)
(***************************************************************************)
EXTENDS JobQueue, Sequences, FiniteSets

CONSTANTS
    Requests,     \* concurrent HTTP requests
    Deliveries,   \* what the provider sends, possibly several times
    WithId,       \* the deliveries that carry a delivery-id header
    Workers,      \* slots of the inbound worker
    MaxRows,      \* bound: ingress rows
    MaxSent       \* bound: requests the provider sends

ASSUME InboundAssumption ==
    WithId \subseteq Deliveries /\ MaxRows \in Nat /\ MaxSent \in Nat

VARIABLES
    ingress,     \* webhook_ingress_deliveries: rows in order of creation
    claims,      \* cache: deliveries claimed within dedupeTtlSeconds
    inboundJob,  \* row -> its job on webhooks.inbound
    req,         \* request -> [pc, d, row]
    work,        \* worker slot -> [pc, row]
    sent,        \* requests the provider sent
    answered,    \* history: deliveries answered 202 to a correctly signed request
    abandoned,   \* history: rows whose request failed between create and enqueue
    unsigned,    \* history: rows of requests whose signature did not verify
    published    \* history: row -> integration.event publications

inboundVars == << ingress, claims, inboundJob, req, work, sent, answered, abandoned, unsigned, published >>

RowIds == 1 .. MaxRows
IngressRows == DOMAIN ingress
IdleReq == [pc |-> "idle", d |-> "none", row |-> 0]
IdleWork == [pc |-> "idle", row |-> 0]

InboundInit ==
    /\ ingress = << >>
    /\ claims = {}
    /\ inboundJob = [i \in RowIds |-> NoJob]
    /\ req = [r \in Requests |-> IdleReq]
    /\ work = [w \in Workers |-> IdleWork]
    /\ sent = 0
    /\ answered = {}
    /\ abandoned = {}
    /\ unsigned = {}
    /\ published = [i \in RowIds |-> 0]

ReqAt(r, pc) == req[r].pc = pc
ReqGoto(r, pc) == req' = [req EXCEPT ![r].pc = pc]
End(r) == req' = [req EXCEPT ![r] = IdleReq]
WorkAt(w, pc) == work[w].pc = pc
WorkGoto(w, pc) == work' = [work EXCEPT ![w].pc = pc]

\* findIngressByExternalId, and the unique (endpointId, externalId): a NULL id never matches.
RowsOf(d) == {i \in IngressRows : ingress[i].d = d}
Known(d) == d \in WithId /\ RowsOf(d) # {}
SetStatus(i, status) == ingress' = [ingress EXCEPT ![i].status = status]

-----------------------------------------------------------------------------
(* accept() *)

\* A request for a delivery that has a row, of whatever status, is a duplicate.
AcceptDuplicate(r, d, signed) ==
    /\ ReqAt(r, "idle") /\ sent < MaxSent /\ Known(d)
    /\ sent' = sent + 1
    /\ answered' = IF signed THEN answered \cup {d} ELSE answered
    /\ UNCHANGED << ingress, claims, inboundJob, req, work, abandoned, unsigned, published >>

\* The signature is verified before anything is claimed.
AcceptNew(r, d, signed) ==
    /\ ReqAt(r, "idle") /\ sent < MaxSent /\ ~Known(d)
    /\ sent' = sent + 1
    /\ req' = [req EXCEPT ![r] = [pc |-> IF signed THEN "claim" ELSE "reject", d |-> d, row |-> 0]]
    /\ UNCHANGED << ingress, claims, inboundJob, work, answered, abandoned, unsigned, published >>

\* IdempotencyGuard.claim: has() ...
ClaimHas(r) ==
    /\ ReqAt(r, "claim")
    /\ ReqGoto(r, IF req[r].d \in claims THEN "recheck" ELSE "claimSet")
    /\ UNCHANGED << ingress, claims, inboundJob, work, sent, answered, abandoned, unsigned, published >>

\* ... then set().
ClaimSet(r) ==
    /\ ReqAt(r, "claimSet")
    /\ claims' = claims \cup {req[r].d}
    /\ ReqGoto(r, "create")
    /\ UNCHANGED << ingress, inboundJob, work, sent, answered, abandoned, unsigned, published >>

\* Mutant of Recheck: a claimed delivery is a duplicate, row or no row.
RecheckGates(r) ==
    /\ ReqAt(r, "recheck")
    /\ answered' = answered \cup {req[r].d}
    /\ End(r)
    /\ UNCHANGED << ingress, claims, inboundJob, work, sent, abandoned, unsigned, published >>

\* Not the first sighting: a duplicate only when its row is there.
Recheck(r) ==
    /\ ReqAt(r, "recheck")
    /\ \/ Known(req[r].d) /\ End(r) /\ answered' = answered \cup {req[r].d}
       \/ ~Known(req[r].d) /\ ReqGoto(r, "create") /\ UNCHANGED answered
    /\ UNCHANGED << ingress, claims, inboundJob, work, sent, abandoned, unsigned, published >>

\* Mutant of Conflict: no unique index on (endpointId, externalId).
NoConflict(d) == FALSE

Conflict(d) == Known(d)

\* createIngress, by accept or by persistRejected.
Create(r, from, to) ==
    /\ ReqAt(r, from) /\ ~Conflict(req[r].d) /\ Len(ingress) < MaxRows
    /\ ingress' = Append(ingress, [d |-> req[r].d, status |-> "received"])
    /\ req' = [req EXCEPT ![r].pc = to, ![r].row = Len(ingress) + 1]
    /\ unsigned' = IF from = "reject" THEN unsigned \cup {Len(ingress) + 1} ELSE unsigned
    /\ UNCHANGED << claims, inboundJob, work, sent, answered, abandoned, published >>

\* The insert breaks the unique index: accept releases its claim and throws,
\* persistRejected swallows the error.
CreateConflict(r) ==
    /\ Conflict(req[r].d)
    /\ \/ ReqAt(r, "create") /\ ReqGoto(r, "release")
       \/ ReqAt(r, "reject") /\ End(r)
    /\ UNCHANGED << ingress, claims, inboundJob, work, sent, answered, abandoned, unsigned, published >>

MarkVerified(r) ==
    /\ ReqAt(r, "verified")
    /\ SetStatus(req[r].row, "verified")
    /\ ReqGoto(r, "enqueue")
    /\ UNCHANGED << claims, inboundJob, work, sent, answered, abandoned, unsigned, published >>

EnqueueInbound(r) ==
    /\ ReqAt(r, "enqueue")
    /\ inboundJob' = [inboundJob EXCEPT ![req[r].row] = Added(@)]
    /\ answered' = answered \cup {req[r].d}
    /\ End(r)
    /\ UNCHANGED << ingress, claims, work, sent, abandoned, unsigned, published >>

\* updateIngressStatus(rejected) and the failure event; the request ends in a 401.
MarkRejected(r) ==
    /\ ReqAt(r, "rejected")
    /\ SetStatus(req[r].row, "rejected")
    /\ End(r)
    /\ UNCHANGED << claims, inboundJob, work, sent, answered, abandoned, unsigned, published >>

\* The catch block drops the claim (or fails to) and the request ends in a 500.
Release(r) ==
    /\ ReqAt(r, "release")
    /\ claims' \in {claims, claims \ {req[r].d}}
    /\ End(r)
    /\ UNCHANGED << ingress, inboundJob, work, sent, answered, abandoned, unsigned, published >>

\* A call to the cache, the database or the queue throws.
AcceptFails(r) ==
    /\ \/ req[r].pc \in {"claim", "claimSet", "recheck", "reject", "rejected"} /\ End(r)
       \/ req[r].pc \in {"create", "verified", "enqueue"} /\ ReqGoto(r, "release")
    /\ abandoned' = IF req[r].row = 0 THEN abandoned ELSE abandoned \cup {req[r].row}
    /\ UNCHANGED << ingress, claims, inboundJob, work, sent, answered, unsigned, published >>

\* dedupeTtlSeconds pass.
ClaimExpires(d) ==
    /\ d \in claims
    /\ claims' = claims \ {d}
    /\ UNCHANGED << ingress, inboundJob, req, work, sent, answered, abandoned, unsigned, published >>

\* The admin's replay adds the job of a row again.
Replay(i) ==
    /\ inboundJob[i].state = "none"
    /\ inboundJob' = [inboundJob EXCEPT ![i] = Added(@)]
    /\ UNCHANGED << ingress, claims, req, work, sent, answered, abandoned, unsigned, published >>

-----------------------------------------------------------------------------
(* process() *)

TakeInbound(w, i) ==
    /\ WorkAt(w, "idle") /\ inboundJob[i].state = "waiting"
    /\ inboundJob' = [inboundJob EXCEPT ![i].state = "active"]
    /\ work' = [work EXCEPT ![w] = [pc |-> "start", row |-> i]]
    /\ UNCHANGED << ingress, claims, req, sent, answered, abandoned, unsigned, published >>

MarkProcessing(w) ==
    /\ WorkAt(w, "start")
    /\ SetStatus(work[w].row, "processing")
    /\ WorkGoto(w, "publish")
    /\ UNCHANGED << claims, inboundJob, req, sent, answered, abandoned, unsigned, published >>

\* The normalizer answers null for an event it ignores, or an event that goes out.
NormalizeAndPublish(w) ==
    /\ WorkAt(w, "publish")
    /\ published' \in {published, [published EXCEPT ![work[w].row] = @ + 1]}
    /\ WorkGoto(w, "processed")
    /\ UNCHANGED << ingress, claims, inboundJob, req, sent, answered, abandoned, unsigned >>

MarkProcessed(w) ==
    /\ WorkAt(w, "processed")
    /\ SetStatus(work[w].row, "processed")
    /\ WorkGoto(w, "return")
    /\ UNCHANGED << claims, inboundJob, req, sent, answered, abandoned, unsigned, published >>

\* process() returns and BullMQ completes the job.
AckInbound(w) ==
    /\ WorkAt(w, "return")
    /\ inboundJob' = [inboundJob EXCEPT ![work[w].row] = Completed(@)]
    /\ work' = [work EXCEPT ![w] = IdleWork]
    /\ UNCHANGED << ingress, claims, req, sent, answered, abandoned, unsigned, published >>

\* Anything in process() throws: markFailed when it is inside the try (and the
\* database lets it), then the job is rejected.
ProcessFails(w) ==
    /\ work[w].pc \in {"start", "publish", "processed"}
    /\ \/ UNCHANGED ingress
       \/ ~WorkAt(w, "start") /\ SetStatus(work[w].row, "failed")
    /\ inboundJob' = [inboundJob EXCEPT ![work[w].row] = Rejected(@)]
    /\ work' = [work EXCEPT ![w] = IdleWork]
    /\ UNCHANGED << claims, req, sent, answered, abandoned, unsigned, published >>

StallInbound(i) ==
    /\ inboundJob[i].state = "active" /\ \A w \in Workers : work[w].row # i
    /\ inboundJob' = [inboundJob EXCEPT ![i] = Stalled(@)]
    /\ UNCHANGED << ingress, claims, req, work, sent, answered, abandoned, unsigned, published >>

\* Mutant of CrashInbound: the worker is thought to go on after the crash.
CrashInboundKeepsWork ==
    /\ req' = [r \in Requests |-> IdleReq]
    /\ inboundJob' = [i \in RowIds |-> IF inboundJob[i].state = "active" THEN Stalled(inboundJob[i]) ELSE inboundJob[i]]
    /\ UNCHANGED << ingress, claims, work, sent, answered, abandoned, unsigned, published >>

\* The process dies with the requests and the jobs it was working on.
CrashInbound ==
    /\ req' = [r \in Requests |-> IdleReq]
    /\ work' = [w \in Workers |-> IdleWork]
    /\ abandoned' = abandoned \cup {req[r].row : r \in {q \in Requests : req[q].row # 0}}
    /\ UNCHANGED << ingress, claims, inboundJob, sent, answered, unsigned, published >>

AcceptStep(r) ==
    \/ \E d \in Deliveries, signed \in BOOLEAN : AcceptDuplicate(r, d, signed) \/ AcceptNew(r, d, signed)
    \/ ClaimHas(r) \/ ClaimSet(r) \/ Recheck(r)
    \/ Create(r, "create", "verified") \/ Create(r, "reject", "rejected") \/ CreateConflict(r)
    \/ MarkVerified(r) \/ EnqueueInbound(r) \/ MarkRejected(r) \/ Release(r)

ProcessStep(w) ==
    \/ \E i \in IngressRows : TakeInbound(w, i)
    \/ MarkProcessing(w) \/ NormalizeAndPublish(w) \/ MarkProcessed(w) \/ AckInbound(w)

-----------------------------------------------------------------------------
Statuses == {"received", "verified", "rejected", "processing", "processed", "failed"}

InboundTypeOK ==
    /\ \A i \in IngressRows : ingress[i].d \in Deliveries /\ ingress[i].status \in Statuses
    /\ claims \subseteq Deliveries /\ answered \subseteq Deliveries
    /\ \A i \in RowIds : JobTypeOK(inboundJob[i]) /\ (inboundJob[i].state # "none" => i \in IngressRows)
    /\ \A r \in Requests : req[r] # IdleReq => req[r].d \in Deliveries /\ req[r].row \in 0 .. Len(ingress)
    /\ \A w \in Workers : work[w] = IdleWork \/ inboundJob[work[w].row].state = "active"
    /\ abandoned \subseteq IngressRows /\ unsigned \subseteq IngressRows
    /\ published \in [RowIds -> Nat] /\ sent \in Nat

InFlight(d) == \E r \in Requests : req[r].d = d

Queued(d) == \E i \in RowsOf(d) : inboundJob[i].state # "none"

\* A delivery the provider was told is accepted has a job, once its requests
\* are through: the cache claim never drops a delivery, whichever request or
\* release failed.  Two rows stay without one: a row whose request failed
\* after it was created, and that of a request whose signature did not verify;
\* accept answers 202 to a later request for either.
AcceptedIsQueued ==
    \A d \in answered : InFlight(d) \/ Queued(d) \/ RowsOf(d) \cap (abandoned \cup unsigned) # {}

\* What the catch block of accept promises for a signed delivery: a failed step
\* releases the claim "so the provider's retry is not silently dropped".
RetryNotDropped ==
    \A d \in answered : InFlight(d) \/ Queued(d) \/ RowsOf(d) \cap unsigned # {}

\* A delivery with an id is published once, and once more for every attempt
\* of its job that failed or whose worker died: concurrent requests and
\* replays add nothing (the unique index and the job id).
PublishedPerAttempt ==
    \A d \in WithId : \A i, j \in RowsOf(d) :
        /\ published[i] <= 1 + inboundJob[i].failures + inboundJob[i].stalls
        /\ published[i] > 0 /\ published[j] > 0 => i = j
=============================================================================
