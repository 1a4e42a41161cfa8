--------------------------- MODULE WebhookOutbound ---------------------------
(***************************************************************************)
(* The egress half of the webhooks module: OutboundDispatchService makes a *)
(* delivery row and a job for every subscription that matches a domain     *)
(* event, and its worker POSTs the payload until the target takes it, the  *)
(* target refuses it, or the attempts are used up (onExhausted).           *)
(***************************************************************************)
EXTENDS JobQueue, FiniteSets

CONSTANTS
    Subs,       \* enabled subscriptions that match the event
    Senders     \* slots of the outbound worker

VARIABLES
    dispatch,     \* doDispatch of the event: [pc, left, sub]
    outbound,     \* subscription -> its webhook_outbound_deliveries row
    outboundJob,  \* subscription -> the job of that row on webhooks.outbound
    sender,       \* worker slot -> [pc, sub, code]
    exhausting,   \* onExhausted calls under way
    acks,         \* history: subscription -> POSTs its target answered with 2xx
    lost          \* history: subscription -> POSTs whose outcome was never recorded

outboundVars == << dispatch, outbound, outboundJob, sender, exhausting, acks, lost >>

NoSub == "none"
Codes == {"2xx", "4xx", "retry"}     \* retry: 429, 5xx or no answer
IdleSender == [pc |-> "idle", sub |-> NoSub, code |-> "none"]

OutboundInit ==
    /\ dispatch = [pc |-> "wait", left |-> Subs, sub |-> NoSub]
    /\ outbound = [b \in Subs |-> [status |-> "none", attempts |-> 0]]
    /\ outboundJob = [b \in Subs |-> NoJob]
    /\ sender = [n \in Senders |-> IdleSender]
    /\ exhausting = {}
    /\ acks = [b \in Subs |-> 0]
    /\ lost = [b \in Subs |-> 0]

SenderAt(n, pc) == sender[n].pc = pc
RowOf(n) == outbound[sender[n].sub]

-----------------------------------------------------------------------------
\* createOutbound for the next matching subscription.
CreateOutbound(b) ==
    /\ dispatch.pc = "wait" /\ b \in dispatch.left
    /\ outbound' = [outbound EXCEPT ![b].status = "processing"]
    /\ dispatch' = [pc |-> "enqueue", left |-> dispatch.left \ {b}, sub |-> b]
    /\ UNCHANGED << outboundJob, sender, exhausting, acks, lost >>

EnqueueOutbound ==
    /\ dispatch.pc = "enqueue"
    /\ outboundJob' = [outboundJob EXCEPT ![dispatch.sub] = Added(@)]
    /\ dispatch' = [dispatch EXCEPT !.pc = "wait", !.sub = NoSub]
    /\ UNCHANGED << outbound, sender, exhausting, acks, lost >>

\* dispatchForEvent swallows the error, or the process dies: the event is over.
DispatchEnds ==
    /\ dispatch.left # {} \/ dispatch.pc = "enqueue"
    /\ dispatch' = [pc |-> "over", left |-> {}, sub |-> NoSub]
    /\ UNCHANGED << outbound, outboundJob, sender, exhausting, acks, lost >>

-----------------------------------------------------------------------------
TakeOutbound(n, b) ==
    /\ SenderAt(n, "idle") /\ outboundJob[b].state = "waiting"
    /\ outboundJob' = [outboundJob EXCEPT ![b].state = "active"]
    /\ sender' = [sender EXCEPT ![n] = [pc |-> "load", sub |-> b, code |-> "none"]]
    /\ UNCHANGED << dispatch, outbound, exhausting, acks, lost >>

\* Mutant of Load: the status of the row is not looked at.
LoadAny(n) ==
    /\ SenderAt(n, "load")
    /\ sender' = [sender EXCEPT ![n].pc = "post"]
    /\ UNCHANGED << dispatch, outbound, outboundJob, exhausting, acks, lost >>

\* deliver(): a row that was processed is a redundant job.
Load(n) ==
    /\ SenderAt(n, "load")
    /\ sender' = [sender EXCEPT ![n].pc = IF RowOf(n).status = "processed" THEN "return" ELSE "post"]
    /\ UNCHANGED << dispatch, outbound, outboundJob, exhausting, acks, lost >>

Post(n) ==
    /\ SenderAt(n, "post")
    /\ \E code \in Codes :
          /\ sender' = [sender EXCEPT ![n].pc = "record", ![n].code = code]
          /\ acks' = IF code = "2xx" THEN [acks EXCEPT ![sender[n].sub] = @ + 1] ELSE acks
    /\ UNCHANGED << dispatch, outbound, outboundJob, exhausting, lost >>

\* updateOutbound with the outcome: 2xx and 4xx return, anything else throws.
Record(n) ==
    /\ SenderAt(n, "record")
    /\ outbound' = [outbound EXCEPT ![sender[n].sub] =
                       [status |-> IF sender[n].code = "2xx" THEN "processed" ELSE "failed",
                        attempts |-> @.attempts + 1]]
    /\ sender' = [sender EXCEPT ![n].pc = IF sender[n].code = "retry" THEN "throw" ELSE "return"]
    /\ UNCHANGED << dispatch, outboundJob, exhausting, acks, lost >>

AckOutbound(n) ==
    /\ SenderAt(n, "return")
    /\ outboundJob' = [outboundJob EXCEPT ![sender[n].sub] = Completed(@)]
    /\ sender' = [sender EXCEPT ![n] = IdleSender]
    /\ UNCHANGED << dispatch, outbound, exhausting, acks, lost >>

\* Mutant of Exhausted: the worker's `failed` handler waits for one attempt more.
ExhaustedLate(job) == job.failures > Attempts

\* The `failed` handler: job.attemptsMade >= job.opts.attempts.
Exhausted(job) == job.failures >= Attempts

\* The job throws: BullMQ rejects it, and the `failed` handler starts
\* onExhausted (and does not wait for it) when no attempt is left.
Throw(n) ==
    LET b == sender[n].sub
    IN  /\ \/ SenderAt(n, "throw") /\ UNCHANGED lost
           \/ SenderAt(n, "load") /\ UNCHANGED lost
           \/ SenderAt(n, "record") /\ lost' = [lost EXCEPT ![b] = @ + 1]
        /\ outboundJob' = [outboundJob EXCEPT ![b] = Rejected(@)]
        /\ exhausting' = IF Exhausted(outboundJob'[b]) THEN exhausting \cup {b} ELSE exhausting
        /\ sender' = [sender EXCEPT ![n] = IdleSender]
        /\ UNCHANGED << dispatch, outbound, acks >>

\* onExhausted: the row goes to the dead letters unless it was processed.
DeadLetter(b) ==
    /\ b \in exhausting
    /\ exhausting' = exhausting \ {b}
    /\ outbound' = IF outbound[b].status = "processed" THEN outbound
                   ELSE [outbound EXCEPT ![b].status = "dead_lettered"]
    /\ UNCHANGED << dispatch, outboundJob, sender, acks, lost >>

StallOutbound(b) ==
    /\ outboundJob[b].state = "active" /\ \A n \in Senders : sender[n].sub # b
    /\ outboundJob' = [outboundJob EXCEPT ![b] = Stalled(@)]
    /\ UNCHANGED << dispatch, outbound, sender, exhausting, acks, lost >>

\* The process dies: a POST that was not recorded is lost, and so is onExhausted.
CrashOutbound ==
    /\ dispatch' = IF dispatch.pc = "enqueue" \/ dispatch.left # Subs
                   THEN [pc |-> "over", left |-> {}, sub |-> NoSub] ELSE dispatch
    /\ sender' = [n \in Senders |-> IdleSender]
    /\ exhausting' = {}
    /\ lost' = [b \in Subs |-> lost[b] + Cardinality({n \in Senders : sender[n].sub = b /\ SenderAt(n, "record")})]
    /\ UNCHANGED << outbound, outboundJob, acks >>

SendStep(n) ==
    \/ \E b \in Subs : TakeOutbound(n, b)
    \/ Load(n) \/ Post(n) \/ Record(n) \/ AckOutbound(n) \/ Throw(n)

-----------------------------------------------------------------------------
OutboundStatuses == {"none", "processing", "processed", "failed", "dead_lettered"}

OutboundTypeOK ==
    /\ dispatch.pc \in {"wait", "enqueue", "over"} /\ dispatch.left \subseteq Subs
    /\ \A b \in Subs : /\ outbound[b].status \in OutboundStatuses /\ outbound[b].attempts \in Nat
                       /\ JobTypeOK(outboundJob[b])
                       /\ outboundJob[b].state # "none" => outbound[b].status # "none"
    /\ \A n \in Senders : sender[n] = IdleSender \/ outboundJob[sender[n].sub].state = "active"
    /\ exhausting \subseteq Subs
    /\ acks \in [Subs -> Nat] /\ lost \in [Subs -> Nat]

\* A target that took a delivery is not sent it again, unless the outcome of a
\* POST was never recorded: a crash after the row was updated repeats the job,
\* not the POST.
OneAckUnlessLost == \A b \in Subs : acks[b] <= 1 + lost[b]

\* The attempts column counts the POSTs whose outcome was recorded, and a
\* delivery is attempted no more often than the queue allows for failures and
\* for workers that died.
AttemptsBounded == \A b \in Subs : outbound[b].attempts <= Attempts + outboundJob[b].stalls

\* A job that used up its attempts leaves its row processed or dead-lettered
\* once onExhausted ran; only a crash takes that call away.
ExhaustedIsSettled ==
    \A b \in Subs : outboundJob[b].failures = Attempts => b \in exhausting \/ outbound[b].status \in {"processed", "dead_lettered"}
=============================================================================
