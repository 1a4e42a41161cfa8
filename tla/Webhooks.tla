------------------------------ MODULE Webhooks ------------------------------
(***************************************************************************)
(* The webhooks module of one bot process: what the ingress half publishes *)
(* as integration.event is re-broadcast by the egress half, and both die   *)
(* together.                                                               *)
(***************************************************************************)
EXTENDS WebhookInbound, WebhookOutbound

CONSTANTS
    MaxCrashes,   \* bound: crashes of the process
    MaxFaults     \* bound: calls to the database, the cache or the queue that throw

VARIABLES
    crashes,
    faults

vars == << inboundVars, outboundVars, crashes, faults >>

Init == InboundInit /\ OutboundInit /\ crashes = 0 /\ faults = 0

InboundStep ==
    /\ \/ \E r \in Requests : AcceptStep(r)
       \/ \E w \in Workers : ProcessStep(w)
       \/ \E d \in Deliveries : ClaimExpires(d)
       \/ \E i \in IngressRows : Replay(i) \/ StallInbound(i)
    /\ UNCHANGED << outboundVars, crashes, faults >>

\* OutboundTriggerConsumer hands on the first integration.event (bound: the
\* dispatch of the first one is followed).
Trigger == \E i \in RowIds : published[i] > 0

OutboundStep ==
    /\ \/ \E b \in Subs : (Trigger /\ CreateOutbound(b)) \/ DeadLetter(b) \/ StallOutbound(b)
       \/ EnqueueOutbound
       \/ \E n \in Senders : SendStep(n)
    /\ UNCHANGED << inboundVars, crashes, faults >>

Fault ==
    /\ faults < MaxFaults
    /\ faults' = faults + 1
    /\ \/ /\ \/ \E r \in Requests : AcceptFails(r)
             \/ \E w \in Workers : ProcessFails(w)
          /\ UNCHANGED outboundVars
       \/ Trigger /\ DispatchEnds /\ UNCHANGED inboundVars
    /\ UNCHANGED crashes

Crash ==
    /\ crashes < MaxCrashes
    /\ crashes' = crashes + 1
    /\ CrashInbound /\ CrashOutbound
    /\ UNCHANGED faults

Next == InboundStep \/ OutboundStep \/ Fault \/ Crash

Spec == Init /\ [][Next]_vars

TypeOK == InboundTypeOK /\ OutboundTypeOK

\* Without a crash, see ExhaustedIsSettled.
DeadLettersComplete == crashes = 0 => ExhaustedIsSettled
=============================================================================
