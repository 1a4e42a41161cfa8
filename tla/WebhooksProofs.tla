--------------------------- MODULE WebhooksProofs ---------------------------
(***************************************************************************)
(* The egress half of the webhooks module delivers at most once more than  *)
(* it lost the outcome of a POST, attempts no more often than the queue    *)
(* allows, and settles every row whose job used up its attempts; the       *)
(* ingress half gives every delivery it accepts a job and publishes it     *)
(* once per attempt: for any number of requests, rows, workers,            *)
(* subscriptions, attempts, crashes and faults.                            *)
(***************************************************************************)
EXTENDS Webhooks, FiniteSetTheorems, SequenceTheorems, TLAPS

Job == [state : JobStates, failures : Nat, stalls : Nat]
OutboundRow == [status : OutboundStatuses, attempts : Nat]
Slot == [pc : {"idle", "load", "post", "record", "throw", "return"},
         sub : Subs \cup {NoSub}, code : Codes \cup {"none"}]

EgressTyped ==
    /\ dispatch \in [pc : {"wait", "enqueue", "over"}, left : SUBSET Subs, sub : Subs \cup {NoSub}]
    /\ outbound \in [Subs -> OutboundRow]
    /\ outboundJob \in [Subs -> Job]
    /\ sender \in [Senders -> Slot]
    /\ \A n \in Senders : sender[n].pc # "idle" => sender[n].sub \in Subs
    /\ acks \in [Subs -> Nat] /\ lost \in [Subs -> Nat]

(* A job is with one worker at a time, and active while it is. *)
Works(n, b) == sender[n].pc # "idle" /\ sender[n].sub = b

OneSender ==
    /\ \A n \in Senders, b \in Subs : Works(n, b) => outboundJob[b].state = "active"
    /\ \A n, m \in Senders, b \in Subs : Works(n, b) /\ Works(m, b) => n = m

(* What doDispatch has not come to yet has no row and no job. *)
NotStarted ==
    /\ \A b \in dispatch.left : outbound[b].status = "none" /\ outboundJob[b].state = "none"
    /\ dispatch.pc = "enqueue" => dispatch.sub \notin dispatch.left
    /\ \A b \in exhausting : outboundJob[b].state # "none"

(* A POST was answered with 2xx, and the answer is not recorded yet. *)
Answered(b) == \E n \in Senders : Works(n, b) /\ sender[n].pc = "record" /\ sender[n].code = "2xx"

AckInv ==
    \A b \in Subs :
        /\ acks[b] <= 1 + lost[b]
        /\ outbound[b].status = "processed" =>
               \A n \in Senders : Works(n, b) => sender[n].pc \notin {"post", "record"}
        /\ outbound[b].status # "processed" /\ ~Answered(b) => acks[b] <= lost[b]

(* The attempts of a row are those its job counted, and one that it did not
   count yet, or completed with. *)
AttemptInv ==
    \A b \in Subs :
        LET counted == outboundJob[b].failures + outboundJob[b].stalls
        IN  /\ outboundJob[b].failures <= Attempts
            /\ outboundJob[b].state # "failed" => outboundJob[b].failures < Attempts
            /\ outbound[b].attempts <= 1 + counted
            /\ outboundJob[b].state \notin {"active", "completed"} => outbound[b].attempts <= counted
            /\ \A n \in Senders : Works(n, b) /\ sender[n].pc \in {"load", "post", "record"} =>
                   outbound[b].attempts <= counted

EgressInv == EgressTyped /\ OneSender /\ NotStarted /\ AckInv /\ AttemptInv

-----------------------------------------------------------------------------
(* The inductive invariant holds at the start. *)
LEMMA EgressInit == Init => EgressInv
<1> SUFFICES ASSUME Init PROVE EgressInv
    OBVIOUS
<1> USE DEF Init, OutboundInit
<1>1. EgressTyped
    BY DEF EgressTyped, OutboundRow, OutboundStatuses, Job, JobStates, NoJob, IdleSender, NoSub, Codes, Slot
<1>2. OneSender
    BY DEF OneSender, Works, IdleSender
<1>3. NotStarted
    BY DEF NotStarted, NoJob
<1>4. AckInv
    BY DEF AckInv, Works, IdleSender
<1>5. AttemptInv
    BY JobQueueAssumption DEF AttemptInv, Works, IdleSender, NoJob
<1> QED
    BY <1>1, <1>2, <1>3, <1>4, <1>5 DEF EgressInv

(* What the queue does to a job gives a job. *)
LEMMA JobsStayJobs == \A j \in Job :
    /\ Added(j) \in Job /\ Completed(j) \in Job
    /\ Rejected(j) \in Job /\ Stalled(j) \in Job
<1> TAKE j \in Job
<1>1. Added(j) \in Job /\ Completed(j) \in Job
    BY DEF Job, JobStates, Added, Completed
<1>2. ASSUME NEW k \in Nat, NEW l \in Nat, NEW s \in JobStates
      PROVE  /\ [j EXCEPT !.failures = k, !.state = s] \in Job
             /\ [j EXCEPT !.stalls = l, !.state = s] \in Job
    BY DEF Job
<1>3. j.failures + 1 \in Nat /\ j.stalls + 1 \in Nat
    BY DEF Job
<1>4. Rejected(j) \in Job
    BY <1>2, <1>3 DEF JobStates, Rejected
<1>5. Stalled(j) \in Job
    BY <1>2, <1>3 DEF JobStates, Stalled
<1> QED
    BY <1>1, <1>4, <1>5

(* What the code leaves in a worker's variables. *)
LEMMA SlotsStaySlots ==
    /\ IdleSender \in Slot
    /\ \A t \in Slot, p \in {"load", "post", "record", "throw", "return"} : [t EXCEPT !.pc = p] \in Slot
    /\ \A t \in Slot, c \in Codes : [t EXCEPT !.pc = "record", !.code = c] \in Slot
<1>1. IdleSender \in Slot
    BY DEF IdleSender, Slot, NoSub
<1>2. ASSUME NEW t \in Slot, NEW p \in {"load", "post", "record", "throw", "return"}
      PROVE  [t EXCEPT !.pc = p] \in Slot
    BY DEF Slot
<1>3. ASSUME NEW t \in Slot, NEW c \in Codes
      PROVE  [t EXCEPT !.pc = "record", !.code = c] \in Slot
    <2>1. [t EXCEPT !.pc = "record"] \in Slot
        BY DEF Slot
    <2>2. \A u \in Slot : [u EXCEPT !.code = c] \in Slot
        BY DEF Slot
    <2>3. [t EXCEPT !.pc = "record", !.code = c] = [[t EXCEPT !.pc = "record"] EXCEPT !.code = c]
        OBVIOUS
    <2> QED
        BY <2>1, <2>2, <2>3
<1> QED
    BY <1>1, <1>2, <1>3

(* The ingress half does not touch the egress half. *)
LEMMA SameEgress == EgressInv /\ UNCHANGED outboundVars => EgressInv'
    BY DEF EgressInv, outboundVars, EgressTyped, OneSender, NotStarted, AckInv, AttemptInv, Works, Answered

(* One lemma for every action of the egress half. *)
LEMMA CreateStep ==
    ASSUME EgressInv, NEW b \in Subs, CreateOutbound(b)
    PROVE  EgressInv'
<1> USE DEF EgressInv, EgressTyped, CreateOutbound
<1>1. EgressTyped'
    BY DEF OutboundRow, OutboundStatuses, Job, JobStates, Codes
<1>2. OneSender'
    BY DEF OneSender, Works, Job
<1>3. NotStarted'
    BY DEF NotStarted, OneSender, Works, Job, OutboundRow
<1>4. AckInv'
    BY DEF AckInv, Answered, Works, OneSender, NotStarted, OutboundRow, Job
<1>5. AttemptInv'
    BY JobQueueAssumption DEF AttemptInv, OneSender, Works, Job, OutboundRow
<1> QED
    BY <1>1, <1>2, <1>3, <1>4, <1>5

LEMMA EnqueueStep ==
    ASSUME EgressInv, EnqueueOutbound
    PROVE  EgressInv'
<1> USE DEF EgressInv, EgressTyped, EnqueueOutbound, Added, NoSub
<1>1. EgressTyped'
    BY DEF OutboundRow, OutboundStatuses, Job, JobStates, Codes
<1>2. OneSender'
    BY DEF OneSender, Works, Job
<1>3. NotStarted'
    BY DEF NotStarted, OneSender, Works, Job, OutboundRow
<1>4. AckInv'
    BY DEF AckInv, Answered, Works, OneSender, NotStarted, OutboundRow, Job
<1>5. AttemptInv'
    BY JobQueueAssumption DEF AttemptInv, OneSender, Works, Job, OutboundRow
<1> QED
    BY <1>1, <1>2, <1>3, <1>4, <1>5

LEMMA EndStep ==
    ASSUME EgressInv, DispatchEnds
    PROVE  EgressInv'
<1> USE DEF EgressInv, EgressTyped, DispatchEnds, NoSub
<1>1. EgressTyped'
    BY DEF OutboundRow, OutboundStatuses, Job, JobStates, Codes
<1>2. OneSender'
    BY DEF OneSender, Works, Job
<1>3. NotStarted'
    BY DEF NotStarted, OneSender, Works, Job, OutboundRow
<1>4. AckInv'
    BY DEF AckInv, Answered, Works, OneSender, NotStarted, OutboundRow, Job
<1>5. AttemptInv'
    BY JobQueueAssumption DEF AttemptInv, OneSender, Works, Job, OutboundRow
<1> QED
    BY <1>1, <1>2, <1>3, <1>4, <1>5

LEMMA TakeStep ==
    ASSUME EgressInv, NEW n \in Senders, NEW b \in Subs, TakeOutbound(n, b)
    PROVE  EgressInv'
<1> USE DEF EgressInv, EgressTyped, TakeOutbound, SenderAt
<1>1. EgressTyped'
    BY DEF OutboundRow, OutboundStatuses, Job, JobStates, Codes, Slot
<1>2. OneSender'
    BY DEF OneSender, Works, Job
<1>3. NotStarted'
    BY DEF NotStarted, OneSender, Works, Job, OutboundRow
<1>4. AckInv'
    BY DEF AckInv, Answered, Works, OneSender, NotStarted, OutboundRow, Job
<1>5. AttemptInv'
    BY JobQueueAssumption DEF AttemptInv, OneSender, Works, Job, OutboundRow
<1> QED
    BY <1>1, <1>2, <1>3, <1>4, <1>5

LEMMA LoadStep ==
    ASSUME EgressInv, NEW n \in Senders, Load(n)
    PROVE  EgressInv'
<1> USE DEF EgressInv, EgressTyped, Load, SenderAt, RowOf
<1>1. EgressTyped'
    <2>1. \A p \in {"return", "post"} : [sender[n] EXCEPT !.pc = p] \in Slot
        BY SlotsStaySlots
    <2> QED
        BY <2>1
<1>2. OneSender'
    BY DEF OneSender, Works, Job
<1>3. NotStarted'
    BY DEF NotStarted, OneSender, Works, Job, OutboundRow
<1>4. AckInv'
    BY DEF AckInv, Answered, Works, OneSender, NotStarted, OutboundRow, Job
<1>5. AttemptInv'
    BY JobQueueAssumption DEF AttemptInv, OneSender, Works, Job, OutboundRow
<1> QED
    BY <1>1, <1>2, <1>3, <1>4, <1>5

LEMMA PostStep ==
    ASSUME EgressInv, NEW n \in Senders, Post(n)
    PROVE  EgressInv'
<1> USE DEF EgressInv, EgressTyped, Post, SenderAt
<1>0. PICK code \in Codes :
          /\ sender' = [sender EXCEPT ![n].pc = "record", ![n].code = code]
          /\ acks' = IF code = "2xx" THEN [acks EXCEPT ![sender[n].sub] = @ + 1] ELSE acks
    OBVIOUS
<1>1. EgressTyped'
    <2>1. sender[n].sub \in Subs
        OBVIOUS
    <2>2. acks' \in [Subs -> Nat]
        <3>1. CASE code = "2xx"
            BY <1>0, <2>1, <3>1
        <3>2. CASE code # "2xx"
            BY <1>0, <3>2
        <3> QED
            BY <3>1, <3>2
    <2>3. [sender[n] EXCEPT !.pc = "record", !.code = code] \in Slot
        BY SlotsStaySlots
    <2>4. sender' \in [Senders -> Slot]
        BY <1>0, <2>3
    <2> QED
        BY <1>0, <2>2, <2>4
<1>2. OneSender'
    BY <1>0 DEF OneSender, Works
<1>3. NotStarted'
    BY DEF NotStarted, OneSender, Works, Job, OutboundRow
<1>4. AckInv'
    <2> SUFFICES ASSUME NEW b \in Subs
                 PROVE  /\ acks'[b] <= 1 + lost'[b]
                        /\ outbound'[b].status = "processed" =>
                               \A m \in Senders : Works(m, b)' => sender'[m].pc \notin {"post", "record"}
                        /\ outbound'[b].status # "processed" /\ ~Answered(b)' => acks'[b] <= lost'[b]
        BY DEF AckInv
    <2>1. CASE b = sender[n].sub
        <3>1. outbound[b].status # "processed"
            BY <2>1 DEF AckInv, Works
        <3>2. acks[b] <= lost[b]
            BY <2>1, <3>1 DEF AckInv, Answered, OneSender, Works
        <3>3. CASE code = "2xx"
            <4>1. Answered(b)'
                BY <1>0, <2>1, <3>3 DEF Answered, Works
            <4> QED
                BY <1>0, <2>1, <3>1, <3>2, <3>3, <4>1
        <3>4. CASE code # "2xx"
            BY <1>0, <2>1, <3>1, <3>2, <3>4
        <3> QED
            BY <3>3, <3>4
    <2>2. CASE b # sender[n].sub
        <3>1. acks'[b] = acks[b]
            BY <1>0, <2>2
        <3>2. \A m \in Senders : Works(m, b)' => m # n /\ sender'[m] = sender[m]
            BY <1>0, <2>2 DEF Works
        <3>3. Answered(b) => Answered(b)'
            BY <1>0, <2>2 DEF Answered, Works
        <3> QED
            BY <3>1, <3>2, <3>3 DEF AckInv, Works
    <2> QED
        BY <2>1, <2>2
<1>5. AttemptInv'
    BY JobQueueAssumption DEF AttemptInv, OneSender, Works, Job, OutboundRow
<1> QED
    BY <1>1, <1>2, <1>3, <1>4, <1>5

LEMMA RecordStep ==
    ASSUME EgressInv, NEW n \in Senders, Record(n)
    PROVE  EgressInv'
<1> USE DEF EgressInv, EgressTyped, Record, SenderAt
<1>1. EgressTyped'
    BY DEF OutboundRow, OutboundStatuses, Job, JobStates, Codes, Slot
<1>2. OneSender'
    BY DEF OneSender, Works, Job
<1>3. NotStarted'
    BY DEF NotStarted, OneSender, Works, Job, OutboundRow
<1>4. AckInv'
    BY DEF AckInv, Answered, Works, OneSender, NotStarted, OutboundRow, Job
<1>5. AttemptInv'
    BY JobQueueAssumption DEF AttemptInv, OneSender, Works, Job, OutboundRow
<1> QED
    BY <1>1, <1>2, <1>3, <1>4, <1>5

LEMMA AckStep ==
    ASSUME EgressInv, NEW n \in Senders, AckOutbound(n)
    PROVE  EgressInv'
<1> USE DEF EgressInv, EgressTyped, AckOutbound, SenderAt
<1>1. EgressTyped'
    <2>1. outboundJob' \in [Subs -> Job]
        BY JobsStayJobs
    <2>2. sender' \in [Senders -> Slot]
        BY SlotsStaySlots
    <2>3. \A m \in Senders : sender'[m].pc # "idle" => sender'[m].sub \in Subs
        BY DEF IdleSender
    <2> QED
        BY <2>1, <2>2, <2>3
<1> USE DEF Completed, IdleSender, NoSub
<1>2. OneSender'
    BY DEF OneSender, Works, Job
<1>3. NotStarted'
    BY DEF NotStarted, OneSender, Works, Job, OutboundRow
<1>4. AckInv'
    BY DEF AckInv, Answered, Works, OneSender, NotStarted, OutboundRow, Job
<1>5. AttemptInv'
    BY JobQueueAssumption DEF AttemptInv, OneSender, Works, Job, OutboundRow
<1> QED
    BY <1>1, <1>2, <1>3, <1>4, <1>5

LEMMA ThrowStep ==
    ASSUME EgressInv, NEW n \in Senders, Throw(n)
    PROVE  EgressInv'
<1> USE DEF EgressInv, EgressTyped, Throw, SenderAt
<1>1. EgressTyped'
    <2>1. sender[n].sub \in Subs /\ outboundJob[sender[n].sub] \in Job
        OBVIOUS
    <2>2. outboundJob' \in [Subs -> Job]
        BY <2>1, JobsStayJobs
    <2>3. sender' \in [Senders -> Slot]
        BY SlotsStaySlots
    <2>4. \A m \in Senders : sender'[m].pc # "idle" => sender'[m].sub \in Subs
        BY DEF IdleSender
    <2>5. lost' \in [Subs -> Nat]
        BY <2>1
    <2> QED
        BY <2>2, <2>3, <2>4, <2>5
<1> USE DEF Rejected, IdleSender, NoSub
<1>2. OneSender'
    BY DEF OneSender, Works, Job
<1>3. NotStarted'
    BY DEF NotStarted, OneSender, Works, Job, OutboundRow
<1>4. AckInv'
    BY DEF AckInv, Answered, Works, OneSender, NotStarted, OutboundRow, Job
<1>5. AttemptInv'
    BY JobQueueAssumption DEF AttemptInv, OneSender, Works, Job, OutboundRow
<1> QED
    BY <1>1, <1>2, <1>3, <1>4, <1>5

LEMMA LetterStep ==
    ASSUME EgressInv, NEW b \in Subs, DeadLetter(b)
    PROVE  EgressInv'
<1> USE DEF EgressInv, EgressTyped, DeadLetter
<1>1. EgressTyped'
    BY DEF OutboundRow, OutboundStatuses, Job, JobStates, Codes
<1>2. OneSender'
    BY DEF OneSender, Works, Job
<1>3. NotStarted'
    BY DEF NotStarted, OneSender, Works, Job, OutboundRow
<1>4. AckInv'
    BY DEF AckInv, Answered, Works, OneSender, NotStarted, OutboundRow, Job
<1>5. AttemptInv'
    BY JobQueueAssumption DEF AttemptInv, OneSender, Works, Job, OutboundRow
<1> QED
    BY <1>1, <1>2, <1>3, <1>4, <1>5

LEMMA StallStep ==
    ASSUME EgressInv, NEW b \in Subs, StallOutbound(b)
    PROVE  EgressInv'
<1> USE DEF EgressInv, EgressTyped, StallOutbound, Stalled
<1>1. EgressTyped'
    <2>1. Stalled(outboundJob[b]) \in Job
        BY JobsStayJobs
    <2> HIDE DEF Stalled
    <2> QED
        BY <2>1
<1>2. OneSender'
    BY DEF OneSender, Works, Job
<1>3. NotStarted'
    BY DEF NotStarted, OneSender, Works, Job, OutboundRow
<1>4. AckInv'
    BY DEF AckInv, Answered, Works, OneSender, NotStarted, OutboundRow, Job
<1>5. AttemptInv'
    BY JobQueueAssumption DEF AttemptInv, OneSender, Works, Job, OutboundRow
<1> QED
    BY <1>1, <1>2, <1>3, <1>4, <1>5

Recording(b) == {n \in Senders : sender[n].sub = b /\ SenderAt(n, "record")}

(* At most one worker records an outcome, so a crash loses at most one. *)
LEMMA OneRecording ==
    ASSUME EgressInv, NEW b \in Subs
    PROVE  /\ Cardinality(Recording(b)) \in Nat
           /\ Answered(b) => Cardinality(Recording(b)) = 1
<1>1. CASE Recording(b) = {}
    <2>1. Cardinality(Recording(b)) = 0
        BY <1>1, FS_EmptySet
    <2>2. ~Answered(b)
        BY <1>1 DEF Recording, Answered, Works, SenderAt
    <2> QED
        BY <2>1, <2>2
<1>2. CASE Recording(b) # {}
    <2>1. PICK n : n \in Recording(b)
        BY <1>2
    <2>2. Recording(b) = {n}
        BY <2>1 DEF Recording, SenderAt, EgressInv, OneSender, Works
    <2> QED
        BY <2>2, FS_Singleton
<1> QED
    BY <1>1, <1>2

LEMMA CrashStep ==
    ASSUME EgressInv, CrashOutbound
    PROVE  EgressInv'
<1> USE DEF EgressInv, CrashOutbound
<1>0. /\ lost' = [b \in Subs |-> lost[b] + Cardinality(Recording(b))]
      /\ sender' = [n \in Senders |-> IdleSender]
      /\ UNCHANGED << outbound, outboundJob, acks >> /\ exhausting' = {}
    BY DEF Recording
<1>1. EgressTyped'
    <2>1. lost' \in [Subs -> Nat]
        BY <1>0, OneRecording DEF EgressTyped
    <2>2. dispatch' \in [pc : {"wait", "enqueue", "over"}, left : SUBSET Subs, sub : Subs \cup {NoSub}]
        BY DEF EgressTyped
    <2>3. sender' \in [Senders -> Slot]
        BY <1>0, SlotsStaySlots
    <2>4. \A n \in Senders : sender'[n].pc = "idle"
        BY <1>0 DEF IdleSender
    <2> QED
        BY <1>0, <2>1, <2>2, <2>3, <2>4 DEF EgressTyped
<1>2. OneSender'
    BY <1>0 DEF OneSender, Works, IdleSender
<1>3. NotStarted'
    BY <1>0 DEF NotStarted
<1>4. AckInv'
    <2>1. ASSUME NEW b \in Subs
          PROVE  /\ acks'[b] <= 1 + lost'[b]
                 /\ outbound'[b].status # "processed" => acks'[b] <= lost'[b]
        <3>1. /\ acks[b] \in Nat /\ lost[b] \in Nat /\ Cardinality(Recording(b)) \in Nat
              /\ acks'[b] = acks[b] /\ lost'[b] = lost[b] + Cardinality(Recording(b))
              /\ outbound'[b] = outbound[b]
            BY <1>0, OneRecording DEF EgressTyped
        <3>2. acks[b] <= 1 + lost[b]
            BY DEF AckInv
        <3>3. CASE Answered(b)
            <4>1. Cardinality(Recording(b)) = 1
                BY <3>3, OneRecording
            <4> QED
                BY <3>1, <3>2, <4>1
        <3>4. CASE ~Answered(b)
            <4>1. outbound[b].status # "processed" => acks[b] <= lost[b]
                BY <3>4 DEF AckInv
            <4> QED
                BY <3>1, <3>2, <4>1
        <3> QED
            BY <3>3, <3>4
    <2>2. \A n \in Senders, b \in Subs : ~Works(n, b)'
        BY <1>0 DEF Works, IdleSender
    <2> QED
        BY <2>1, <2>2 DEF AckInv
<1>5. AttemptInv'
    BY <1>0 DEF AttemptInv, Works, IdleSender
<1> QED
    BY <1>1, <1>2, <1>3, <1>4, <1>5

-----------------------------------------------------------------------------
(* Every step of the module keeps the inductive invariant. *)
LEMMA EgressStep == EgressInv /\ [Next]_vars => EgressInv'
<1> SUFFICES ASSUME EgressInv, [Next]_vars PROVE EgressInv'
    OBVIOUS
<1>1. CASE InboundStep
    BY <1>1, SameEgress DEF InboundStep
<1>2. CASE OutboundStep
    <2>1. CASE \E b \in Subs : (Trigger /\ CreateOutbound(b)) \/ DeadLetter(b) \/ StallOutbound(b)
        BY <2>1, CreateStep, LetterStep, StallStep
    <2>2. CASE EnqueueOutbound
        BY <2>2, EnqueueStep
    <2>3. CASE \E n \in Senders : SendStep(n)
        BY <2>3, TakeStep, LoadStep, PostStep, RecordStep, AckStep, ThrowStep DEF SendStep
    <2> QED
        BY <1>2, <2>1, <2>2, <2>3 DEF OutboundStep
<1>3. CASE Fault
    BY <1>3, SameEgress, EndStep DEF Fault
<1>4. CASE Crash
    BY <1>4, CrashStep DEF Crash
<1>5. CASE UNCHANGED vars
    BY <1>5, SameEgress DEF vars
<1> QED
    BY <1>1, <1>2, <1>3, <1>4, <1>5 DEF Next

LEMMA EgressInvariant == Spec => []EgressInv
    BY EgressInit, EgressStep, PTL DEF Spec

(* A target is sent a delivery again after it took it only as often as the *)
(* outcome of a POST went unrecorded: deliver() looks at the row first, and *)
(* one worker at a time has the job.                                        *)
THEOREM AcksAreLostOrOne == Spec => []OneAckUnlessLost
<1>1. EgressInv => OneAckUnlessLost
    BY DEF EgressInv, AckInv, OneAckUnlessLost
<1> QED
    BY <1>1, EgressInvariant, PTL

(* updateOutbound adds to the attempts of a row once for each failure or    *)
(* stall the queue counted and once for the job that completed, so the      *)
(* column never passes what the queue allows.                               *)
THEOREM AttemptsStayBounded == Spec => []AttemptsBounded
<1>1. EgressInv => AttemptsBounded
    <2> SUFFICES ASSUME EgressInv, NEW b \in Subs
                 PROVE  outbound[b].attempts <= Attempts + outboundJob[b].stalls
        BY DEF AttemptsBounded
    <2>1. /\ outboundJob[b].failures \in Nat /\ outboundJob[b].stalls \in Nat
          /\ outbound[b].attempts \in Nat
        BY DEF EgressInv, EgressTyped, Job, OutboundRow
    <2>2. /\ outboundJob[b].failures <= Attempts
          /\ outboundJob[b].state # "failed" => outboundJob[b].failures < Attempts
          /\ outbound[b].attempts <= 1 + (outboundJob[b].failures + outboundJob[b].stalls)
          /\ outboundJob[b].state = "failed" =>
                 outbound[b].attempts <= outboundJob[b].failures + outboundJob[b].stalls
        BY DEF EgressInv, AttemptInv
    <2> QED
        BY <2>1, <2>2, JobQueueAssumption
<1> QED
    BY <1>1, EgressInvariant, PTL

-----------------------------------------------------------------------------
(* Dead letters. *)

Settled(b) == outbound[b].status \in {"processed", "dead_lettered"}

\* A row is there before its job; a job that used up its attempts is handed to
\* onExhausted in the step that parks it, and only a crash takes that call away.
LettersInv ==
    /\ exhausting \subseteq Subs
    /\ \A n \in Senders : sender[n].pc = "idle" => sender[n] = IdleSender
    /\ dispatch.pc = "enqueue" => dispatch.sub \in Subs /\ outbound[dispatch.sub].status # "none"
    /\ \A b \in Subs : outboundJob[b].state # "none" => outbound[b].status # "none"
    /\ crashes = 0 => \A b \in Subs : outboundJob[b].failures = Attempts => b \in exhausting \/ Settled(b)
    /\ crashes \in Nat

LEMMA LettersStart == Init => LettersInv
<1> SUFFICES ASSUME Init PROVE LettersInv
    OBVIOUS
<1>1. /\ exhausting = {} /\ crashes = 0 /\ dispatch.pc = "wait"
      /\ \A b \in Subs : outboundJob[b] = NoJob
      /\ \A n \in Senders : sender[n] = IdleSender
    BY DEF Init, OutboundInit
<1>2. NoJob.state = "none" /\ NoJob.failures = 0 /\ Attempts # 0
    BY JobQueueAssumption DEF NoJob
<1> QED
    BY <1>1, <1>2 DEF LettersInv

\* Steps that leave the rows, the jobs and the workers of the egress half alone.
LEMMA LettersSame ==
    ASSUME LettersInv, UNCHANGED << outboundVars, crashes >>
    PROVE  LettersInv'
    BY DEF LettersInv, outboundVars, Settled

LEMMA LettersStep ==
    ASSUME LettersInv, EgressInv, [Next]_vars
    PROVE  LettersInv'
<1>1. EgressTyped /\ OneSender /\ NotStarted /\ AttemptInv /\ Attempts \in Nat \ {0}
    BY JobQueueAssumption DEF EgressInv
<1>2. \A b \in Subs : outboundJob[b] \in Job /\ outbound[b] \in OutboundRow
    BY <1>1 DEF EgressTyped
\* A job that is not parked has attempts left.
<1>3. \A b \in Subs : outboundJob[b].failures = Attempts => outboundJob[b].state = "failed"
    BY <1>1, <1>2 DEF AttemptInv, Job
<1>4. \A n \in Senders : sender[n].pc # "idle" =>
          sender[n].sub \in Subs /\ outboundJob[sender[n].sub].state = "active"
    BY <1>1 DEF EgressTyped, OneSender, Works
<1>5. ASSUME NEW b \in Subs, CreateOutbound(b), UNCHANGED crashes
      PROVE  LettersInv'
    <2>1. outboundJob[b].state = "none"
        BY <1>1, <1>5 DEF NotStarted, CreateOutbound
    <2>2. /\ outbound'[b].status = "processing" /\ \A c \in Subs : c # b => outbound'[c] = outbound[c]
        BY <1>1, <1>2, <1>5 DEF CreateOutbound, EgressTyped, OutboundRow
    <2> QED
        BY <1>3, <1>5, <2>1, <2>2 DEF LettersInv, CreateOutbound, Settled
<1>6. ASSUME EnqueueOutbound, UNCHANGED crashes
      PROVE  LettersInv'
    <2> DEFINE b == dispatch.sub
    <2>1. b \in Subs /\ outbound[b].status # "none"
        BY <1>6 DEF LettersInv, EnqueueOutbound
    <2>2. Added(outboundJob[b]).failures = outboundJob[b].failures
        BY <1>2, <2>1 DEF Added, Job
    <2>3. /\ outboundJob'[b] = Added(outboundJob[b]) /\ \A c \in Subs : c # b => outboundJob'[c] = outboundJob[c]
          /\ dispatch'.pc = "wait"
        BY <1>1, <1>6, <2>1 DEF EnqueueOutbound, EgressTyped
    <2> QED
        BY <1>6, <2>1, <2>2, <2>3 DEF LettersInv, EnqueueOutbound, Settled
<1>7. ASSUME DispatchEnds, UNCHANGED crashes
      PROVE  LettersInv'
    BY <1>7 DEF LettersInv, DispatchEnds, Settled
<1>8. ASSUME NEW n \in Senders, NEW b \in Subs, TakeOutbound(n, b), UNCHANGED crashes
      PROVE  LettersInv'
    <2>1. /\ outboundJob'[b].failures = outboundJob[b].failures /\ outboundJob[b].state # "none"
          /\ \A c \in Subs : c # b => outboundJob'[c] = outboundJob[c]
        BY <1>1, <1>2, <1>8 DEF TakeOutbound, EgressTyped, Job
    <2>2. \A m \in Senders : sender'[m].pc = "idle" => sender'[m] = IdleSender
        BY <1>1, <1>8 DEF TakeOutbound, EgressTyped, LettersInv
    <2> QED
        BY <1>8, <2>1, <2>2 DEF LettersInv, TakeOutbound, Settled
<1>9. ASSUME NEW n \in Senders, Load(n) \/ Post(n), UNCHANGED crashes
      PROVE  LettersInv'
    <2>1. \A m \in Senders : sender'[m].pc = "idle" => sender'[m] = IdleSender
        BY <1>1, <1>9 DEF Load, Post, EgressTyped, LettersInv, Slot
    <2> QED
        BY <1>9, <2>1 DEF LettersInv, Load, Post, Settled
<1>10. ASSUME NEW n \in Senders, Record(n), UNCHANGED crashes
       PROVE  LettersInv'
    <2> DEFINE b == sender[n].sub
    <2>1. b \in Subs /\ outboundJob[b].state = "active"
        BY <1>4, <1>10 DEF Record, SenderAt
    <2>2. outboundJob[b].failures # Attempts
        BY <1>3, <2>1
    <2>3. \A m \in Senders : sender'[m].pc = "idle" => sender'[m] = IdleSender
        BY <1>1, <1>10 DEF Record, EgressTyped, LettersInv, Slot
    <2>4. outbound'[b].status \in {"processed", "failed"} /\ \A c \in Subs : c # b => outbound'[c] = outbound[c]
        BY <1>1, <1>10, <2>1 DEF Record, EgressTyped
    <2> QED
        BY <1>10, <2>2, <2>3, <2>4 DEF LettersInv, Record, Settled, NotStarted
<1>11. ASSUME NEW n \in Senders, AckOutbound(n), UNCHANGED crashes
       PROVE  LettersInv'
    <2> DEFINE b == sender[n].sub
    <2>1. b \in Subs /\ outboundJob[b].state = "active"
        BY <1>4, <1>11 DEF AckOutbound, SenderAt
    <2>2. Completed(outboundJob[b]).failures = outboundJob[b].failures
        BY <1>2, <2>1 DEF Completed, Job
    <2>3. /\ outboundJob'[b] = Completed(outboundJob[b]) /\ \A c \in Subs : c # b => outboundJob'[c] = outboundJob[c]
          /\ \A m \in Senders : sender'[m].pc = "idle" => sender'[m] = IdleSender
        BY <1>1, <1>11, <2>1 DEF AckOutbound, EgressTyped, LettersInv
    <2> QED
        BY <1>11, <2>1, <2>2, <2>3 DEF LettersInv, AckOutbound, Settled
\* The last attempt hands the row to onExhausted.
<1>12. ASSUME NEW n \in Senders, Throw(n), UNCHANGED crashes
       PROVE  LettersInv'
    <2> DEFINE b == sender[n].sub
    <2>1. b \in Subs /\ outboundJob[b].state = "active"
        BY <1>4, <1>12 DEF Throw, SenderAt
    <2>2. /\ outboundJob'[b] = Rejected(outboundJob[b]) /\ \A c \in Subs : c # b => outboundJob'[c] = outboundJob[c]
          /\ \A m \in Senders : sender'[m].pc = "idle" => sender'[m] = IdleSender
        BY <1>1, <1>12, <2>1 DEF Throw, EgressTyped, LettersInv
    <2>3. outboundJob'[b].failures = Attempts => b \in exhausting'
        BY <1>1, <1>12 DEF Throw, Exhausted
    <2>4. exhausting \subseteq exhausting' /\ exhausting' \subseteq Subs
        BY <1>12, <2>1 DEF Throw, LettersInv
    <2>5. UNCHANGED << dispatch, outbound, crashes >>
        BY <1>12 DEF Throw
    <2> QED
        BY <2>1, <2>2, <2>3, <2>4, <2>5 DEF LettersInv, Settled
<1>13. ASSUME NEW b \in Subs, DeadLetter(b), UNCHANGED crashes
       PROVE  LettersInv'
    <2>1. /\ Settled(b)' /\ exhausting' = exhausting \ {b}
          /\ \A c \in Subs : c # b => outbound'[c] = outbound[c]
        BY <1>1, <1>2, <1>13 DEF DeadLetter, EgressTyped, Settled, OutboundRow
    <2>2. UNCHANGED << dispatch, outboundJob, sender, crashes >>
        BY <1>13 DEF DeadLetter
    <2> QED
        BY <2>1, <2>2 DEF LettersInv, Settled
<1>14. ASSUME NEW b \in Subs, StallOutbound(b), UNCHANGED crashes
       PROVE  LettersInv'
    <2>1. Stalled(outboundJob[b]).failures = outboundJob[b].failures
        BY <1>2 DEF Stalled, Job
    <2>2. outboundJob'[b] = Stalled(outboundJob[b]) /\ \A c \in Subs : c # b => outboundJob'[c] = outboundJob[c]
        BY <1>1, <1>14 DEF StallOutbound, EgressTyped
    <2>3. outboundJob[b].state = "active" /\ UNCHANGED << dispatch, outbound, sender, exhausting, crashes >>
        BY <1>14 DEF StallOutbound
    <2> QED
        BY <2>1, <2>2, <2>3 DEF LettersInv, Settled
<1>15. ASSUME Crash
       PROVE  LettersInv'
    <2>1. crashes' \in Nat /\ crashes' # 0
        BY <1>15 DEF Crash, LettersInv
    <2>2. /\ exhausting' = {} /\ UNCHANGED << outbound, outboundJob >>
          /\ \A n \in Senders : sender'[n] = IdleSender
          /\ dispatch'.pc # "enqueue"
        BY <1>1, <1>15 DEF Crash, CrashOutbound, EgressTyped
    <2> QED
        BY <2>1, <2>2 DEF LettersInv
<1>16. CASE OutboundStep
    BY <1>16, <1>5, <1>6, <1>8, <1>9, <1>10, <1>11, <1>12, <1>13, <1>14 DEF OutboundStep, SendStep
<1>17. CASE InboundStep
    BY <1>17, LettersSame DEF InboundStep
<1>18. CASE Fault
    BY <1>18, <1>7, LettersSame DEF Fault
<1>19. CASE UNCHANGED vars
    BY <1>19, LettersSame DEF vars
<1> QED
    BY <1>15, <1>16, <1>17, <1>18, <1>19 DEF Next

LEMMA LettersInvariant == Spec => []LettersInv
<1>1. Init => LettersInv
    BY LettersStart
<1>2. LettersInv /\ EgressInv /\ [Next]_vars => LettersInv'
    BY LettersStep
<1> QED
    BY <1>1, <1>2, EgressInvariant, PTL DEF Spec

\* Without a crash, a row whose job used up its attempts ends up processed or
\* dead-lettered, for any number of subscriptions, workers and attempts.
THEOREM ExhaustedRowsSettle == Spec => []DeadLettersComplete
<1>1. LettersInv => DeadLettersComplete
    BY DEF LettersInv, DeadLettersComplete, ExhaustedIsSettled, Settled
<1> QED
    BY <1>1, LettersInvariant, PTL

-----------------------------------------------------------------------------
(* Ingress.  A row of the ingress table, a request, a worker of the queue. *)
Hook == [d : Deliveries, status : Statuses]
RequestPcs == {"idle", "claim", "claimSet", "recheck", "create", "reject",
               "verified", "enqueue", "rejected", "release"}
WorkPcs == {"idle", "start", "publish", "processed", "return"}

Ask == [pc : RequestPcs, d : Deliveries \cup {"none"}, row : 0 .. MaxRows]
Task == [pc : WorkPcs, row : 0 .. MaxRows]

(* The types of the ingress half. *)
InboundTyped ==
    /\ ingress \in Seq(Hook) /\ Len(ingress) <= MaxRows
    /\ claims \subseteq Deliveries /\ answered \subseteq Deliveries /\ sent \in Nat
    /\ inboundJob \in [RowIds -> Job]
    /\ req \in [Requests -> Ask]
    /\ work \in [Workers -> Task]
    /\ abandoned \subseteq IngressRows /\ unsigned \subseteq IngressRows
    /\ published \in [RowIds -> Nat]

(* Where accept() is, and what it knows there: a row only once it is made. *)
RequestsKnow ==
    \A r \in Requests :
        /\ req[r].pc = "idle" => req[r] = IdleReq
        /\ req[r].pc # "idle" => req[r].d \in Deliveries /\ req[r].row <= Len(ingress)
        /\ req[r].pc \in {"claim", "claimSet", "recheck", "create", "reject"} => req[r].row = 0
        /\ req[r].pc \in {"verified", "enqueue", "rejected"} =>
               req[r].row \in IngressRows /\ ingress[req[r].row].d = req[r].d

(* A job is with one worker at a time, and active while it is. *)
WorksOn(w, i) == work[w].pc # "idle" /\ work[w].row = i

OneWorker ==
    /\ \A w \in Workers : work[w].pc = "idle" => work[w] = IdleWork
    /\ \A w \in Workers : work[w].pc # "idle" => work[w].row \in IngressRows
    /\ \A w \in Workers, i \in RowIds : WorksOn(w, i) => inboundJob[i].state = "active"
    /\ \A w, v \in Workers, i \in RowIds : WorksOn(w, i) /\ WorksOn(v, i) => w = v

(* accept() has not come to enqueue the row's job yet. *)
Underway(i) == \E r \in Requests : req[r].pc \in {"verified", "enqueue"} /\ req[r].row = i

(* Every row has a job, or a request on its way to make one, or is one of those
   accept() gave up. *)
RowsAccounted ==
    /\ \A i \in RowIds : inboundJob[i].state # "none" => i \in IngressRows
    /\ \A i \in IngressRows : inboundJob[i].state # "none" \/ Underway(i) \/ i \in abandoned \cup unsigned
    /\ \A d \in answered : RowsOf(d) # {}

(* The unique (endpointId, externalId). *)
IdsUnique == \A d \in WithId : \A i, j \in RowsOf(d) : i = j

(* The publications of a row are those of the attempts its job counted, and one
   that it did not count yet, or completed with. *)
PublishInv ==
    \A i \in RowIds :
        LET counted == inboundJob[i].failures + inboundJob[i].stalls
        IN  /\ published[i] <= 1 + counted
            /\ inboundJob[i].state \notin {"active", "completed"} => published[i] <= counted
            /\ \A w \in Workers : WorksOn(w, i) /\ work[w].pc \in {"start", "publish"} => published[i] <= counted

InboundInv == InboundTyped /\ RequestsKnow /\ OneWorker /\ RowsAccounted /\ IdsUnique /\ PublishInv

LEMMA AsksStayAsks ==
    /\ IdleReq \in Ask
    /\ \A q \in Ask, p \in RequestPcs :
           /\ [q EXCEPT !.pc = p] \in Ask
           /\ [q EXCEPT !.pc = p].pc = p /\ [q EXCEPT !.pc = p].d = q.d /\ [q EXCEPT !.pc = p].row = q.row
    BY InboundAssumption DEF IdleReq, Ask, RequestPcs

LEMMA TasksStayTasks ==
    /\ IdleWork \in Task
    /\ \A t \in Task, p \in WorkPcs :
           [t EXCEPT !.pc = p] \in Task /\ [t EXCEPT !.pc = p].pc = p /\ [t EXCEPT !.pc = p].row = t.row
    BY InboundAssumption DEF IdleWork, Task, WorkPcs

(* A request that ends, and one that goes on to release its claim. *)
LEMMA EndedRequest ==
    ASSUME InboundTyped, RequestsKnow, NEW r \in Requests, End(r), UNCHANGED ingress
    PROVE  /\ req' \in [Requests -> Ask] /\ RequestsKnow'
           /\ req'[r] = IdleReq /\ \A q \in Requests : q # r => req'[q] = req[q]
<1>1. /\ req' \in [Requests -> Ask]
      /\ req'[r] = IdleReq /\ \A q \in Requests : q # r => req'[q] = req[q]
    BY AsksStayAsks DEF InboundTyped, End
<1>2. RequestsKnow'
    BY <1>1 DEF RequestsKnow, IngressRows, IdleReq
<1> QED
    BY <1>1, <1>2

LEMMA MovedRequest ==
    ASSUME InboundTyped, RequestsKnow, NEW r \in Requests, NEW p \in RequestPcs, ReqGoto(r, p), UNCHANGED ingress,
           req[r].pc # "idle", p = "release" \/ (p = "create" /\ req[r].row = 0)
    PROVE  /\ req' \in [Requests -> Ask] /\ RequestsKnow'
           /\ req'[r].pc = p /\ req'[r].d = req[r].d /\ req'[r].row = req[r].row
           /\ \A q \in Requests : q # r => req'[q] = req[q]
<1>1. /\ req' \in [Requests -> Ask]
      /\ req'[r].pc = p /\ req'[r].d = req[r].d /\ req'[r].row = req[r].row
      /\ \A q \in Requests : q # r => req'[q] = req[q]
    <2>1. req[r] \in Ask /\ req' = [req EXCEPT ![r] = [req[r] EXCEPT !.pc = p]]
        BY DEF InboundTyped, ReqGoto
    <2> QED
        BY <2>1, AsksStayAsks DEF InboundTyped
<1>2. RequestsKnow'
    BY <1>1 DEF RequestsKnow, IngressRows
<1> QED
    BY <1>1, <1>2

LEMMA RowsAreHooks ==
    ASSUME InboundTyped
    PROVE  /\ IngressRows = 1 .. Len(ingress) /\ IngressRows \subseteq RowIds /\ Len(ingress) \in Nat
           /\ \A i \in IngressRows : ingress[i] \in Hook
<1>1. ingress \in Seq(Hook) /\ Len(ingress) \in Nat /\ Len(ingress) <= MaxRows
    BY DEF InboundTyped
<1>2. IngressRows = 1 .. Len(ingress)
    BY <1>1 DEF IngressRows
<1>3. IngressRows \subseteq RowIds
    BY <1>1, <1>2, InboundAssumption DEF RowIds
<1>4. \A i \in 1 .. Len(ingress) : ingress[i] \in Hook
    BY <1>1, ElementOfSeq
<1> QED
    BY <1>1, <1>2, <1>3, <1>4

LEMMA AcceptDuplicateStep ==
    ASSUME InboundInv, NEW r \in Requests, NEW d \in Deliveries, NEW signed \in BOOLEAN, AcceptDuplicate(r, d, signed)
    PROVE  InboundInv'
<1> USE InboundAssumption DEF InboundInv, AcceptDuplicate, ReqAt, Known
<1>1. InboundTyped'
    BY DEF InboundTyped, Job, JobStates, Ask, Task, RequestPcs, WorkPcs, RowIds, IngressRows, IdleReq, IdleWork
<1>2. RequestsKnow'
    BY DEF RequestsKnow, InboundTyped, Ask, IngressRows, IdleReq, RequestPcs
<1>3. OneWorker'
    BY DEF OneWorker, WorksOn, InboundTyped, IngressRows, IdleWork, RowIds, Job, Ask, Task, RequestPcs, WorkPcs
<1>4. RowsAccounted'
    BY DEF RowsAccounted, Underway, RowsOf, Known, RequestsKnow, InboundTyped, IngressRows, RowIds, Job, Ask, RequestPcs, IdleReq, OneWorker
<1>5. IdsUnique'
    BY DEF IdsUnique, RowsOf, IngressRows, InboundTyped
<1>6. PublishInv'
    BY DEF PublishInv, WorksOn, OneWorker, InboundTyped, RowIds, IngressRows, Job, Ask, Task, RequestPcs, WorkPcs, IdleWork
<1> QED
    BY <1>1, <1>2, <1>3, <1>4, <1>5, <1>6

LEMMA AcceptNewStep ==
    ASSUME InboundInv, NEW r \in Requests, NEW d \in Deliveries, NEW signed \in BOOLEAN, AcceptNew(r, d, signed)
    PROVE  InboundInv'
<1> USE InboundAssumption DEF InboundInv, AcceptNew, ReqAt
<1>1. InboundTyped'
    <2>1. [pc |-> IF signed THEN "claim" ELSE "reject", d |-> d, row |-> 0] \in Ask
        BY DEF Ask, RequestPcs
    <2> QED
        BY <2>1 DEF InboundTyped, IngressRows
<1>2. RequestsKnow'
    BY DEF RequestsKnow, InboundTyped, Ask, IngressRows, IdleReq, RequestPcs
<1>3. OneWorker'
    BY DEF OneWorker, WorksOn, InboundTyped, IngressRows, IdleWork, RowIds, Job, Ask, Task, RequestPcs, WorkPcs
<1>4. RowsAccounted'
    BY DEF RowsAccounted, Underway, RowsOf, Known, RequestsKnow, InboundTyped, IngressRows, RowIds, Job, Ask, RequestPcs, IdleReq, OneWorker
<1>5. IdsUnique'
    BY DEF IdsUnique, RowsOf, IngressRows, InboundTyped
<1>6. PublishInv'
    BY DEF PublishInv, WorksOn, OneWorker, InboundTyped, RowIds, IngressRows, Job, Ask, Task, RequestPcs, WorkPcs, IdleWork
<1> QED
    BY <1>1, <1>2, <1>3, <1>4, <1>5, <1>6

LEMMA ClaimHasStep ==
    ASSUME InboundInv, NEW r \in Requests, ClaimHas(r)
    PROVE  InboundInv'
<1> USE InboundAssumption DEF InboundInv, ClaimHas, ReqAt, ReqGoto
<1>1. InboundTyped'
    <2>1. req' \in [Requests -> Ask]
        BY AsksStayAsks DEF InboundTyped, RequestPcs
    <2> QED
        BY <2>1 DEF InboundTyped, IngressRows
<1>2. RequestsKnow'
    BY DEF RequestsKnow, InboundTyped, Ask, IngressRows, IdleReq, RequestPcs
<1>3. OneWorker'
    BY DEF OneWorker, WorksOn, InboundTyped, IngressRows, IdleWork, RowIds, Job, Ask, Task, RequestPcs, WorkPcs
<1>4. RowsAccounted'
    BY DEF RowsAccounted, Underway, RowsOf, Known, RequestsKnow, InboundTyped, IngressRows, RowIds, Job, Ask, RequestPcs, IdleReq, OneWorker
<1>5. IdsUnique'
    BY DEF IdsUnique, RowsOf, IngressRows, InboundTyped
<1>6. PublishInv'
    BY DEF PublishInv, WorksOn, OneWorker, InboundTyped, RowIds, IngressRows, Job, Ask, Task, RequestPcs, WorkPcs, IdleWork
<1> QED
    BY <1>1, <1>2, <1>3, <1>4, <1>5, <1>6

LEMMA ClaimSetStep ==
    ASSUME InboundInv, NEW r \in Requests, ClaimSet(r)
    PROVE  InboundInv'
<1> USE InboundAssumption DEF InboundInv, ClaimSet, ReqAt, ReqGoto
<1>1. InboundTyped'
    <2>1. req' \in [Requests -> Ask]
        BY AsksStayAsks DEF InboundTyped, RequestPcs
    <2>2. claims' \subseteq Deliveries
        BY DEF InboundTyped, RequestsKnow
    <2> QED
        BY <2>1, <2>2 DEF InboundTyped, IngressRows
<1>2. RequestsKnow'
    BY DEF RequestsKnow, InboundTyped, Ask, IngressRows, IdleReq, RequestPcs
<1>3. OneWorker'
    BY DEF OneWorker, WorksOn, InboundTyped, IngressRows, IdleWork, RowIds, Job, Ask, Task, RequestPcs, WorkPcs
<1>4. RowsAccounted'
    BY DEF RowsAccounted, Underway, RowsOf, Known, RequestsKnow, InboundTyped, IngressRows, RowIds, Job, Ask, RequestPcs, IdleReq, OneWorker
<1>5. IdsUnique'
    BY DEF IdsUnique, RowsOf, IngressRows, InboundTyped
<1>6. PublishInv'
    BY DEF PublishInv, WorksOn, OneWorker, InboundTyped, RowIds, IngressRows, Job, Ask, Task, RequestPcs, WorkPcs, IdleWork
<1> QED
    BY <1>1, <1>2, <1>3, <1>4, <1>5, <1>6

LEMMA RecheckStep ==
    ASSUME InboundInv, NEW r \in Requests, Recheck(r)
    PROVE  InboundInv'
<1> USE InboundAssumption DEF InboundInv, Recheck, ReqAt, ReqGoto, End
<1>0. /\ req' \in [Requests -> Ask] /\ RequestsKnow'
      /\ req'[r].pc \notin {"verified", "enqueue"}
      /\ \A q \in Requests : q # r => req'[q] = req[q]
    <2>1. req[r].pc \in {"recheck"}
        OBVIOUS
    <2>2. CASE End(r)
        BY <2>2, EndedRequest DEF IdleReq
    <2>3. CASE ReqGoto(r, "create")
        BY <2>1, <2>3, MovedRequest DEF RequestPcs, RequestsKnow
    <2> QED
        BY <2>2, <2>3
<1>1. InboundTyped'
    BY <1>0 DEF InboundTyped, IngressRows, RequestsKnow
<1>2. RequestsKnow'
    BY <1>0
<1>3. OneWorker'
    BY DEF OneWorker, WorksOn, InboundTyped, IngressRows, IdleWork, RowIds, Job, Ask, Task, RequestPcs, WorkPcs
<1>4. RowsAccounted'
    BY <1>0 DEF RowsAccounted, Underway, RowsOf, IngressRows, Known
<1>5. IdsUnique'
    BY DEF IdsUnique, RowsOf, IngressRows, InboundTyped
<1>6. PublishInv'
    BY DEF PublishInv, WorksOn, OneWorker, InboundTyped, RowIds, IngressRows, Job, Ask, Task, RequestPcs, WorkPcs, IdleWork
<1> QED
    BY <1>1, <1>2, <1>3, <1>4, <1>5, <1>6

LEMMA ConflictStep ==
    ASSUME InboundInv, NEW r \in Requests, CreateConflict(r)
    PROVE  InboundInv'
<1> USE InboundAssumption DEF InboundInv, CreateConflict, ReqAt, ReqGoto, End
<1>0. /\ req' \in [Requests -> Ask] /\ RequestsKnow'
      /\ req'[r].pc \notin {"verified", "enqueue"}
      /\ \A q \in Requests : q # r => req'[q] = req[q]
    <2>1. req[r].pc \in {"create", "reject"}
        OBVIOUS
    <2>2. CASE End(r)
        BY <2>2, EndedRequest DEF IdleReq
    <2>3. CASE ReqGoto(r, "release")
        BY <2>1, <2>3, MovedRequest DEF RequestPcs, RequestsKnow
    <2> QED
        BY <2>2, <2>3
<1>1. InboundTyped'
    BY <1>0 DEF InboundTyped, IngressRows
<1>2. RequestsKnow'
    BY <1>0
<1>3. OneWorker'
    BY DEF OneWorker, WorksOn, InboundTyped, IngressRows, IdleWork, RowIds, Job, Ask, Task, RequestPcs, WorkPcs
<1>4. RowsAccounted'
    BY <1>0 DEF RowsAccounted, Underway, RowsOf, IngressRows, IdleReq
<1>5. IdsUnique'
    BY DEF IdsUnique, RowsOf, IngressRows, InboundTyped
<1>6. PublishInv'
    BY DEF PublishInv, WorksOn, OneWorker, InboundTyped, RowIds, IngressRows, Job, Ask, Task, RequestPcs, WorkPcs, IdleWork
<1> QED
    BY <1>1, <1>2, <1>3, <1>4, <1>5, <1>6

LEMMA EnqueueInboundStep ==
    ASSUME InboundInv, NEW r \in Requests, EnqueueInbound(r)
    PROVE  InboundInv'
<1> USE InboundAssumption DEF InboundInv, EnqueueInbound, ReqAt, ReqGoto, End, Added
<1>1. InboundTyped'
    <2>1. req[r].row \in IngressRows /\ inboundJob[req[r].row] \in Job
        BY DEF RequestsKnow, InboundTyped, IngressRows, RowIds
    <2>2. inboundJob' \in [RowIds -> Job] /\ req' \in [Requests -> Ask]
        BY <2>1, JobsStayJobs, AsksStayAsks DEF InboundTyped, IngressRows, RowIds
    <2> QED
        BY <2>2 DEF InboundTyped, IngressRows, RequestsKnow
<1>2. RequestsKnow'
    BY DEF RequestsKnow, InboundTyped, Ask, IngressRows, IdleReq, RequestPcs
<1>3. OneWorker'
    BY DEF OneWorker, WorksOn, InboundTyped, IngressRows, IdleWork, RowIds, Job, Ask, Task, RequestPcs, WorkPcs
<1>4. RowsAccounted'
    BY DEF RowsAccounted, Underway, RowsOf, Known, RequestsKnow, InboundTyped, IngressRows, RowIds, Job, Ask, RequestPcs, IdleReq, OneWorker
<1>5. IdsUnique'
    BY DEF IdsUnique, RowsOf, IngressRows, InboundTyped
<1>6. PublishInv'
    BY DEF PublishInv, WorksOn, OneWorker, InboundTyped, RowIds, IngressRows, Job, Ask, Task, RequestPcs, WorkPcs, IdleWork
<1> QED
    BY <1>1, <1>2, <1>3, <1>4, <1>5, <1>6

LEMMA ReleaseStep ==
    ASSUME InboundInv, NEW r \in Requests, Release(r)
    PROVE  InboundInv'
<1> USE InboundAssumption DEF InboundInv, ReqAt
<1>a. UNCHANGED << ingress, inboundJob, work, sent, published, unsigned >>
    BY DEF Release
<1>0. /\ req' \in [Requests -> Ask] /\ RequestsKnow'
      /\ req'[r].pc \notin {"verified", "enqueue"}
      /\ \A q \in Requests : q # r => req'[q] = req[q]
    <2>1. req[r].pc # "idle" /\ req[r].pc \in {"release"}
        BY DEF Release
    <2>2. CASE End(r)
        BY <1>a, <2>2, EndedRequest DEF IdleReq
    <2> QED
        BY <2>2 DEF Release
<1>1. InboundTyped'
    BY <1>a, <1>0 DEF Release, InboundTyped, IngressRows
<1>2. RequestsKnow'
    BY <1>0
<1>3. OneWorker'
    BY <1>a DEF OneWorker, WorksOn, InboundTyped, IngressRows, IdleWork, RowIds, Job, Ask, Task, RequestPcs, WorkPcs
<1>4. RowsAccounted'
    BY <1>a, <1>0 DEF Release, RowsAccounted, Underway, RowsOf, IngressRows, IdleReq
<1>5. IdsUnique'
    BY <1>a DEF IdsUnique, RowsOf, IngressRows, InboundTyped
<1>6. PublishInv'
    BY <1>a DEF PublishInv, WorksOn, OneWorker, InboundTyped, RowIds, IngressRows, Job, Ask, Task, RequestPcs, WorkPcs, IdleWork
<1> QED
    BY <1>1, <1>2, <1>3, <1>4, <1>5, <1>6

LEMMA AcceptFailsStep ==
    ASSUME InboundInv, NEW r \in Requests, AcceptFails(r)
    PROVE  InboundInv'
<1> USE InboundAssumption DEF InboundInv, ReqAt
<1>a. UNCHANGED << ingress, inboundJob, work, sent, published, unsigned >>
    BY DEF AcceptFails
<1>0. /\ req' \in [Requests -> Ask] /\ RequestsKnow'
      /\ req'[r].pc \notin {"verified", "enqueue"}
      /\ \A q \in Requests : q # r => req'[q] = req[q]
    <2>1. req[r].pc # "idle" /\ req[r].pc \in {"claim", "claimSet", "recheck", "reject", "rejected", "create", "verified", "enqueue"}
        BY DEF AcceptFails
    <2>2. CASE End(r)
        BY <1>a, <2>2, EndedRequest DEF IdleReq
    <2>3. CASE ReqGoto(r, "release")
        BY <1>a, <2>1, <2>3, MovedRequest DEF RequestPcs
    <2> QED
        BY <2>2, <2>3 DEF AcceptFails
<1>1. InboundTyped'
    <2>1. abandoned' \subseteq IngressRows
        BY DEF AcceptFails, InboundTyped, RequestsKnow, IngressRows, Ask
    <2> QED
        BY <1>a, <1>0, <2>1 DEF AcceptFails, InboundTyped, IngressRows
<1>2. RequestsKnow'
    BY <1>0
<1>3. OneWorker'
    BY <1>a DEF OneWorker, WorksOn, InboundTyped, IngressRows, IdleWork, RowIds, Job, Ask, Task, RequestPcs, WorkPcs
<1>4. RowsAccounted'
    <2>1. \A i \in IngressRows : Underway(i) => Underway(i)' \/ i \in abandoned'
        <3> SUFFICES ASSUME NEW i \in IngressRows, Underway(i), ~Underway(i)' PROVE i \in abandoned'
            OBVIOUS
        <3>1. PICK q \in Requests : req[q].pc \in {"verified", "enqueue"} /\ req[q].row = i
            BY DEF Underway
        <3>2. q = r
            BY <1>0, <3>1 DEF Underway
        <3>3. req[r].row # 0
            BY <3>1, <3>2, RowsAreHooks
        <3> QED
            BY <3>1, <3>2, <3>3 DEF AcceptFails
    <2>2. abandoned \subseteq abandoned' /\ UNCHANGED answered
        BY DEF AcceptFails
    <2> QED
        BY <1>a, <2>1, <2>2 DEF RowsAccounted, RowsOf, IngressRows
<1>5. IdsUnique'
    BY <1>a DEF IdsUnique, RowsOf, IngressRows, InboundTyped
<1>6. PublishInv'
    BY <1>a DEF PublishInv, WorksOn, OneWorker, InboundTyped, RowIds, IngressRows, Job, Ask, Task, RequestPcs, WorkPcs, IdleWork
<1> QED
    BY <1>1, <1>2, <1>3, <1>4, <1>5, <1>6

LEMMA ExpiresStep ==
    ASSUME InboundInv, NEW d \in Deliveries, ClaimExpires(d)
    PROVE  InboundInv'
<1> USE InboundAssumption DEF InboundInv, ClaimExpires
<1>1. InboundTyped'
    BY DEF InboundTyped, Job, JobStates, Ask, Task, RequestPcs, WorkPcs, RowIds, IngressRows, IdleReq, IdleWork
<1>2. RequestsKnow'
    BY DEF RequestsKnow, InboundTyped, Ask, IngressRows, IdleReq, RequestPcs
<1>3. OneWorker'
    BY DEF OneWorker, WorksOn, InboundTyped, IngressRows, IdleWork, RowIds, Job, Ask, Task, RequestPcs, WorkPcs
<1>4. RowsAccounted'
    BY DEF RowsAccounted, Underway, RowsOf, Known, RequestsKnow, InboundTyped, IngressRows, RowIds, Job, Ask, RequestPcs, IdleReq, OneWorker
<1>5. IdsUnique'
    BY DEF IdsUnique, RowsOf, IngressRows, InboundTyped
<1>6. PublishInv'
    BY DEF PublishInv, WorksOn, OneWorker, InboundTyped, RowIds, IngressRows, Job, Ask, Task, RequestPcs, WorkPcs, IdleWork
<1> QED
    BY <1>1, <1>2, <1>3, <1>4, <1>5, <1>6

LEMMA ReplayStep ==
    ASSUME InboundInv, NEW i \in IngressRows, Replay(i)
    PROVE  InboundInv'
<1> USE InboundAssumption DEF InboundInv, Replay, Added
<1>1. InboundTyped'
    <2>1. i \in IngressRows /\ inboundJob[i] \in Job
        BY DEF InboundTyped, IngressRows, RowIds
    <2>2. inboundJob' \in [RowIds -> Job]
        BY <2>1, JobsStayJobs DEF InboundTyped, RowIds
    <2> QED
        BY <2>2 DEF InboundTyped, IngressRows
<1>2. RequestsKnow'
    BY DEF RequestsKnow, InboundTyped, Ask, IngressRows, IdleReq, RequestPcs
<1>3. OneWorker'
    BY DEF OneWorker, WorksOn, InboundTyped, IngressRows, IdleWork, RowIds, Job, Ask, Task, RequestPcs, WorkPcs
<1>4. RowsAccounted'
    BY DEF RowsAccounted, Underway, RowsOf, Known, RequestsKnow, InboundTyped, IngressRows, RowIds, Job, Ask, RequestPcs, IdleReq, OneWorker
<1>5. IdsUnique'
    BY DEF IdsUnique, RowsOf, IngressRows, InboundTyped
<1>6. PublishInv'
    BY DEF PublishInv, WorksOn, OneWorker, InboundTyped, RowIds, IngressRows, Job, Ask, Task, RequestPcs, WorkPcs, IdleWork
<1> QED
    BY <1>1, <1>2, <1>3, <1>4, <1>5, <1>6

LEMMA TakeInboundStep ==
    ASSUME InboundInv, NEW w \in Workers, NEW i \in IngressRows, TakeInbound(w, i)
    PROVE  InboundInv'
<1> USE InboundAssumption DEF InboundInv, TakeInbound, WorkAt
<1>1. InboundTyped'
    <2>0. i \in RowIds /\ inboundJob[i] \in Job
        BY RowsAreHooks DEF InboundTyped
    <2>1. [inboundJob[i] EXCEPT !.state = "active"] \in Job
        BY <2>0 DEF Job, JobStates
    <2>2. [pc |-> "start", row |-> i] \in Task
        BY <2>0 DEF Task, WorkPcs, RowIds
    <2> QED
        BY <2>1, <2>2 DEF InboundTyped, IngressRows
<1>2. RequestsKnow'
    BY DEF RequestsKnow, InboundTyped, Ask, IngressRows, IdleReq, RequestPcs
<1>3. OneWorker'
    BY DEF OneWorker, WorksOn, InboundTyped, IngressRows, IdleWork, RowIds, Job, Ask, Task, RequestPcs, WorkPcs
<1>4. RowsAccounted'
    BY DEF RowsAccounted, Underway, RowsOf, Known, RequestsKnow, InboundTyped, IngressRows, RowIds, Job, Ask, RequestPcs, IdleReq, OneWorker
<1>5. IdsUnique'
    BY DEF IdsUnique, RowsOf, IngressRows, InboundTyped
<1>6. PublishInv'
    BY DEF PublishInv, WorksOn, OneWorker, InboundTyped, RowIds, IngressRows, Job, Ask, Task, RequestPcs, WorkPcs, IdleWork
<1> QED
    BY <1>1, <1>2, <1>3, <1>4, <1>5, <1>6

LEMMA PublishStep ==
    ASSUME InboundInv, NEW w \in Workers, NormalizeAndPublish(w)
    PROVE  InboundInv'
<1> USE InboundAssumption DEF InboundInv, NormalizeAndPublish, WorkAt, WorkGoto
<1>1. InboundTyped'
    BY DEF InboundTyped, Job, JobStates, Ask, Task, RequestPcs, WorkPcs, RowIds, IngressRows, IdleReq, IdleWork
<1>2. RequestsKnow'
    BY DEF RequestsKnow, InboundTyped, Ask, IngressRows, IdleReq, RequestPcs
<1>3. OneWorker'
    <2>1. /\ \A v \in Workers : WorksOn(v, work[v].row)' => WorksOn(v, work[v].row)
          /\ \A v \in Workers : work'[v].row = work[v].row /\ (work'[v].pc = "idle" <=> work[v].pc = "idle")
          /\ work'[w].pc = "processed" /\ \A v \in Workers : v # w => work'[v] = work[v]
        BY DEF InboundTyped, Task, WorksOn
    <2> QED
        BY <2>1 DEF OneWorker, WorksOn, IngressRows
<1>4. RowsAccounted'
    BY DEF RowsAccounted, Underway, RowsOf, Known, RequestsKnow, InboundTyped, IngressRows, RowIds, Job, Ask, RequestPcs, IdleReq, OneWorker
<1>5. IdsUnique'
    BY DEF IdsUnique, RowsOf, IngressRows, InboundTyped
<1>6. PublishInv'
    <2>1. PICK i \in IngressRows : i = work[w].row
        BY DEF OneWorker
    <2>2. /\ \A v \in Workers : v # w => work'[v] = work[v]
          /\ work'[w].pc = "processed"
          /\ \A k \in RowIds : k # i => published'[k] = published[k]
          /\ published'[i] \in {published[i], published[i] + 1}
        BY <2>1 DEF InboundTyped, Task, IngressRows, RowIds
    <2>3. i \in RowIds /\ WorksOn(w, i)
        BY <2>1 DEF WorksOn, InboundTyped, IngressRows, RowIds
    <2>4. inboundJob[i].state = "active" /\ \A v \in Workers : WorksOn(v, i) => v = w
        BY <2>3 DEF OneWorker
    <2>5. published[i] <= inboundJob[i].failures + inboundJob[i].stalls
        BY <2>3 DEF PublishInv
    <2>6. /\ published[i] \in Nat /\ inboundJob[i].failures \in Nat /\ inboundJob[i].stalls \in Nat
          /\ published'[i] <= 1 + (inboundJob[i].failures + inboundJob[i].stalls)
        BY <2>2, <2>3, <2>5 DEF InboundTyped, Job
    <2> QED
        BY <2>2, <2>4, <2>6 DEF PublishInv, WorksOn
<1> QED
    BY <1>1, <1>2, <1>3, <1>4, <1>5, <1>6

LEMMA AckInboundStep ==
    ASSUME InboundInv, NEW w \in Workers, AckInbound(w)
    PROVE  InboundInv'
<1> USE InboundAssumption DEF InboundInv, AckInbound, WorkAt, Completed
<1>1. InboundTyped'
    <2>1. work[w].row \in IngressRows /\ inboundJob[work[w].row] \in Job
        BY DEF OneWorker, InboundTyped, IngressRows, RowIds
    <2>2. inboundJob' \in [RowIds -> Job] /\ work' \in [Workers -> Task]
        BY <2>1, JobsStayJobs, TasksStayTasks DEF InboundTyped, IngressRows, RowIds
    <2> QED
        BY <2>2 DEF InboundTyped, IngressRows
<1>2. RequestsKnow'
    BY DEF RequestsKnow, InboundTyped, Ask, IngressRows, IdleReq, RequestPcs
<1>3. OneWorker'
    BY DEF OneWorker, WorksOn, InboundTyped, IngressRows, IdleWork, RowIds, Job, Ask, Task, RequestPcs, WorkPcs
<1>4. RowsAccounted'
    <2>1. PICK k \in IngressRows : k = work[w].row
        BY DEF OneWorker
    <2>2. \A i \in RowIds : inboundJob'[i].state # "none" <=> inboundJob[i].state # "none"
        <3>1. WorksOn(w, k) /\ k \in RowIds
            BY <2>1, RowsAreHooks DEF WorksOn
        <3>2. inboundJob[k].state = "active" /\ inboundJob'[k].state = "completed"
            BY <2>1, <3>1 DEF OneWorker, InboundTyped, Job
        <3>3. \A i \in RowIds : i # k => inboundJob'[i] = inboundJob[i]
            BY <2>1 DEF InboundTyped
        <3> QED
            BY <3>2, <3>3
    <2>3. UNCHANGED << ingress, req, answered, abandoned, unsigned >>
        OBVIOUS
    <2> HIDE DEF AckInbound
    <2> QED
        BY <2>2, <2>3, RowsAreHooks DEF RowsAccounted, Underway, RowsOf, IngressRows
<1>5. IdsUnique'
    BY DEF IdsUnique, RowsOf, IngressRows, InboundTyped
<1>6. PublishInv'
    BY DEF PublishInv, WorksOn, OneWorker, InboundTyped, RowIds, IngressRows, Job, Ask, Task, RequestPcs, WorkPcs, IdleWork
<1> QED
    BY <1>1, <1>2, <1>3, <1>4, <1>5, <1>6

LEMMA StallInboundStep ==
    ASSUME InboundInv, NEW i \in IngressRows, StallInbound(i)
    PROVE  InboundInv'
<1> USE InboundAssumption DEF InboundInv, StallInbound, Stalled
<1>1. InboundTyped'
    <2>1. i \in IngressRows /\ inboundJob[i] \in Job
        BY DEF InboundTyped, IngressRows, RowIds
    <2>2. inboundJob' \in [RowIds -> Job]
        BY <2>1, JobsStayJobs DEF InboundTyped, RowIds
    <2> QED
        BY <2>2 DEF InboundTyped, IngressRows
<1>2. RequestsKnow'
    BY DEF RequestsKnow, InboundTyped, Ask, IngressRows, IdleReq, RequestPcs
<1>3. OneWorker'
    BY DEF OneWorker, WorksOn, InboundTyped, IngressRows, IdleWork, RowIds, Job, Ask, Task, RequestPcs, WorkPcs
<1>4. RowsAccounted'
    BY DEF RowsAccounted, Underway, RowsOf, Known, RequestsKnow, InboundTyped, IngressRows, RowIds, Job, Ask, RequestPcs, IdleReq, OneWorker
<1>5. IdsUnique'
    BY DEF IdsUnique, RowsOf, IngressRows, InboundTyped
<1>6. PublishInv'
    BY DEF PublishInv, WorksOn, OneWorker, InboundTyped, RowIds, IngressRows, Job, Ask, Task, RequestPcs, WorkPcs, IdleWork
<1> QED
    BY <1>1, <1>2, <1>3, <1>4, <1>5, <1>6

LEMMA CrashInboundStep ==
    ASSUME InboundInv, CrashInbound
    PROVE  InboundInv'
<1> USE InboundAssumption DEF InboundInv, CrashInbound
<1>1. InboundTyped'
    <2>1. req' \in [Requests -> Ask] /\ work' \in [Workers -> Task]
        BY AsksStayAsks, TasksStayTasks
    <2>2. abandoned' \subseteq IngressRows
        BY DEF InboundTyped, RequestsKnow, IngressRows, Ask, IdleReq
    <2> QED
        BY <2>1, <2>2 DEF InboundTyped, IngressRows
<1>2. RequestsKnow'
    BY DEF RequestsKnow, InboundTyped, Ask, IngressRows, IdleReq, RequestPcs
<1>3. OneWorker'
    BY DEF OneWorker, WorksOn, InboundTyped, IngressRows, IdleWork, RowIds, Job, Ask, Task, RequestPcs, WorkPcs
<1>4. RowsAccounted'
    <2>1. \A i \in IngressRows : Underway(i) => i \in abandoned'
        <3> SUFFICES ASSUME NEW i \in IngressRows, Underway(i) PROVE i \in abandoned'
            OBVIOUS
        <3>1. PICK q \in Requests : req[q].row = i
            BY DEF Underway
        <3>2. req[q].row # 0
            BY <3>1, RowsAreHooks
        <3> QED
            BY <3>1, <3>2
    <2>2. abandoned \subseteq abandoned' /\ UNCHANGED << ingress, inboundJob, answered, unsigned >>
        OBVIOUS
    <2> HIDE DEF CrashInbound
    <2> QED
        BY <2>1, <2>2 DEF RowsAccounted, RowsOf, IngressRows
<1>5. IdsUnique'
    BY DEF IdsUnique, RowsOf, IngressRows, InboundTyped
<1>6. PublishInv'
    BY DEF PublishInv, WorksOn, OneWorker, InboundTyped, RowIds, IngressRows, Job, Ask, Task, RequestPcs, WorkPcs, IdleWork
<1> QED
    BY <1>1, <1>2, <1>3, <1>4, <1>5, <1>6


(* A step that changes the status of a row leaves the rows' deliveries alone. *)
LEMMA StatusKeepsRows ==
    ASSUME InboundTyped, NEW i \in IngressRows, NEW status \in Statuses, SetStatus(i, status)
    PROVE  /\ ingress' \in Seq(Hook) /\ Len(ingress') = Len(ingress) /\ IngressRows' = IngressRows
           /\ \A k \in IngressRows : ingress'[k].d = ingress[k].d
           /\ \A d : RowsOf(d)' = RowsOf(d)
<1>1. [ingress[i] EXCEPT !.status = status] \in Hook /\ [ingress[i] EXCEPT !.status = status].d = ingress[i].d
    <2>1. ingress[i] \in Hook
        BY RowsAreHooks
    <2> QED
        BY <2>1 DEF Hook
<1>2. ingress' \in Seq(Hook) /\ Len(ingress') = Len(ingress) /\ IngressRows' = IngressRows
    BY <1>1 DEF InboundTyped, SetStatus, IngressRows
<1>3. \A k \in IngressRows : ingress'[k].d = ingress[k].d
    BY <1>1 DEF InboundTyped, SetStatus, IngressRows
<1>4. \A d : RowsOf(d)' = RowsOf(d)
    BY <1>2, <1>3 DEF RowsOf
<1> QED
    BY <1>2, <1>3, <1>4

(* A row is made: the next one. *)
LEMMA CreateAddsRow ==
    ASSUME InboundTyped, Len(ingress) < MaxRows,
           NEW e \in Deliveries, ingress' = Append(ingress, [d |-> e, status |-> "received"])
    PROVE  /\ ingress' \in Seq(Hook) /\ Len(ingress') = Len(ingress) + 1
           /\ IngressRows' = IngressRows \cup {Len(ingress) + 1}
           /\ \A k \in IngressRows : ingress'[k] = ingress[k]
           /\ ingress'[Len(ingress) + 1].d = e
           /\ Len(ingress) + 1 \notin IngressRows /\ Len(ingress) + 1 \in RowIds
<1>1. ingress \in Seq(Hook) /\ [d |-> e, status |-> "received"] \in Hook
    BY DEF InboundTyped, Hook, Statuses
<1> QED
    BY <1>1, InboundAssumption DEF InboundTyped, IngressRows, RowIds

LEMMA CreateRowStep ==
    ASSUME InboundInv, NEW r \in Requests, NEW from, NEW to, Create(r, from, to),
           (from = "create" /\ to = "verified") \/ (from = "reject" /\ to = "rejected")
    PROVE  InboundInv'
<1> PICK k : k = Len(ingress) + 1
    OBVIOUS
<1> USE DEF InboundInv
<1>1. /\ req[r].pc = from /\ req[r].d \in Deliveries /\ req[r] \in Ask
      /\ ~Known(req[r].d) /\ UNCHANGED << claims, inboundJob, work, sent, answered, abandoned, published >>
      /\ unsigned' = IF from = "reject" THEN unsigned \cup {k} ELSE unsigned
      /\ to \in RequestPcs
    BY DEF Create, ReqAt, Conflict, RequestsKnow, InboundTyped, RequestPcs
<1>2. /\ ingress' \in Seq(Hook) /\ Len(ingress') = k
      /\ IngressRows' = IngressRows \cup {k}
      /\ \A i \in IngressRows : ingress'[i] = ingress[i]
      /\ ingress'[k].d = req[r].d
      /\ k \notin IngressRows /\ k \in RowIds
    BY <1>1, CreateAddsRow DEF Create
<1>3. /\ req' \in [Requests -> Ask]
      /\ req'[r].pc = to /\ req'[r].d = req[r].d /\ req'[r].row = k
      /\ \A q \in Requests : q # r => req'[q] = req[q]
    <2>1. k \in 0 .. MaxRows
        BY <1>2, InboundAssumption DEF RowIds
    <2>2. req' = [req EXCEPT ![r].pc = to, ![r].row = k]
        BY DEF Create
    <2>3. to \in RequestPcs /\ InboundTyped
        BY <1>1
    <2> DEFINE u == [req EXCEPT ![r].pc = to]
    <2>4. u \in [Requests -> Ask] /\ u[r].pc = to /\ u[r].d = req[r].d /\ \A q \in Requests : q # r => u[q] = req[q]
        <3>1. req[r] \in Ask /\ u = [req EXCEPT ![r] = [req[r] EXCEPT !.pc = to]]
            BY DEF InboundTyped
        <3> HIDE DEF u
        <3> QED
            BY <2>3, <3>1, AsksStayAsks DEF InboundTyped
    <2>5. req' = [u EXCEPT ![r].row = k]
        BY <2>2
    <2> HIDE DEF u
    <2>6. u[r] \in Ask
        BY <2>4
    <2>7. [u[r] EXCEPT !.row = k] \in Ask /\ [u[r] EXCEPT !.row = k].pc = u[r].pc
          /\ [u[r] EXCEPT !.row = k].d = u[r].d /\ [u[r] EXCEPT !.row = k].row = k
        BY <2>1, <2>6 DEF Ask
    <2>8. req' = [u EXCEPT ![r] = [u[r] EXCEPT !.row = k]]
        BY <2>5
    <2> QED
        BY <2>4, <2>7, <2>8
<1>4. Len(ingress) \in Nat /\ k \in Nat /\ k <= MaxRows /\ IngressRows = 1 .. Len(ingress)
    BY <1>2, InboundAssumption DEF InboundTyped, IngressRows, RowIds
<1>5. \A e : e # req[r].d => RowsOf(e)' = RowsOf(e)
    BY <1>2 DEF RowsOf
<1>6. \A e : RowsOf(e) \subseteq RowsOf(e)'
    BY <1>2 DEF RowsOf
<1>7. InboundTyped'
    <2>1. /\ ingress' \in Seq(Hook) /\ Len(ingress') <= MaxRows
          /\ req' \in [Requests -> Ask]
        BY <1>2, <1>3, <1>4
    <2>2. abandoned' \subseteq IngressRows' /\ unsigned' \subseteq IngressRows'
        BY <1>1, <1>2 DEF InboundTyped
    <2> QED
        BY <1>1, <2>1, <2>2 DEF InboundTyped
<1>8. RequestsKnow'
    <2> SUFFICES ASSUME NEW q \in Requests
                 PROVE  /\ req'[q].pc = "idle" => req'[q] = IdleReq
                        /\ req'[q].pc # "idle" => req'[q].d \in Deliveries /\ req'[q].row <= Len(ingress')
                        /\ req'[q].pc \in {"claim", "claimSet", "recheck", "create", "reject"} => req'[q].row = 0
                        /\ req'[q].pc \in {"verified", "enqueue", "rejected"} =>
                               req'[q].row \in IngressRows' /\ ingress'[req'[q].row].d = req'[q].d
        BY DEF RequestsKnow
    <2>1. CASE q = r
        BY <1>1, <1>2, <1>3, <1>4, <2>1
    <2>2. CASE q # r
        <3>1. req'[q] = req[q] /\ req[q].row \in Nat
            BY <1>3, <2>2 DEF InboundTyped, Ask
        <3>2. req[q].row <= Len(ingress) => req[q].row <= Len(ingress')
            BY <1>2, <1>4, <3>1
        <3> QED
            BY <1>2, <3>1, <3>2 DEF RequestsKnow
    <2> QED
        BY <2>1, <2>2
<1>9. OneWorker'
    BY <1>1, <1>2 DEF OneWorker, WorksOn
<1>10. RowsAccounted'
    <2>1. \A i \in RowIds : inboundJob'[i].state # "none" => i \in IngressRows'
        BY <1>1, <1>2 DEF RowsAccounted
    <2>2. \A i \in IngressRows : Underway(i) => Underway(i)'
        BY <1>1, <1>3 DEF Underway
    <2>3. Underway(k)' \/ k \in unsigned'
        <3>1. CASE from = "reject"
            BY <1>1, <3>1
        <3>2. CASE from = "create"
            BY <1>3, <3>2 DEF Underway
        <3> QED
            BY <3>1, <3>2
    <2>4. \A i \in IngressRows' : inboundJob'[i].state # "none" \/ Underway(i)' \/ i \in abandoned' \cup unsigned'
        BY <1>1, <1>2, <2>2, <2>3 DEF RowsAccounted
    <2>5. \A d \in answered' : RowsOf(d)' # {}
        BY <1>1, <1>6 DEF RowsAccounted
    <2> QED
        BY <2>1, <2>4, <2>5 DEF RowsAccounted
<1>11. IdsUnique'
    <2> SUFFICES ASSUME NEW d \in WithId, NEW i \in RowsOf(d)', NEW j \in RowsOf(d)'
                 PROVE  i = j
        BY DEF IdsUnique
    <2>1. CASE d = req[r].d
        <3>1. RowsOf(d) = {}
            BY <1>1, <2>1 DEF Known
        <3>2. RowsOf(d)' \subseteq RowsOf(d) \cup {k}
            BY <1>2 DEF RowsOf
        <3> QED
            BY <3>1, <3>2
    <2>2. CASE d # req[r].d
        BY <1>5, <2>2 DEF IdsUnique
    <2> QED
        BY <2>1, <2>2
<1>12. PublishInv'
    BY <1>1 DEF PublishInv, WorksOn
<1> QED
    BY <1>7, <1>8, <1>9, <1>10, <1>11, <1>12

(* What a step of a request that updates its row leaves as it was. *)
LEMMA MarkVerifiedStep ==
    ASSUME InboundInv, NEW r \in Requests, MarkVerified(r)
    PROVE  InboundInv'
<1> USE InboundAssumption DEF InboundInv
<1>0. /\ req[r].pc = "verified" /\ req[r].row \in IngressRows /\ req[r] \in Ask
      /\ SetStatus(req[r].row, "verified")
      /\ UNCHANGED << claims, inboundJob, work, sent, answered, abandoned, unsigned, published >>
    BY DEF MarkVerified, ReqAt, RequestsKnow, InboundTyped
<1>1. /\ ingress' \in Seq(Hook) /\ Len(ingress') = Len(ingress) /\ IngressRows' = IngressRows
      /\ \A k \in IngressRows : ingress'[k].d = ingress[k].d
      /\ \A d : RowsOf(d)' = RowsOf(d)
    BY <1>0, StatusKeepsRows DEF Statuses
<1>2. /\ req' \in [Requests -> Ask]
      /\ req'[r].pc = "enqueue" /\ req'[r].d = req[r].d /\ req'[r].row = req[r].row
      /\ \A q \in Requests : q # r => req'[q] = req[q]
    <2>1. "enqueue" \in RequestPcs
        BY DEF RequestPcs
    <2> QED
        BY <1>0, <2>1, AsksStayAsks DEF MarkVerified, ReqGoto, InboundTyped
<1>3. InboundTyped'
    BY <1>0, <1>1, <1>2 DEF InboundTyped
<1>4. RequestsKnow'
    BY <1>0, <1>1, <1>2 DEF RequestsKnow
<1>5. OneWorker'
    BY <1>0, <1>1 DEF OneWorker, WorksOn
<1>6. RowsAccounted'
    <2>1. \A i : Underway(i) => Underway(i)'
        BY <1>2 DEF Underway
    <2> QED
        BY <1>0, <1>1, <2>1 DEF RowsAccounted
<1>7. IdsUnique'
    BY <1>1 DEF IdsUnique
<1>8. PublishInv'
    BY <1>0 DEF PublishInv, WorksOn
<1> QED
    BY <1>3, <1>4, <1>5, <1>6, <1>7, <1>8

LEMMA MarkRejectedStep ==
    ASSUME InboundInv, NEW r \in Requests, MarkRejected(r)
    PROVE  InboundInv'
<1> USE InboundAssumption DEF InboundInv
<1>0. /\ req[r].pc = "rejected" /\ req[r].row \in IngressRows /\ req[r] \in Ask
      /\ SetStatus(req[r].row, "rejected")
      /\ UNCHANGED << claims, inboundJob, work, sent, answered, abandoned, unsigned, published >>
    BY DEF MarkRejected, ReqAt, RequestsKnow, InboundTyped
<1>1. /\ ingress' \in Seq(Hook) /\ Len(ingress') = Len(ingress) /\ IngressRows' = IngressRows
      /\ \A k \in IngressRows : ingress'[k].d = ingress[k].d
      /\ \A d : RowsOf(d)' = RowsOf(d)
    BY <1>0, StatusKeepsRows DEF Statuses
<1>2. /\ req' \in [Requests -> Ask]
      /\ req'[r] = IdleReq
      /\ \A q \in Requests : q # r => req'[q] = req[q]
    BY AsksStayAsks DEF MarkRejected, End, InboundTyped
<1>3. InboundTyped'
    BY <1>0, <1>1, <1>2 DEF InboundTyped
<1>4. RequestsKnow'
    BY <1>1, <1>2 DEF RequestsKnow, IdleReq
<1>5. OneWorker'
    BY <1>0, <1>1 DEF OneWorker, WorksOn
<1>6. RowsAccounted'
    <2>1. \A i : Underway(i) => Underway(i)'
        BY <1>0, <1>2 DEF Underway
    <2> QED
        BY <1>0, <1>1, <2>1 DEF RowsAccounted
<1>7. IdsUnique'
    BY <1>1 DEF IdsUnique
<1>8. PublishInv'
    BY <1>0 DEF PublishInv, WorksOn
<1> QED
    BY <1>3, <1>4, <1>5, <1>6, <1>7, <1>8

(* process() updates the row of the job it works on. *)
LEMMA MarkStep ==
    ASSUME InboundInv, NEW w \in Workers, MarkProcessing(w) \/ MarkProcessed(w)
    PROVE  InboundInv'
<1> USE InboundAssumption DEF InboundInv
<1>0. /\ work[w].pc \in {"start", "processed"} /\ work[w].row \in IngressRows /\ work[w] \in Task
      /\ \E status \in Statuses : SetStatus(work[w].row, status)
      /\ UNCHANGED << claims, inboundJob, req, sent, answered, abandoned, unsigned, published >>
    BY DEF MarkProcessing, MarkProcessed, WorkAt, OneWorker, InboundTyped, Statuses
<1>1. /\ ingress' \in Seq(Hook) /\ Len(ingress') = Len(ingress) /\ IngressRows' = IngressRows
      /\ \A k \in IngressRows : ingress'[k].d = ingress[k].d
      /\ \A d : RowsOf(d)' = RowsOf(d)
    BY <1>0, StatusKeepsRows
<1>2. /\ work' \in [Workers -> Task]
      /\ work'[w].row = work[w].row
      /\ work'[w].pc \in {"publish", "return"} /\ (work'[w].pc = "publish" => work[w].pc = "start")
      /\ \A v \in Workers : v # w => work'[v] = work[v]
    <2>1. PICK p \in {"publish", "return"} : WorkGoto(w, p) /\ (p = "publish" => work[w].pc = "start")
        BY DEF MarkProcessing, MarkProcessed, WorkAt
    <2>2. p \in WorkPcs
        BY DEF WorkPcs
    <2> QED
        BY <1>0, <2>1, <2>2, TasksStayTasks DEF WorkGoto, InboundTyped
<1>3. InboundTyped'
    BY <1>0, <1>1, <1>2 DEF InboundTyped
<1>4. RequestsKnow'
    BY <1>0, <1>1 DEF RequestsKnow
<1>5. OneWorker'
    BY <1>0, <1>1, <1>2 DEF OneWorker, WorksOn
<1>6. RowsAccounted'
    BY <1>0, <1>1 DEF RowsAccounted, Underway
<1>7. IdsUnique'
    BY <1>1 DEF IdsUnique
<1>8. PublishInv'
    BY <1>0, <1>2 DEF PublishInv, WorksOn
<1> QED
    BY <1>3, <1>4, <1>5, <1>6, <1>7, <1>8

LEMMA ProcessFailsStep ==
    ASSUME InboundInv, NEW w \in Workers, ProcessFails(w)
    PROVE  InboundInv'
<1> USE InboundAssumption DEF InboundInv
<1>0. /\ work[w].pc \in {"start", "publish", "processed"} /\ work[w].row \in IngressRows /\ work[w] \in Task
      /\ UNCHANGED << claims, req, sent, answered, abandoned, unsigned, published >>
      /\ UNCHANGED ingress \/ SetStatus(work[w].row, "failed")
    BY DEF ProcessFails, WorkAt, OneWorker, InboundTyped
<1>1. /\ ingress' \in Seq(Hook) /\ Len(ingress') = Len(ingress) /\ IngressRows' = IngressRows
      /\ \A k \in IngressRows : ingress'[k].d = ingress[k].d
      /\ \A d : RowsOf(d)' = RowsOf(d)
    <2>1. CASE UNCHANGED ingress
        BY <2>1 DEF InboundTyped, IngressRows, RowsOf
    <2>2. CASE SetStatus(work[w].row, "failed")
        BY <1>0, <2>2, StatusKeepsRows DEF Statuses
    <2> QED
        BY <1>0, <2>1, <2>2
<1>2. /\ work' \in [Workers -> Task]
      /\ work'[w] = IdleWork
      /\ \A v \in Workers : v # w => work'[v] = work[v]
    BY TasksStayTasks DEF ProcessFails, InboundTyped
<1>3. PICK i \in RowIds : i = work[w].row
    BY <1>0 DEF InboundTyped, IngressRows, RowIds
<1>4. WorksOn(w, i) /\ inboundJob[i].state = "active" /\ i \in IngressRows
    BY <1>0, <1>3 DEF WorksOn, OneWorker
<1>5. /\ inboundJob' \in [RowIds -> Job]
      /\ inboundJob'[i].state # "none" /\ inboundJob'[i].state \in JobStates
      /\ inboundJob'[i].failures = inboundJob[i].failures + 1 /\ inboundJob'[i].stalls = inboundJob[i].stalls
      /\ \A k \in RowIds : k # i => inboundJob'[k] = inboundJob[k]
    <2>1. inboundJob[i] \in Job
        BY DEF InboundTyped
    <2>2. /\ Rejected(inboundJob[i]) \in Job /\ Rejected(inboundJob[i]).state \in {"waiting", "failed"}
          /\ Rejected(inboundJob[i]).failures = inboundJob[i].failures + 1
          /\ Rejected(inboundJob[i]).stalls = inboundJob[i].stalls
        BY <2>1, JobsStayJobs DEF Rejected, Job
    <2>3. inboundJob' = [inboundJob EXCEPT ![i] = Rejected(inboundJob[i])]
        BY <1>3 DEF ProcessFails
    <2> QED
        BY <2>2, <2>3 DEF InboundTyped, JobStates
<1>6. InboundTyped'
    BY <1>0, <1>1, <1>2, <1>5 DEF InboundTyped
<1>7. RequestsKnow'
    BY <1>0, <1>1 DEF RequestsKnow
<1>8. OneWorker'
    <2>1. \A v \in Workers, k \in RowIds : WorksOn(v, k)' => WorksOn(v, k) /\ k # i
        BY <1>2, <1>4 DEF OneWorker, WorksOn, IdleWork
    <2> QED
        BY <1>1, <1>2, <1>5, <2>1 DEF OneWorker, IdleWork
<1>9. RowsAccounted'
    <2>1. \A k \in RowIds : inboundJob'[k].state # "none" => inboundJob[k].state # "none" \/ k = i
        BY <1>5
    <2>2. \A k \in IngressRows : k \in RowIds
        BY DEF InboundTyped, IngressRows, RowIds
    <2> QED
        BY <1>0, <1>1, <1>4, <1>5, <2>1, <2>2 DEF RowsAccounted, Underway
<1>10. IdsUnique'
    BY <1>1 DEF IdsUnique
<1>11. PublishInv'
    <2>1. \A v \in Workers, k \in RowIds : WorksOn(v, k)' => v # w /\ WorksOn(v, k) /\ k # i
        BY <1>2, <1>4 DEF OneWorker, WorksOn, IdleWork
    <2>2. published[i] \in Nat /\ inboundJob[i].failures \in Nat /\ inboundJob[i].stalls \in Nat
        BY DEF InboundTyped, Job
    <2>3. published'[i] <= inboundJob'[i].failures + inboundJob'[i].stalls
        BY <1>0, <1>5, <2>2 DEF PublishInv
    <2>4. published'[i] <= 1 + (inboundJob'[i].failures + inboundJob'[i].stalls)
        BY <1>0, <1>5, <2>2, <2>3
    <2> QED
        BY <1>0, <1>2, <1>5, <2>1, <2>3, <2>4 DEF PublishInv
<1> QED
    BY <1>6, <1>7, <1>8, <1>9, <1>10, <1>11

LEMMA InboundStart == Init => InboundInv
<1> SUFFICES ASSUME Init PROVE InboundInv
    OBVIOUS
<1> USE InboundAssumption DEF Init, InboundInit
<1>1. InboundTyped
    <2>1. NoJob \in Job
        BY DEF Job, JobStates, NoJob
    <2>2. ingress \in Seq(Hook) /\ Len(ingress) = 0
        OBVIOUS
    <2>3. req \in [Requests -> Ask] /\ work \in [Workers -> Task]
        BY AsksStayAsks, TasksStayTasks
    <2> QED
        BY <2>1, <2>2, <2>3 DEF InboundTyped, IngressRows
<1>2. RequestsKnow /\ OneWorker
    BY DEF RequestsKnow, OneWorker, WorksOn, IdleReq, IdleWork
<1>3. RowsAccounted /\ IdsUnique /\ PublishInv
    BY DEF RowsAccounted, IdsUnique, PublishInv, WorksOn, IngressRows, RowsOf, NoJob, IdleWork
<1> QED
    BY <1>1, <1>2, <1>3 DEF InboundInv

(* The egress half does not touch the ingress half. *)
LEMMA SameInbound == InboundInv /\ UNCHANGED inboundVars => InboundInv'
    BY DEF InboundInv, inboundVars, InboundTyped, RequestsKnow, OneWorker, WorksOn, RowsAccounted,
           Underway, RowsOf, IngressRows, IdsUnique, PublishInv

LEMMA InboundInvStep == InboundInv /\ [Next]_vars => InboundInv'
<1> SUFFICES ASSUME InboundInv, [Next]_vars PROVE InboundInv'
    OBVIOUS
<1>1. ASSUME NEW r \in Requests, AcceptStep(r) PROVE InboundInv'
    <2>1. ASSUME NEW d \in Deliveries, NEW signed \in BOOLEAN, AcceptDuplicate(r, d, signed) \/ AcceptNew(r, d, signed)
          PROVE  InboundInv'
        BY <2>1, AcceptDuplicateStep, AcceptNewStep
    <2>2. ASSUME Create(r, "create", "verified") PROVE InboundInv'
        BY <2>2, CreateRowStep
    <2>3. ASSUME Create(r, "reject", "rejected") PROVE InboundInv'
        BY <2>3, CreateRowStep
    <2> QED
        BY <1>1, <2>1, <2>2, <2>3, ClaimHasStep, ClaimSetStep, RecheckStep, ConflictStep, MarkVerifiedStep,
           EnqueueInboundStep, MarkRejectedStep, ReleaseStep DEF AcceptStep
<1>2. ASSUME NEW w \in Workers, ProcessStep(w) PROVE InboundInv'
    BY <1>2, TakeInboundStep, MarkStep, PublishStep, AckInboundStep DEF ProcessStep
<1>3. CASE InboundStep
    BY <1>1, <1>2, <1>3, ExpiresStep, ReplayStep, StallInboundStep DEF InboundStep
<1>4. CASE OutboundStep
    BY <1>4, SameInbound DEF OutboundStep
<1>5. CASE Fault
    BY <1>5, AcceptFailsStep, ProcessFailsStep, SameInbound DEF Fault
<1>6. CASE Crash
    BY <1>6, CrashInboundStep DEF Crash
<1>7. CASE UNCHANGED vars
    BY <1>7, SameInbound DEF vars
<1> QED
    BY <1>3, <1>4, <1>5, <1>6, <1>7 DEF Next

LEMMA InboundInvariant == Spec => []InboundInv
<1>1. Init => InboundInv
    BY InboundStart
<1> QED
    BY <1>1, InboundInvStep, PTL DEF Spec

\* A delivery the provider was told is accepted has a job once its requests are
\* through, but for rows whose request failed after the insert and rows of
\* requests that were not signed, for any number of concurrent requests,
\* faults and crashes.
THEOREM AcceptedHasJob == Spec => []AcceptedIsQueued
<1>1. ASSUME InboundInv PROVE AcceptedIsQueued
    <2> SUFFICES ASSUME NEW d \in answered, ~InFlight(d), ~Queued(d)
                 PROVE  RowsOf(d) \cap (abandoned \cup unsigned) # {}
        BY DEF AcceptedIsQueued
    <2>1. PICK i \in RowsOf(d) : TRUE
        BY <1>1 DEF InboundInv, RowsAccounted
    <2>2. i \in IngressRows /\ ingress[i].d = d
        BY DEF RowsOf
    <2>3. ~Underway(i)
        BY <1>1, <2>2 DEF InboundInv, Underway, InFlight, RequestsKnow
    <2>4. i \in abandoned \cup unsigned
        BY <1>1, <2>1, <2>2, <2>3 DEF InboundInv, RowsAccounted, Queued
    <2> QED
        BY <2>4
<1> QED
    BY <1>1, InboundInvariant, PTL

\* A delivery with an id has one row, and that row is published once, and once
\* more for every attempt of its job that failed or whose worker died.
THEOREM PublishedOncePerAttempt == Spec => []PublishedPerAttempt
<1>1. ASSUME InboundInv PROVE PublishedPerAttempt
    <2> SUFFICES ASSUME NEW d \in WithId, NEW i \in RowsOf(d), NEW j \in RowsOf(d)
                 PROVE  /\ published[i] <= 1 + inboundJob[i].failures + inboundJob[i].stalls
                        /\ i = j
        BY DEF PublishedPerAttempt
    <2>1. i = j
        BY <1>1 DEF InboundInv, IdsUnique
    <2>2. i \in RowIds
        BY <1>1, RowsAreHooks DEF InboundInv, RowsOf
    <2>3. /\ published[i] \in Nat /\ inboundJob[i].failures \in Nat /\ inboundJob[i].stalls \in Nat
          /\ published[i] <= 1 + (inboundJob[i].failures + inboundJob[i].stalls)
        BY <1>1, <2>2 DEF InboundInv, InboundTyped, Job, PublishInv
    <2> QED
        BY <2>1, <2>3
<1> QED
    BY <1>1, InboundInvariant, PTL

\* Both halves keep their types, and a job has a row and an active worker.
THEOREM WebhooksKeepTypes == Spec => []TypeOK
<1>1. ASSUME InboundInv PROVE InboundTypeOK
    <2>1. \A i \in IngressRows : ingress[i].d \in Deliveries /\ ingress[i].status \in Statuses
        BY <1>1, RowsAreHooks DEF InboundInv, Hook
    <2>2. \A i \in RowIds : JobTypeOK(inboundJob[i]) /\ (inboundJob[i].state # "none" => i \in IngressRows)
        BY <1>1 DEF InboundInv, InboundTyped, RowsAccounted, JobTypeOK, Job
    <2>3. \A r \in Requests : req[r] # IdleReq => req[r].d \in Deliveries /\ req[r].row \in 0 .. Len(ingress)
        BY <1>1 DEF InboundInv, InboundTyped, RequestsKnow, Ask
    <2>4. \A w \in Workers : work[w] = IdleWork \/ inboundJob[work[w].row].state = "active"
        <3> SUFFICES ASSUME NEW w \in Workers, work[w] # IdleWork
                     PROVE  inboundJob[work[w].row].state = "active"
            OBVIOUS
        <3>1. work[w].pc # "idle" /\ work[w].row \in RowIds
            BY <1>1, RowsAreHooks DEF InboundInv, OneWorker
        <3> QED
            BY <1>1, <3>1 DEF InboundInv, OneWorker, WorksOn
    <2> QED
        BY <1>1, <2>1, <2>2, <2>3, <2>4 DEF InboundTypeOK, InboundInv, InboundTyped
<1>2. ASSUME EgressInv, LettersInv PROVE OutboundTypeOK
    <2>1. \A n \in Senders : sender[n] = IdleSender \/ outboundJob[sender[n].sub].state = "active"
        BY <1>2 DEF EgressInv, EgressTyped, OneSender, Works, LettersInv
    <2>2. \A b \in Subs : /\ outbound[b].status \in OutboundStatuses /\ outbound[b].attempts \in Nat
                          /\ JobTypeOK(outboundJob[b])
                          /\ outboundJob[b].state # "none" => outbound[b].status # "none"
        BY <1>2 DEF EgressInv, EgressTyped, OutboundRow, JobTypeOK, Job, LettersInv
    <2> QED
        BY <1>2, <2>1, <2>2 DEF OutboundTypeOK, EgressInv, EgressTyped, LettersInv
<1>3. InboundInv /\ EgressInv /\ LettersInv => TypeOK
    BY <1>1, <1>2 DEF TypeOK
<1> QED
    BY <1>3, InboundInvariant, EgressInvariant, LettersInvariant, PTL
=============================================================================
