----------------------------- MODULE QueueProofs -----------------------------
(***************************************************************************)
(* What is handed to a job queue is accounted for: the deliveries of a     *)
(* notification, for any number of dispatches, channels, workers and       *)
(* mishaps; the events of the bus, for any number of publishers, handlers, *)
(* workers, operators, faults and crashes.                                 *)
(***************************************************************************)
EXTENDS EventBus, Notifications, SequenceTheorems, FiniteSetTheorems, TLAPS

(* Notifications. *)

Jobs == [state : JobStates, failures : Nat, stalls : Nat]
DispatchStates == [pc : {"idle", "claim", "plan", "enqueue", "enqueued", "deduped", "skipped", "failed"},
                   todo : SUBSET Deliveries]
RowStates == {"none", "PENDING", "SENT", "FAILED", "DEAD", "CANCELLED"}
Loads == [pc : {"idle", "read", "send", "SENT", "DEAD", "FAILED"}, of : SUBSET Deliveries]
Cancels == [pc : {"idle", "update", "remove", "done"}, ids : SUBSET Deliveries]

NotesTyped ==
    /\ claimed \in BOOLEAN /\ raced \in BOOLEAN /\ mishaps \in Nat
    /\ dispatch \in [Dispatches -> DispatchStates]
    /\ delivery \in [Deliveries -> RowStates]
    /\ deliveryJob \in [Deliveries -> Jobs]
    /\ courier \in [Couriers -> Loads]
    /\ exhausting \in [Deliveries -> {"no", "read", "mark"}]
    /\ cancel \in [Dispatches -> Cancels]
    /\ tried \subseteq Deliveries /\ quiet \subseteq Deliveries /\ stranded \subseteq Deliveries

Planning(d) == dispatch[d].pc \in {"idle", "claim", "plan"}

\* A dispatch has rows once it planned them, and a row has a job only after the
\* dispatch let go of it.
RowsPlanned ==
    /\ \A d \in Dispatches : Planning(d) => \A x \in RowsOf(d) : delivery[x] = "none"
    /\ \A d \in Dispatches : dispatch[d].pc # "enqueue" => dispatch[d].todo = {}
    /\ \A d \in Dispatches : \A x \in dispatch[d].todo :
           x \in RowsOf(d) /\ delivery[x] # "none" /\ deliveryJob[x].state = "none"
    /\ \A x \in Deliveries : delivery[x] = "none" => deliveryJob[x].state = "none" /\ exhausting[x] = "no"

\* A job that is carried is active, and nobody else carries it.
OneCourierEach ==
    /\ \A w \in Couriers, x \in Deliveries : Carries(w, x) => deliveryJob[x].state = "active"
    /\ \A v, w \in Couriers, x \in Deliveries : Carries(v, x) /\ Carries(w, x) => v = w

\* A cancel that has updated the rows leaves none of its notification pending.
CancelsClear ==
    \A d \in Dispatches :
        /\ cancel[d].pc # "idle" => ~Planning(d)
        /\ cancel[d].ids \subseteq RowsOf(d)
        /\ cancel[d].pc = "remove" => \A x \in RowsOf(d) : delivery[x] # "PENDING"

\* Of a delivery cancelled in quiet, a worker gets no further than the read.
LeftAlone ==
    \A x \in quiet :
        /\ delivery[x] = "CANCELLED" /\ x \notin tried /\ exhausting[x] # "mark"
        /\ \A w \in Couriers : Carries(w, x) => courier[w].pc = "read"

Notifies(d) == DispatchAt(d, "plan") \/ \E x \in RowsOf(d) : delivery[x] # "none"

\* Who holds the key holds it alone, and keeps it from whoever comes later.
ClaimHeld ==
    ~raced =>
        /\ \A d, e \in Dispatches : DispatchAt(d, "claim") /\ DispatchAt(e, "claim") => d = e
        /\ \A d, e \in Dispatches : Notifies(d) /\ Notifies(e) => d = e
        /\ \A d \in Dispatches : Notifies(d) => claimed
        /\ \A d \in Dispatches : DispatchAt(d, "claim") => ~claimed

NotesInv ==
    /\ NotesTyped /\ RowsPlanned /\ OneCourierEach /\ CancelsClear /\ LeftAlone /\ ClaimHeld
    /\ UnsettledHasJob

-----------------------------------------------------------------------------
LEMMA RowIsItsDispatchs ==
    ASSUME NEW d \in Dispatches, NEW x \in RowsOf(d)
    PROVE  x \in Deliveries /\ x[1] = d
    BY DEF RowsOf, Deliveries

LEMMA DeliveryIsARow ==
    ASSUME NEW x \in Deliveries
    PROVE  x[1] \in Dispatches /\ x \in RowsOf(x[1])
    BY DEF RowsOf, Deliveries

\* What the queue does with a job gives a job.
LEMMA JobsStayJobs ==
    ASSUME NEW one \in Jobs
    PROVE  /\ NoJob \in Jobs /\ NoJob.state = "none"
           /\ Added(one) \in Jobs /\ Added(one).state = IF one.state = "none" THEN "waiting" ELSE one.state
           /\ Completed(one) \in Jobs /\ Completed(one).state = "completed"
           /\ Rejected(one) \in Jobs /\ Rejected(one).failures = one.failures + 1
           /\ Rejected(one).state = IF one.failures + 1 < Attempts THEN "waiting" ELSE "failed"
           /\ Stalled(one) \in Jobs /\ Stalled(one).state \in {"waiting", "failed"}
           /\ Stalled(one).stalls = one.stalls + 1 /\ Stalled(one).failures = one.failures
           /\ [one EXCEPT !.state = "active"] \in Jobs
           /\ [one EXCEPT !.state = "active"].state = "active"
<1> USE DEF Jobs
<1>1. NoJob \in Jobs /\ NoJob.state = "none"
    BY DEF NoJob, JobStates
<1>2. Added(one) \in Jobs /\ Added(one).state = IF one.state = "none" THEN "waiting" ELSE one.state
    BY DEF Added, JobStates
<1>3. /\ Completed(one) \in Jobs /\ Completed(one).state = "completed"
      /\ [one EXCEPT !.state = "active"] \in Jobs /\ [one EXCEPT !.state = "active"].state = "active"
    BY DEF Completed, JobStates
<1>4. /\ Rejected(one) \in Jobs /\ Rejected(one).failures = one.failures + 1
      /\ Rejected(one).state = IF one.failures + 1 < Attempts THEN "waiting" ELSE "failed"
    <2> DEFINE state == IF one.failures + 1 < Attempts THEN "waiting" ELSE "failed"
               failures == one.failures + 1
    <2>1. Rejected(one) = [one EXCEPT !.failures = failures, !.state = state]
        BY DEF Rejected
    <2>2. state \in JobStates /\ failures \in Nat
        BY DEF JobStates
    <2> HIDE DEF state, failures
    <2>3. Rejected(one) \in Jobs /\ Rejected(one).failures = failures /\ Rejected(one).state = state
        BY <2>1, <2>2
    <2> QED
        BY <2>3 DEF state, failures
<1>5. /\ Stalled(one) \in Jobs /\ Stalled(one).stalls = one.stalls + 1
      /\ Stalled(one).failures = one.failures /\ Stalled(one).state \in {"waiting", "failed"}
    <2> DEFINE state == IF one.stalls < MaxStalled THEN "waiting" ELSE "failed"
               stalls == one.stalls + 1
    <2>1. Stalled(one) = [one EXCEPT !.stalls = stalls, !.state = state]
        BY DEF Stalled
    <2>2. state \in JobStates /\ state \in {"waiting", "failed"} /\ stalls \in Nat
        BY DEF JobStates
    <2> HIDE DEF state, stalls
    <2>3. /\ Stalled(one) \in Jobs /\ Stalled(one).stalls = stalls /\ Stalled(one).state = state
          /\ Stalled(one).failures = one.failures
        BY <2>1, <2>2
    <2> QED
        BY <2>2, <2>3 DEF stalls
<1> QED
    BY <1>1, <1>2, <1>3, <1>4, <1>5

LEMMA NotesStart ==
    ASSUME NotificationsInit
    PROVE  NotesInv
<1>1. NoJob \in Jobs /\ NoJob.state = "none"
    BY DEF Jobs, NoJob, JobStates
<1>2. NotesTyped
    BY <1>1 DEF NotificationsInit, NotesTyped, DispatchStates, RowStates, Loads, Cancels, Idle
<1>3. RowsPlanned
    BY <1>1, RowIsItsDispatchs DEF NotificationsInit, RowsPlanned
<1>4. OneCourierEach /\ CancelsClear /\ LeftAlone
    BY DEF NotificationsInit, OneCourierEach, CancelsClear, LeftAlone, Carries, Idle
<1>5. ClaimHeld
    BY RowIsItsDispatchs DEF NotificationsInit, ClaimHeld, Notifies, DispatchAt
<1>6. UnsettledHasJob
    BY DEF NotificationsInit, UnsettledHasJob
<1> QED
    BY <1>2, <1>3, <1>4, <1>5, <1>6 DEF NotesInv

-----------------------------------------------------------------------------
(* doDispatch. *)

LEMMA DispatchEffect ==
    ASSUME NotesTyped, NEW d \in Dispatches, NEW pc, NEW todo, DispatchTo(d, pc, todo)
    PROVE  /\ dispatch'[d].pc = pc /\ dispatch'[d].todo = todo
           /\ \A e \in Dispatches \ {d} : dispatch'[e] = dispatch[e]
           /\ [pc |-> pc, todo |-> todo] \in DispatchStates =>
                  dispatch' \in [Dispatches -> DispatchStates]
    BY DEF NotesTyped, DispatchTo

LEMMA ClaimKeepsNotes ==
    ASSUME NotesInv, NEW d \in Dispatches, CheckClaim(d) \/ SetClaim(d) \/ Skip(d)
    PROVE  NotesInv'
<1>1. /\ NotesTyped /\ Planning(d)
      /\ UNCHANGED << delivery, deliveryJob, courier, exhausting, cancel, tried, quiet, stranded, mishaps >>
    BY DEF NotesInv, CheckClaim, SetClaim, Skip, Planning, DispatchAt
<1>2. PICK pc \in {"deduped", "claim", "plan", "skipped"} : DispatchTo(d, pc, {})
    BY DEF CheckClaim, SetClaim, Skip
<1>3. /\ dispatch'[d].pc = pc /\ dispatch'[d].todo = {}
      /\ \A e \in Dispatches \ {d} : dispatch'[e] = dispatch[e]
      /\ dispatch' \in [Dispatches -> DispatchStates]
    BY <1>1, <1>2, DispatchEffect DEF DispatchStates
<1>4. NotesTyped'
    BY <1>1, <1>3 DEF NotesTyped, CheckClaim, SetClaim, Skip
<1>5. dispatch[d].todo = {} /\ \A x \in RowsOf(d) : delivery[x] = "none"
    BY <1>1 DEF NotesInv, RowsPlanned, Planning
<1>6. RowsPlanned' /\ OneCourierEach' /\ LeftAlone'
    BY <1>1, <1>3, <1>5 DEF NotesInv, RowsPlanned, OneCourierEach, LeftAlone, Planning, Carries
<1>7. CancelsClear'
    BY <1>1, <1>3 DEF NotesInv, CancelsClear, Planning
<1>8. UnsettledHasJob'
    <2>1. \A e \in Dispatches : dispatch'[e].todo = dispatch[e].todo
        BY <1>3, <1>5
    <2> QED
        BY <1>1, <2>1, DeliveryIsARow DEF NotesInv, UnsettledHasJob
<1>9. ClaimHeld'
    <2>1. CASE CheckClaim(d)
        <3>1. \A e \in Dispatches : Notifies(e)' => Notifies(e)
            <4>1. dispatch'[d].pc = IF claimed THEN "deduped" ELSE "claim"
                BY <1>1, <2>1, DispatchEffect DEF CheckClaim
            <4> QED
                BY <1>1, <1>3, <4>1 DEF Notifies, DispatchAt
        <3>2. ~raced' => ~raced /\ (claimed \/ \A e \in Dispatches : ~DispatchAt(e, "claim"))
            BY <2>1 DEF CheckClaim
        <3>3. dispatch'[d].pc = IF claimed THEN "deduped" ELSE "claim"
            BY <1>1, <2>1, DispatchEffect DEF CheckClaim
        <3> QED
            BY <1>3, <2>1, <3>1, <3>2, <3>3 DEF NotesInv, ClaimHeld, DispatchAt, CheckClaim
    <2>2. CASE SetClaim(d)
        <3>1. DispatchAt(d, "claim") /\ dispatch'[d].pc = "plan" /\ claimed' = TRUE /\ raced' = raced
            BY <1>1, <2>2, DispatchEffect DEF SetClaim
        <3>2. ~raced => \A e \in Dispatches : ~Notifies(e) /\ (DispatchAt(e, "claim") => e = d)
            BY <3>1 DEF NotesInv, ClaimHeld
        <3>3. \A e \in Dispatches \ {d} : Notifies(e)' <=> Notifies(e)
            BY <1>1, <1>3 DEF Notifies, DispatchAt
        <3> QED
            BY <1>3, <3>1, <3>2, <3>3 DEF ClaimHeld, DispatchAt
    <2>3. CASE Skip(d)
        <3>1. DispatchAt(d, "plan") /\ dispatch'[d].pc = "skipped" /\ claimed' = FALSE /\ raced' = raced
            BY <1>1, <2>3, DispatchEffect DEF Skip
        <3>2. ~raced => \A e \in Dispatches : Notifies(e) => e = d
            BY <3>1 DEF NotesInv, ClaimHeld, Notifies
        <3>3. \A e \in Dispatches \ {d} : Notifies(e)' <=> Notifies(e)
            BY <1>1, <1>3 DEF Notifies, DispatchAt
        <3>4. ~Notifies(d)'
            BY <1>1, <1>5, <3>1 DEF Notifies, DispatchAt
        <3>5. ~raced => \A e, f \in Dispatches \ {d} :
                  DispatchAt(e, "claim") /\ DispatchAt(f, "claim") => e = f
            BY DEF NotesInv, ClaimHeld
        <3> QED
            BY <1>3, <3>1, <3>2, <3>3, <3>4, <3>5 DEF ClaimHeld, DispatchAt
    <2> QED
        BY <2>1, <2>2, <2>3
<1> QED
    BY <1>4, <1>6, <1>7, <1>8, <1>9 DEF NotesInv

LEMMA CreateKeepsNotes ==
    ASSUME NotesInv, NEW d \in Dispatches, CreateRows(d)
    PROVE  NotesInv'
<1>1. /\ NotesTyped /\ Planning(d) /\ DispatchAt(d, "plan")
      /\ UNCHANGED << claimed, deliveryJob, courier, exhausting, cancel, tried, quiet, stranded, raced, mishaps >>
    BY DEF NotesInv, CreateRows, Planning, DispatchAt
<1>2. PICK planned \in (SUBSET Channels) \ {{}} :
          /\ DispatchTo(d, "enqueue", {d} \X planned)
          /\ delivery' = [x \in Deliveries |-> IF x \in {d} \X planned THEN "PENDING" ELSE delivery[x]]
    BY DEF CreateRows
<1> DEFINE new == {d} \X planned
<1>3. new \subseteq RowsOf(d) /\ new \subseteq Deliveries
    BY DEF RowsOf, Deliveries
<1>4. /\ dispatch'[d].pc = "enqueue" /\ dispatch'[d].todo = new
      /\ \A e \in Dispatches \ {d} : dispatch'[e] = dispatch[e]
      /\ dispatch' \in [Dispatches -> DispatchStates]
    <2>1. [pc |-> "enqueue", todo |-> new] \in DispatchStates
        BY <1>3 DEF DispatchStates
    <2> QED
        BY <1>1, <1>2, <2>1, DispatchEffect
<1>5. /\ delivery' \in [Deliveries -> RowStates]
      /\ \A x \in Deliveries : delivery'[x] = IF x \in new THEN "PENDING" ELSE delivery[x]
    BY <1>1, <1>2 DEF NotesTyped, RowStates
<1> HIDE DEF new
<1>6. \A x \in RowsOf(d) : delivery[x] = "none" /\ deliveryJob[x].state = "none" /\ x \in Deliveries
    BY <1>1, RowIsItsDispatchs DEF NotesInv, RowsPlanned
<1>7. \A e \in Dispatches \ {d} : \A x \in RowsOf(e) : x \in Deliveries /\ x \notin new
    BY <1>3, RowIsItsDispatchs
<1>8. NotesTyped'
    BY <1>1, <1>4, <1>5 DEF NotesTyped
<1>9. RowsPlanned'
    <2>1. \A e \in Dispatches \ {d} : \A x \in RowsOf(e) : delivery'[x] = delivery[x]
        BY <1>5, <1>7
    <2>2. \A e \in Dispatches : \A x \in dispatch'[e].todo :
              x \in RowsOf(e) /\ delivery'[x] # "none" /\ deliveryJob'[x].state = "none"
        BY <1>1, <1>3, <1>4, <1>5, <1>6, <2>1 DEF NotesInv, RowsPlanned
    <2> QED
        BY <1>1, <1>4, <1>5, <2>1, <2>2 DEF NotesInv, RowsPlanned, Planning
<1>10. OneCourierEach'
    BY <1>1 DEF NotesInv, OneCourierEach, Carries
<1>11. CancelsClear'
    BY <1>1, <1>4, <1>5, <1>7 DEF NotesInv, CancelsClear, Planning
<1>12. LeftAlone'
    <2>1. \A x \in quiet : x \in Deliveries /\ x \notin new
        BY <1>1, <1>3, <1>6 DEF NotesInv, NotesTyped, LeftAlone
    <2> QED
        BY <1>1, <1>5, <2>1 DEF NotesInv, LeftAlone, Carries
<1>13. ClaimHeld'
    <2>1. \A e \in Dispatches \ {d} : Notifies(e)' <=> Notifies(e)
        BY <1>4, <1>5, <1>7 DEF Notifies, DispatchAt
    <2>2. Notifies(d)
        BY <1>1 DEF Notifies
    <2> QED
        BY <1>1, <1>4, <2>1, <2>2 DEF NotesInv, ClaimHeld, DispatchAt
<1>14. UnsettledHasJob'
    BY <1>1, <1>3, <1>4, <1>5, <1>6, <1>7, DeliveryIsARow, RowIsItsDispatchs
    DEF NotesInv, UnsettledHasJob
<1> QED
    BY <1>8, <1>9, <1>10, <1>11, <1>12, <1>13, <1>14 DEF NotesInv

LEMMA EnqueueKeepsNotes ==
    ASSUME NotesInv, NEW d \in Dispatches, EnqueueDelivery(d)
    PROVE  NotesInv'
<1>1. /\ NotesTyped /\ DispatchAt(d, "enqueue")
      /\ UNCHANGED << claimed, delivery, courier, exhausting, cancel, tried, quiet, stranded, raced, mishaps >>
    BY DEF NotesInv, EnqueueDelivery
<1>2. PICK x \in dispatch[d].todo :
          LET left == dispatch[d].todo \ {x} IN
          /\ deliveryJob' = [deliveryJob EXCEPT ![x] = Added(@)]
          /\ DispatchTo(d, IF left = {} THEN "enqueued" ELSE "enqueue", left)
    BY DEF EnqueueDelivery
<1> DEFINE left == dispatch[d].todo \ {x}
           pc == IF left = {} THEN "enqueued" ELSE "enqueue"
<1>3. /\ x \in RowsOf(d) /\ x \in Deliveries /\ x[1] = d
      /\ delivery[x] # "none" /\ deliveryJob[x].state = "none"
    BY RowIsItsDispatchs DEF NotesInv, RowsPlanned
<1>4. /\ dispatch'[d].pc = pc /\ dispatch'[d].todo = left
      /\ \A e \in Dispatches \ {d} : dispatch'[e] = dispatch[e]
      /\ dispatch' \in [Dispatches -> DispatchStates]
    <2>1. dispatch[d].todo \subseteq Deliveries
        BY <1>1 DEF NotesTyped, DispatchStates
    <2>2. [pc |-> pc, todo |-> left] \in DispatchStates
        BY <2>1 DEF DispatchStates
    <2>3. DispatchTo(d, pc, left)
        BY <1>2
    <2> HIDE DEF pc, left
    <2> QED
        BY <1>1, <2>2, <2>3, DispatchEffect
<1>5. /\ deliveryJob' \in [Deliveries -> Jobs] /\ deliveryJob'[x].state = "waiting"
      /\ \A y \in Deliveries \ {x} : deliveryJob'[y] = deliveryJob[y]
    <2>1. deliveryJob \in [Deliveries -> Jobs] /\ deliveryJob[x] \in Jobs
        BY <1>1, <1>3 DEF NotesTyped
    <2>2. Added(deliveryJob[x]) \in Jobs /\ Added(deliveryJob[x]).state = "waiting"
        BY <1>3, <2>1, JobsStayJobs
    <2> QED
        BY <1>2, <1>3, <2>1, <2>2
<1>6. pc \in {"enqueue", "enqueued"} /\ (pc # "enqueue" => left = {})
    BY DEF pc
<1> HIDE DEF pc
<1>7. NotesTyped'
    BY <1>1, <1>4, <1>5 DEF NotesTyped
<1>8. RowsPlanned'
    <2>1. \A e \in Dispatches \ {d} : x \notin dispatch[e].todo
        BY <1>3, RowIsItsDispatchs DEF NotesInv, RowsPlanned
    <2>2. \A e \in Dispatches : \A y \in dispatch'[e].todo : y # x /\ y \in dispatch[e].todo
        BY <1>4, <2>1
    <2>3. \A e \in Dispatches : \A y \in dispatch'[e].todo :
              y \in RowsOf(e) /\ delivery[y] # "none" /\ deliveryJob'[y].state = "none"
        BY <1>5, <2>2, RowIsItsDispatchs DEF NotesInv, RowsPlanned
    <2> QED
        BY <1>1, <1>3, <1>4, <1>5, <1>6, <2>3 DEF NotesInv, RowsPlanned, Planning, DispatchAt
<1>9. OneCourierEach'
    BY <1>1, <1>3, <1>5 DEF NotesInv, OneCourierEach, Carries
<1>10. CancelsClear' /\ LeftAlone'
    BY <1>1, <1>4, <1>6 DEF NotesInv, CancelsClear, LeftAlone, Planning, Carries
<1>11. ClaimHeld'
    BY <1>1, <1>4, <1>6 DEF NotesInv, ClaimHeld, Notifies, DispatchAt
<1>12. UnsettledHasJob'
    <2>1. \A y \in Deliveries \ {x} : y \in dispatch[y[1]].todo => y \in dispatch'[y[1]].todo
        BY <1>4, DeliveryIsARow
    <2> QED
        BY <1>1, <1>5, <2>1 DEF NotesInv, UnsettledHasJob
<1> QED
    BY <1>7, <1>8, <1>9, <1>10, <1>11, <1>12 DEF NotesInv

LEMMA DispatchFailureKeepsNotes ==
    ASSUME NotesInv, NEW d \in Dispatches, DispatchFails(d)
    PROVE  NotesInv'
<1>1. /\ NotesTyped /\ dispatch[d].pc \in {"claim", "plan", "enqueue"} /\ mishaps' = mishaps + 1
      /\ DispatchTo(d, "failed", {}) /\ stranded' = stranded \cup dispatch[d].todo
      /\ UNCHANGED << claimed, delivery, deliveryJob, courier, exhausting, cancel, tried, quiet, raced >>
    BY DEF NotesInv, DispatchFails, Mishap
<1>2. /\ dispatch'[d].pc = "failed" /\ dispatch'[d].todo = {}
      /\ \A e \in Dispatches \ {d} : dispatch'[e] = dispatch[e]
      /\ dispatch' \in [Dispatches -> DispatchStates]
    BY <1>1, DispatchEffect DEF DispatchStates
<1>3. NotesTyped'
    BY <1>1, <1>2 DEF NotesTyped, DispatchStates
<1>4. RowsPlanned' /\ OneCourierEach' /\ LeftAlone' /\ CancelsClear'
    BY <1>1, <1>2 DEF NotesInv, RowsPlanned, OneCourierEach, LeftAlone, CancelsClear, Planning, Carries
<1>5. ClaimHeld'
    BY <1>1, <1>2 DEF NotesInv, ClaimHeld, Notifies, DispatchAt
<1>6. UnsettledHasJob'
    BY <1>1, <1>2, DeliveryIsARow DEF NotesInv, UnsettledHasJob
<1> QED
    BY <1>3, <1>4, <1>5, <1>6 DEF NotesInv

LEMMA ExpiryKeepsNotes ==
    ASSUME NotesInv, Expire
    PROVE  NotesInv'
<1>1. /\ claimed' = FALSE /\ raced' = TRUE /\ mishaps' = mishaps + 1 /\ mishaps \in Nat
      /\ UNCHANGED << dispatch, delivery, deliveryJob, courier, exhausting, cancel, tried, quiet, stranded >>
    BY DEF NotesInv, NotesTyped, Expire, Mishap
<1>2. NotesTyped' /\ ClaimHeld'
    <2>1. raced' /\ ClaimHeld'
        BY <1>1 DEF ClaimHeld
    <2>2. claimed' \in BOOLEAN /\ raced' \in BOOLEAN
        BY <1>1
    <2>3. UNCHANGED << dispatch, delivery, deliveryJob, courier, exhausting, cancel, tried, quiet, stranded >>
        BY <1>1
    <2>4. mishaps' \in Nat
        BY <1>1
    <2> QED
        BY <2>1, <2>2, <2>3, <2>4 DEF NotesInv, NotesTyped
<1>3. RowsPlanned' /\ OneCourierEach' /\ CancelsClear'
    BY <1>1 DEF NotesInv, RowsPlanned, OneCourierEach, CancelsClear, Planning, Carries
<1>4. LeftAlone' /\ UnsettledHasJob'
    BY <1>1 DEF NotesInv, LeftAlone, UnsettledHasJob, Carries
<1> QED
    BY <1>2, <1>3, <1>4 DEF NotesInv

-----------------------------------------------------------------------------
(* The delivery worker. *)

\* A worker's step moves its slot and the job it carries, never another's.
LEMMA CourierSafe ==
    ASSUME NotesInv, NEW w \in Couriers, NEW x \in Deliveries, Carries(w, x)
    PROVE  /\ deliveryJob[x].state = "active" /\ delivery[x] # "none"
           /\ \A d \in Dispatches : x \notin dispatch[d].todo
           /\ \A v \in Couriers \ {w} : ~Carries(v, x)
           /\ \A y \in Deliveries \ {x} : ~Carries(w, y)
           /\ ~Planning(x[1]) /\ x[1] \in Dispatches /\ x \in RowsOf(x[1])
<1>1. deliveryJob[x].state = "active"
    BY DEF NotesInv, OneCourierEach
<1>2. delivery[x] # "none" /\ \A d \in Dispatches : x \notin dispatch[d].todo
    BY <1>1 DEF NotesInv, RowsPlanned
<1>3. \A v \in Couriers \ {w} : ~Carries(v, x)
    BY DEF NotesInv, OneCourierEach
<1>4. x[1] \in Dispatches /\ x \in RowsOf(x[1])
    BY DeliveryIsARow
<1> QED
    BY <1>1, <1>2, <1>3, <1>4 DEF NotesInv, RowsPlanned, Carries

\* What a worker's step, or the exhaustion handler's, may do to the rest:
\* at most one row and one job change, and neither is a planned or a pending one.
LEMMA RowWorkKeeps ==
    ASSUME NotesInv, NotesTyped', NEW x \in Deliveries, delivery[x] # "none",
           UNCHANGED << claimed, dispatch, cancel, quiet, raced >>,
           \A y \in Deliveries \ {x} : delivery'[y] = delivery[y] /\ deliveryJob'[y].state = deliveryJob[y].state,
           \A y \in Deliveries \ {x} : exhausting'[y] = exhausting[y],
           delivery'[x] \in {delivery[x], "SENT", "DEAD", "FAILED"},
           deliveryJob'[x].state = deliveryJob[x].state \/ deliveryJob[x].state # "none"
    PROVE  RowsPlanned' /\ CancelsClear' /\ ClaimHeld'
<1>1. \A y \in Deliveries : /\ delivery'[y] = "none" <=> delivery[y] = "none"
                            /\ delivery'[y] = "PENDING" => delivery[y] = "PENDING"
                            /\ deliveryJob'[y].state = deliveryJob[y].state \/ deliveryJob[y].state # "none"
                            /\ deliveryJob'[y].state = deliveryJob[y].state \/ delivery[y] # "none"
                            /\ exhausting'[y] = exhausting[y] \/ delivery[y] # "none"
    OBVIOUS
<1>2. \A d \in Dispatches : \A y \in RowsOf(d) : y \in Deliveries
    BY RowIsItsDispatchs
<1>3. RowsPlanned'
    BY <1>1, <1>2 DEF NotesInv, RowsPlanned, Planning
<1>4. CancelsClear'
    BY <1>1, <1>2 DEF NotesInv, CancelsClear, Planning
<1>5. \A d \in Dispatches : Notifies(d)' <=> Notifies(d)
    BY <1>1, <1>2 DEF Notifies, DispatchAt
<1>6. ClaimHeld'
    BY <1>5 DEF NotesInv, ClaimHeld, DispatchAt
<1> QED
    BY <1>3, <1>4, <1>6

\* The worker's slot goes on with its job, or lets go of it.
LEMMA SlotWorkKeeps ==
    ASSUME NotesInv, NEW w \in Couriers, NEW x \in Deliveries, Carries(w, x),
           \A v \in Couriers \ {w} : courier'[v] = courier[v],
           \A y \in Deliveries \ {x} : deliveryJob'[y].state = deliveryJob[y].state,
           courier'[w] = Idle \/ (courier'[w].of = {x} /\ deliveryJob'[x].state = "active")
    PROVE  /\ OneCourierEach'
           /\ \A v \in Couriers, y \in Deliveries \ {x} : Carries(v, y)' => v # w /\ Carries(v, y)
           /\ \A v \in Couriers : Carries(v, x)' => v = w
<1>1. \A v \in Couriers \ {w} : ~Carries(v, x)
    BY CourierSafe
<1>2. \A y \in Deliveries : Carries(w, y)' => y = x /\ deliveryJob'[x].state = "active"
    BY DEF Carries, Idle
<1>3. \A v \in Couriers \ {w} : \A y \in Deliveries : Carries(v, y)' <=> Carries(v, y)
    BY DEF Carries
<1>4. \A v \in Couriers, y \in Deliveries : Carries(v, y)' => deliveryJob'[y].state = "active"
    BY <1>1, <1>2, <1>3 DEF NotesInv, OneCourierEach
<1>5. \A u, v \in Couriers, y \in Deliveries : Carries(u, y)' /\ Carries(v, y)' => u = v
    BY <1>1, <1>2, <1>3 DEF NotesInv, OneCourierEach
<1> QED
    BY <1>1, <1>2, <1>3, <1>4, <1>5 DEF OneCourierEach

LEMMA PickupKeepsNotes ==
    ASSUME NotesInv, NEW w \in Couriers, NEW x \in Deliveries, Pickup(w, x)
    PROVE  NotesInv'
<1>1. /\ NotesTyped /\ courier[w] = Idle /\ deliveryJob[x].state = "waiting"
      /\ UNCHANGED << claimed, dispatch, cancel, quiet, raced, delivery, exhausting, tried, stranded, mishaps >>
    BY DEF NotesInv, Pickup, CourierUnchanged
<1>2. /\ courier' \in [Couriers -> Loads] /\ courier'[w].of = {x} /\ courier'[w].pc = "read"
      /\ \A v \in Couriers \ {w} : courier'[v] = courier[v]
    BY <1>1 DEF Pickup, NotesTyped, Loads
<1>3. /\ deliveryJob' \in [Deliveries -> Jobs] /\ deliveryJob'[x].state = "active"
      /\ \A y \in Deliveries \ {x} : deliveryJob'[y] = deliveryJob[y]
    <2>1. deliveryJob \in [Deliveries -> Jobs] /\ deliveryJob[x] \in Jobs
        BY <1>1 DEF NotesTyped
    <2>2. deliveryJob' = [deliveryJob EXCEPT ![x] = [deliveryJob[x] EXCEPT !.state = "active"]]
        BY DEF Pickup
    <2>3. [deliveryJob[x] EXCEPT !.state = "active"] \in Jobs /\ [deliveryJob[x] EXCEPT !.state = "active"].state = "active"
        BY <2>1, JobsStayJobs
    <2> QED
        BY <2>1, <2>2, <2>3
<1>4. NotesTyped'
    BY <1>1, <1>2, <1>3 DEF NotesTyped
<1>5. RowsPlanned' /\ CancelsClear' /\ ClaimHeld'
    <2>1. delivery[x] # "none"
        BY <1>1 DEF NotesInv, RowsPlanned
    <2> QED
        BY <1>1, <1>3, <1>4, <2>1, RowWorkKeeps
<1>6. \A v \in Couriers : ~Carries(v, x)
    BY <1>1 DEF NotesInv, OneCourierEach
<1>7. OneCourierEach'
    BY <1>2, <1>3, <1>6 DEF NotesInv, OneCourierEach, Carries
<1>8. LeftAlone'
    BY <1>1, <1>2 DEF NotesInv, LeftAlone, Carries
<1>9. UnsettledHasJob'
    BY <1>1, <1>3 DEF NotesInv, UnsettledHasJob
<1> QED
    BY <1>4, <1>5, <1>7, <1>8, <1>9 DEF NotesInv

LEMMA FindKeepsNotes ==
    ASSUME NotesInv, NEW w \in Couriers, NEW x \in Deliveries, FindDelivery(w, x) \/ Send(w, x)
    PROVE  NotesInv'
<1>1. /\ NotesTyped /\ Carries(w, x) /\ courier[w] \in Loads /\ deliveryJob[x] \in Jobs
      /\ UNCHANGED << claimed, dispatch, cancel, quiet, raced, delivery, exhausting, stranded, mishaps >>
    BY DEF NotesInv, NotesTyped, FindDelivery, Send, CourierUnchanged
<1>2. deliveryJob[x].state = "active" /\ delivery[x] # "none"
    BY <1>1, CourierSafe
<1>3. \/ /\ FindDelivery(w, x) /\ delivery[x] \in {"CANCELLED", "SENT"} /\ tried' = tried
         /\ deliveryJob' = [deliveryJob EXCEPT ![x] = Completed(deliveryJob[x])]
         /\ courier' = [courier EXCEPT ![w] = Idle]
      \/ /\ deliveryJob' = deliveryJob
         /\ \E pc \in {"send", "SENT", "DEAD", "FAILED"} : courier' = [courier EXCEPT ![w].pc = pc]
         /\ \/ FindDelivery(w, x) /\ delivery[x] # "CANCELLED" /\ tried' = tried
            \/ courier[w].pc = "send" /\ tried' = tried \cup {x}
    BY DEF FindDelivery, Send
<1>4. /\ courier' \in [Couriers -> Loads] /\ \A v \in Couriers \ {w} : courier'[v] = courier[v]
      /\ courier'[w] = Idle \/ (courier'[w].of = {x} /\ deliveryJob' = deliveryJob)
    <2>1. courier \in [Couriers -> Loads] /\ courier[w].of = {x} /\ Idle \in Loads
        BY <1>1 DEF NotesTyped, Carries, Loads, Idle
    <2>2. \A pc \in {"send", "SENT", "DEAD", "FAILED"} :
              [courier[w] EXCEPT !.pc = pc] \in Loads /\ [courier[w] EXCEPT !.pc = pc].of = {x}
        BY <1>1, <2>1 DEF Loads
    <2>3. ASSUME courier' = [courier EXCEPT ![w] = Idle]
          PROVE  /\ courier' \in [Couriers -> Loads] /\ courier'[w] = Idle
                 /\ \A v \in Couriers \ {w} : courier'[v] = courier[v]
        BY <2>1, <2>3
    <2>4. ASSUME \E pc \in {"send", "SENT", "DEAD", "FAILED"} : courier' = [courier EXCEPT ![w].pc = pc]
          PROVE  /\ courier' \in [Couriers -> Loads] /\ courier'[w].of = {x}
                 /\ \A v \in Couriers \ {w} : courier'[v] = courier[v]
        <3>1. PICK pc \in {"send", "SENT", "DEAD", "FAILED"} : courier' = [courier EXCEPT ![w].pc = pc]
            BY <2>4
        <3>2. courier' = [courier EXCEPT ![w] = [courier[w] EXCEPT !.pc = pc]]
            BY <3>1
        <3> QED
            BY <2>1, <2>2, <3>2
    <2>5. CASE deliveryJob' = deliveryJob /\ ~(courier' = [courier EXCEPT ![w] = Idle])
        BY <1>3, <2>4, <2>5
    <2> QED
        BY <1>3, <2>3, <2>5
<1>5. /\ deliveryJob' \in [Deliveries -> Jobs]
      /\ \A y \in Deliveries \ {x} : deliveryJob'[y] = deliveryJob[y]
    <2>1. Completed(deliveryJob[x]) \in Jobs
        BY <1>1, JobsStayJobs
    <2> QED
        BY <1>1, <1>3, <2>1 DEF NotesTyped
<1>6. NotesTyped'
    <2>1. tried' \subseteq Deliveries
        BY <1>1, <1>3 DEF NotesTyped
    <2> QED
        BY <1>1, <1>4, <1>5, <2>1 DEF NotesTyped
<1>7. RowsPlanned' /\ CancelsClear' /\ ClaimHeld'
    BY <1>1, <1>2, <1>5, <1>6, RowWorkKeeps
<1>8. /\ OneCourierEach'
      /\ \A v \in Couriers, y \in Deliveries \ {x} : Carries(v, y)' => v # w /\ Carries(v, y)
      /\ \A v \in Couriers : Carries(v, x)' => v = w
    BY <1>1, <1>2, <1>4, <1>5, SlotWorkKeeps
<1>9. LeftAlone'
    <2>1. ASSUME x \in quiet
          PROVE  FindDelivery(w, x) /\ tried' = tried /\ courier'[w] = Idle
        <3>1. delivery[x] = "CANCELLED" /\ courier[w].pc = "read"
            BY <1>1, <2>1 DEF NotesInv, LeftAlone
        <3> QED
            BY <1>1, <1>3, <3>1 DEF NotesTyped
    <2>2. x \in quiet => \A v \in Couriers : ~Carries(v, x)'
        BY <1>8, <2>1 DEF Carries, Idle
    <2>3. \A y \in quiet : y \in Deliveries /\ y \notin tried'
        BY <1>1, <1>3, <2>1 DEF NotesInv, NotesTyped, LeftAlone
    <2> QED
        BY <1>1, <1>4, <1>8, <2>2, <2>3 DEF NotesInv, LeftAlone
<1>10. UnsettledHasJob'
    BY <1>1, <1>3, <1>5 DEF NotesInv, UnsettledHasJob
<1> QED
    BY <1>6, <1>7, <1>8, <1>9, <1>10 DEF NotesInv

LEMMA SettleKeepsNotes ==
    ASSUME NotesInv, NEW w \in Couriers, NEW x \in Deliveries, Settle(w, x) \/ CourierFails(w, x)
    PROVE  NotesInv'
<1>1. /\ NotesTyped /\ Carries(w, x) /\ deliveryJob[x] \in Jobs
      /\ UNCHANGED << claimed, dispatch, cancel, quiet, raced, tried, stranded >>
      /\ mishaps' \in Nat
    BY DEF NotesInv, NotesTyped, Settle, CourierFails, CourierUnchanged, Mishap
<1>2. deliveryJob[x].state = "active" /\ delivery[x] # "none"
    BY <1>1, CourierSafe
<1>3. \/ /\ courier[w].pc \in {"SENT", "DEAD"} /\ delivery' = [delivery EXCEPT ![x] = courier[w].pc]
         /\ deliveryJob' = [deliveryJob EXCEPT ![x] = Completed(deliveryJob[x])]
         /\ exhausting' = exhausting
      \/ /\ \/ courier[w].pc \in {"SENT", "DEAD", "FAILED"} /\ delivery' = [delivery EXCEPT ![x] = courier[w].pc]
            \/ delivery' = delivery
         /\ deliveryJob' = [deliveryJob EXCEPT ![x] = Rejected(deliveryJob[x])]
         /\ exhausting' = [exhausting EXCEPT ![x] = IF deliveryJob[x].failures + 1 >= Attempts THEN "read" ELSE @]
    BY DEF Settle, CourierFails, Throw
<1>4. courier' = [courier EXCEPT ![w] = Idle]
    BY DEF Settle, CourierFails, Throw
<1>5. /\ courier' \in [Couriers -> Loads] /\ courier'[w] = Idle
      /\ \A v \in Couriers \ {w} : courier'[v] = courier[v]
    BY <1>1, <1>4 DEF NotesTyped, Loads, Idle
<1>6. /\ deliveryJob' \in [Deliveries -> Jobs]
      /\ \A y \in Deliveries \ {x} : deliveryJob'[y] = deliveryJob[y]
    <2>1. Completed(deliveryJob[x]) \in Jobs /\ Rejected(deliveryJob[x]) \in Jobs
        BY <1>1, JobsStayJobs
    <2> QED
        BY <1>1, <1>3, <2>1 DEF NotesTyped
<1>7. /\ delivery' \in [Deliveries -> RowStates]
      /\ \A y \in Deliveries \ {x} : delivery'[y] = delivery[y]
      /\ delivery'[x] \in {delivery[x], "SENT", "DEAD", "FAILED"}
      /\ delivery' # delivery => courier[w].pc \in {"SENT", "DEAD", "FAILED"}
    BY <1>1, <1>3 DEF NotesTyped, RowStates
<1>8. /\ exhausting' \in [Deliveries -> {"no", "read", "mark"}]
      /\ \A y \in Deliveries \ {x} : exhausting'[y] = exhausting[y]
      /\ exhausting'[x] \in {exhausting[x], "read"}
    BY <1>1, <1>3 DEF NotesTyped
<1>9. NotesTyped'
    BY <1>1, <1>5, <1>6, <1>7, <1>8 DEF NotesTyped
<1>10. RowsPlanned' /\ CancelsClear' /\ ClaimHeld'
    BY <1>1, <1>2, <1>6, <1>7, <1>8, <1>9, RowWorkKeeps
<1>11. /\ OneCourierEach'
       /\ \A v \in Couriers, y \in Deliveries \ {x} : Carries(v, y)' => v # w /\ Carries(v, y)
       /\ \A v \in Couriers : Carries(v, x)' => v = w
    <2>1. \A y \in Deliveries \ {x} : deliveryJob'[y].state = deliveryJob[y].state
        BY <1>6
    <2>2. courier'[w] = Idle \/ (courier'[w].of = {x} /\ deliveryJob'[x].state = "active")
        BY <1>5
    <2>3. Carries(w, x) /\ \A v \in Couriers \ {w} : courier'[v] = courier[v]
        BY <1>1, <1>5
    <2> QED
        BY <2>1, <2>2, <2>3, SlotWorkKeeps
<1>12. LeftAlone'
    <2>1. x \in quiet => delivery' = delivery
        BY <1>1, <1>7 DEF NotesInv, LeftAlone
    <2>2. \A v \in Couriers : ~Carries(v, x)'
        BY <1>5, <1>11 DEF Carries, Idle
    <2>3. \A y \in quiet : y \in Deliveries
        BY <1>1 DEF NotesTyped
    <2>4. ASSUME NEW y \in quiet
          PROVE  delivery'[y] = "CANCELLED" /\ y \notin tried' /\ exhausting'[y] # "mark"
        BY <1>1, <1>7, <1>8, <2>1, <2>3 DEF NotesInv, LeftAlone
    <2>5. ASSUME NEW y \in quiet, NEW v \in Couriers, Carries(v, y)'
          PROVE  courier'[v].pc = "read"
        BY <1>5, <1>11, <2>2, <2>3, <2>5 DEF NotesInv, LeftAlone
    <2> QED
        BY <1>1, <2>4, <2>5 DEF LeftAlone
<1>13. UnsettledHasJob'
    <2>1. ASSUME delivery'[x] \in {"PENDING", "FAILED"}
          PROVE  exhausting'[x] # "no" \/ deliveryJob'[x].state = "waiting"
        <3>1. deliveryJob' = [deliveryJob EXCEPT ![x] = Rejected(deliveryJob[x])]
            BY <1>1, <1>3, <2>1 DEF NotesTyped
        <3>2. exhausting' = [exhausting EXCEPT ![x] = IF deliveryJob[x].failures + 1 >= Attempts THEN "read" ELSE @]
            BY <1>1, <1>3, <2>1 DEF NotesTyped
        <3>3. deliveryJob'[x].state = IF deliveryJob[x].failures + 1 < Attempts THEN "waiting" ELSE "failed"
            BY <1>1, <3>1, JobsStayJobs DEF NotesTyped
        <3>4. deliveryJob[x].failures \in Nat /\ Attempts \in Nat
            BY <1>1, JobQueueAssumption DEF Jobs
        <3> QED
            BY <1>1, <3>2, <3>3, <3>4 DEF NotesTyped
    <2>2. \A y \in Deliveries \ {x} :
              delivery'[y] = delivery[y] /\ exhausting'[y] = exhausting[y] /\ deliveryJob'[y] = deliveryJob[y]
        BY <1>6, <1>7, <1>8
    <2> QED
        BY <1>1, <2>1, <2>2 DEF NotesInv, UnsettledHasJob
<1> QED
    BY <1>9, <1>10, <1>11, <1>12, <1>13 DEF NotesInv

\* onExhausted.
LEMMA ExhaustionKeepsNotes ==
    ASSUME NotesInv, NEW x \in Deliveries, ReadExhausted(x) \/ MarkDead(x) \/ ExhaustedFails(x)
    PROVE  NotesInv'
<1>1. /\ NotesTyped /\ exhausting[x] # "no" /\ mishaps' \in Nat
      /\ UNCHANGED << claimed, dispatch, cancel, quiet, raced, deliveryJob, courier, tried >>
    BY DEF NotesInv, NotesTyped, ReadExhausted, MarkDead, ExhaustedFails, CourierUnchanged, Mishap
<1>2. /\ exhausting' \in [Deliveries -> {"no", "read", "mark"}]
      /\ \A y \in Deliveries \ {x} : exhausting'[y] = exhausting[y]
      /\ stranded' \in {stranded, stranded \cup {x}}
    BY <1>1 DEF NotesTyped, ReadExhausted, MarkDead, ExhaustedFails
<1>3. \/ delivery' = delivery
      \/ delivery' = [delivery EXCEPT ![x] = "DEAD"] /\ exhausting[x] = "mark"
    BY DEF ReadExhausted, MarkDead, ExhaustedFails
<1>4. delivery' \in [Deliveries -> RowStates] /\ \A y \in Deliveries \ {x} : delivery'[y] = delivery[y]
    BY <1>1, <1>3 DEF NotesTyped, RowStates
<1>5. NotesTyped'
    BY <1>1, <1>2, <1>4 DEF NotesTyped
<1>6. RowsPlanned' /\ CancelsClear' /\ ClaimHeld'
    <2>1. delivery[x] # "none"
        BY <1>1 DEF NotesInv, RowsPlanned
    <2>2. delivery'[x] \in {delivery[x], "DEAD"}
        BY <1>1, <1>3 DEF NotesTyped
    <2> QED
        BY <1>1, <1>2, <1>4, <1>5, <2>1, <2>2, RowWorkKeeps
<1>7. OneCourierEach'
    BY <1>1 DEF NotesInv, OneCourierEach, Carries
<1>8. LeftAlone'
    <2>1. \A y \in quiet : y \in Deliveries /\ (y = x => exhausting[x] = "read" /\ delivery[x] = "CANCELLED")
        BY <1>1 DEF NotesInv, NotesTyped, LeftAlone
    <2>2. x \in quiet => exhausting'[x] = "no" /\ delivery' = delivery
        BY <1>1, <1>3, <2>1 DEF NotesTyped, ReadExhausted, MarkDead, ExhaustedFails
    <2>3. \A y \in quiet, v \in Couriers : Carries(v, y)' => courier'[v].pc = "read"
        BY <1>1 DEF NotesInv, LeftAlone, Carries
    <2> QED
        BY <1>1, <1>2, <1>4, <2>1, <2>2, <2>3 DEF NotesInv, LeftAlone
<1>9. UnsettledHasJob'
    <2>1. \/ delivery'[x] \notin {"PENDING", "FAILED"} \/ x \in stranded'
          \/ exhausting'[x] # "no"
        BY <1>1 DEF NotesTyped, ReadExhausted, MarkDead, ExhaustedFails
    <2> QED
        BY <1>1, <1>2, <1>4, <2>1 DEF NotesInv, UnsettledHasJob
<1> QED
    BY <1>5, <1>6, <1>7, <1>8, <1>9 DEF NotesInv

-----------------------------------------------------------------------------
(* cancelPending. *)

\* Rows that stay rows and jobs that stay absent keep what was planned.
LEMMA CancelKeepsPlans ==
    ASSUME NotesInv, UNCHANGED << claimed, dispatch, exhausting, raced >>,
           \A y \in Deliveries : /\ delivery'[y] = "none" <=> delivery[y] = "none"
                                 /\ deliveryJob[y].state = "none" => deliveryJob'[y].state = "none"
    PROVE  RowsPlanned' /\ ClaimHeld'
<1>1. \A d \in Dispatches : \A y \in RowsOf(d) : y \in Deliveries
    BY RowIsItsDispatchs
<1>2. RowsPlanned'
    BY <1>1 DEF NotesInv, RowsPlanned, Planning
<1>3. \A d \in Dispatches : Notifies(d)' <=> Notifies(d)
    BY <1>1 DEF Notifies, DispatchAt
<1> QED
    BY <1>2, <1>3 DEF NotesInv, ClaimHeld, DispatchAt

LEMMA ReadPendingKeepsNotes ==
    ASSUME NotesInv, NEW d \in Dispatches, ReadPending(d) \/ CancelFails(d)
    PROVE  NotesInv'
<1>1. /\ NotesTyped /\ mishaps' \in Nat
      /\ UNCHANGED << claimed, dispatch, courier, exhausting, tried, raced, delivery, deliveryJob, quiet, stranded >>
    BY DEF NotesInv, NotesTyped, ReadPending, CancelFails, CancelUnchanged, Mishap
<1>2. PICK new \in {[pc |-> "update", ids |-> Pending(d)], [pc |-> "done", ids |-> {}]} :
          cancel' = [cancel EXCEPT ![d] = new]
    BY DEF ReadPending, CancelFails
<1>3. Pending(d) \subseteq RowsOf(d) /\ Pending(d) \subseteq Deliveries
    BY RowIsItsDispatchs DEF Pending
<1>4. /\ cancel' \in [Dispatches -> Cancels] /\ cancel'[d].pc # "remove" /\ cancel'[d].ids \subseteq RowsOf(d)
      /\ \A e \in Dispatches \ {d} : cancel'[e] = cancel[e]
    BY <1>1, <1>2, <1>3 DEF NotesTyped, Cancels
<1>5. ~Planning(d)
    <2>1. CASE ReadPending(d)
        BY <2>1 DEF ReadPending, Pending, NotesInv, RowsPlanned
    <2>2. CASE CancelFails(d)
        BY <2>2 DEF CancelFails, NotesInv, CancelsClear
    <2> QED
        BY <2>1, <2>2
<1>6. NotesTyped'
    BY <1>1, <1>4 DEF NotesTyped
<1>7. RowsPlanned' /\ ClaimHeld'
    BY <1>1, CancelKeepsPlans
<1>8. CancelsClear'
    BY <1>1, <1>4, <1>5 DEF NotesInv, CancelsClear, Planning
<1>9. OneCourierEach' /\ LeftAlone' /\ UnsettledHasJob'
    BY <1>1 DEF NotesInv, OneCourierEach, LeftAlone, UnsettledHasJob, Carries
<1> QED
    BY <1>6, <1>7, <1>8, <1>9 DEF NotesInv

LEMMA CancelRowsKeepsNotes ==
    ASSUME NotesInv, NEW d \in Dispatches, CancelRows(d)
    PROVE  NotesInv'
<1>1. /\ NotesTyped /\ cancel[d].pc = "update" /\ cancel' = [cancel EXCEPT ![d].pc = "remove"]
      /\ delivery' = [x \in Deliveries |-> IF x \in Pending(d) THEN "CANCELLED" ELSE delivery[x]]
      /\ quiet' = quiet \cup {x \in Pending(d) : ~Busy(x) /\ x \notin tried}
      /\ UNCHANGED << claimed, dispatch, courier, exhausting, tried, raced, deliveryJob, stranded, mishaps >>
    BY DEF NotesInv, CancelRows, CancelUnchanged
<1>2. \A x \in Pending(d) : x \in RowsOf(d) /\ x \in Deliveries /\ delivery[x] = "PENDING"
    BY RowIsItsDispatchs DEF Pending
<1>3. /\ cancel' \in [Dispatches -> Cancels] /\ cancel'[d].ids = cancel[d].ids
      /\ \A e \in Dispatches \ {d} : cancel'[e] = cancel[e]
    BY <1>1 DEF NotesTyped, Cancels
<1>4. /\ delivery' \in [Deliveries -> RowStates]
      /\ \A x \in Deliveries : delivery'[x] # delivery[x] => delivery[x] = "PENDING" /\ delivery'[x] = "CANCELLED"
    BY <1>1, <1>2 DEF NotesTyped, RowStates
<1>5. NotesTyped'
    BY <1>1, <1>2, <1>3, <1>4 DEF NotesTyped
<1>6. RowsPlanned' /\ ClaimHeld'
    <2>1. \A x \in Deliveries : /\ delivery'[x] = "none" <=> delivery[x] = "none"
                                /\ deliveryJob[x].state = "none" => deliveryJob'[x].state = "none"
        BY <1>1, <1>4
    <2> QED
        BY <1>1, <2>1, CancelKeepsPlans
<1>7. CancelsClear'
    <2>1. \A x \in RowsOf(d) : delivery'[x] # "PENDING"
        BY <1>1, RowIsItsDispatchs DEF Pending
    <2>2. \A e \in Dispatches : \A x \in RowsOf(e) : delivery'[x] = "PENDING" => delivery[x] = "PENDING"
        <3>1. \A e \in Dispatches : \A x \in RowsOf(e) : x \in Deliveries
            BY RowIsItsDispatchs
        <3> QED
            BY <1>4, <3>1
    <2> QED
        BY <1>1, <1>3, <2>1, <2>2 DEF NotesInv, CancelsClear, Planning
<1>8. LeftAlone'
    <2>1. ASSUME NEW x \in quiet
          PROVE  /\ delivery'[x] = "CANCELLED" /\ x \notin tried' /\ exhausting'[x] # "mark"
                 /\ \A w \in Couriers : Carries(w, x)' => courier'[w].pc = "read"
        BY <1>1, <1>4 DEF NotesInv, LeftAlone, NotesTyped, Carries
    <2>2. ASSUME NEW x \in Pending(d), ~Busy(x), x \notin tried
          PROVE  /\ delivery'[x] = "CANCELLED" /\ x \notin tried' /\ exhausting'[x] # "mark"
                 /\ \A w \in Couriers : Carries(w, x)' => courier'[w].pc = "read"
        BY <1>1, <1>2, <2>2 DEF Busy, Carries
    <2> QED
        BY <1>1, <2>1, <2>2 DEF LeftAlone
<1>9. OneCourierEach'
    BY <1>1 DEF NotesInv, OneCourierEach, Carries
<1>10. UnsettledHasJob'
    BY <1>1, <1>4 DEF NotesInv, UnsettledHasJob
<1> QED
    BY <1>5, <1>6, <1>7, <1>8, <1>9, <1>10 DEF NotesInv

LEMMA RemoveKeepsNotes ==
    ASSUME NotesInv, NEW d \in Dispatches, RemoveDelivery(d)
    PROVE  NotesInv'
<1>1. /\ NotesTyped /\ cancel[d].pc = "remove"
      /\ UNCHANGED << claimed, dispatch, courier, exhausting, tried, raced, delivery, quiet, mishaps >>
    BY DEF NotesInv, RemoveDelivery, CancelUnchanged
<1>2. PICK x \in cancel[d].ids :
          LET left == cancel[d].ids \ {x}
              removed == deliveryJob[x].state # "active" IN
          /\ cancel' = [cancel EXCEPT ![d] = [pc |-> IF left = {} THEN "done" ELSE "remove", ids |-> left]]
          /\ deliveryJob' = [deliveryJob EXCEPT ![x] = IF removed THEN NoJob ELSE @]
          /\ stranded' = IF removed /\ delivery[x] = "FAILED" THEN stranded \cup {x} ELSE stranded
    BY DEF RemoveDelivery
<1>3. x \in RowsOf(d) /\ x \in Deliveries /\ delivery[x] # "PENDING"
    BY <1>1, RowIsItsDispatchs DEF NotesInv, CancelsClear
<1>4. /\ cancel' \in [Dispatches -> Cancels] /\ cancel'[d].ids \subseteq cancel[d].ids
      /\ \A e \in Dispatches \ {d} : cancel'[e] = cancel[e]
    BY <1>1, <1>2 DEF NotesTyped, Cancels
<1>5. /\ deliveryJob' \in [Deliveries -> Jobs]
      /\ \A y \in Deliveries \ {x} : deliveryJob'[y] = deliveryJob[y]
      /\ \/ deliveryJob'[x] = deliveryJob[x] /\ deliveryJob[x].state = "active"
         \/ /\ deliveryJob[x].state # "active" /\ deliveryJob'[x] = NoJob
            /\ delivery[x] = "FAILED" => stranded' = stranded \cup {x}
      /\ stranded' \in {stranded, stranded \cup {x}}
    <2>1. NoJob \in Jobs
        BY DEF NoJob, Jobs, JobStates
    <2> QED
        BY <1>1, <1>2, <1>3, <2>1 DEF NotesTyped
<1>6. NoJob.state = "none"
    BY DEF NoJob
<1>7. NotesTyped'
    BY <1>1, <1>3, <1>4, <1>5 DEF NotesTyped
<1>8. RowsPlanned' /\ ClaimHeld'
    BY <1>1, <1>5, <1>6, CancelKeepsPlans
<1>9. CancelsClear'
    BY <1>1, <1>4 DEF NotesInv, CancelsClear, Planning
<1>10. OneCourierEach'
    BY <1>1, <1>5 DEF NotesInv, OneCourierEach, Carries
<1>11. LeftAlone'
    BY <1>1 DEF NotesInv, LeftAlone, Carries
<1>12. UnsettledHasJob'
    BY <1>1, <1>3, <1>5 DEF NotesInv, UnsettledHasJob
<1> QED
    BY <1>7, <1>8, <1>9, <1>10, <1>11, <1>12 DEF NotesInv

-----------------------------------------------------------------------------
LEMMA CrashKeepsNotes ==
    ASSUME NotesInv, NotificationsCrash
    PROVE  NotesInv'
<1>1. NotesTyped /\ mishaps' \in Nat /\ UNCHANGED << claimed, delivery, tried, quiet, raced >>
    BY DEF NotesInv, NotesTyped, NotificationsCrash, Mishap
<1>2. /\ dispatch' \in [Dispatches -> DispatchStates]
      /\ \A d \in Dispatches : /\ dispatch'[d].todo = {}
                               /\ dispatch'[d].pc = dispatch[d].pc \/ dispatch'[d].pc = "failed"
                               /\ dispatch'[d].pc \notin {"claim", "plan", "enqueue"}
    BY <1>1 DEF NotificationsCrash, NotesTyped, DispatchStates
<1>3. /\ cancel' \in [Dispatches -> Cancels]
      /\ \A d \in Dispatches : /\ cancel'[d].ids = {} /\ cancel'[d].pc # "remove"
                               /\ cancel'[d].pc # "idle" => cancel[d].pc # "idle"
    BY DEF NotificationsCrash, Cancels
<1>4. courier' \in [Couriers -> Loads] /\ \A w \in Couriers, x \in Deliveries : ~Carries(w, x)'
    BY DEF NotificationsCrash, Loads, Idle, Carries
<1>5. exhausting' \in [Deliveries -> {"no", "read", "mark"}] /\ \A x \in Deliveries : exhausting'[x] = "no"
    BY DEF NotificationsCrash
<1>6. /\ deliveryJob' \in [Deliveries -> Jobs]
      /\ \A x \in Deliveries :
             \/ deliveryJob'[x] = deliveryJob[x] /\ deliveryJob[x].state # "active"
             \/ deliveryJob[x].state = "active" /\ deliveryJob'[x].state \in {"waiting", "failed"}
    <2>1. \A x \in Deliveries : deliveryJob[x] \in Jobs
        BY <1>1 DEF NotesTyped
    <2>2. \A x \in Deliveries : Stalled(deliveryJob[x]) \in Jobs /\ Stalled(deliveryJob[x]).state \in {"waiting", "failed"}
        BY <2>1, JobsStayJobs
    <2>3. deliveryJob' = [x \in Deliveries |-> IF deliveryJob[x].state = "active" THEN Stalled(deliveryJob[x])
                                               ELSE deliveryJob[x]]
        BY DEF NotificationsCrash
    <2> QED
        BY <2>1, <2>2, <2>3
<1>7. /\ \A x \in Deliveries : exhausting[x] # "no" \/ deliveryJob'[x].state = "failed" => x \in stranded'
      /\ \A d \in Dispatches : dispatch[d].todo \subseteq stranded'
      /\ stranded \subseteq stranded' /\ stranded' \subseteq Deliveries
    <2> DEFINE dropped == UNION {dispatch[d].todo : d \in Dispatches}
               parked == {x \in Deliveries : exhausting[x] # "no" \/ deliveryJob'[x].state = "failed"}
    <2>1. stranded' = stranded \cup dropped \cup parked
        BY DEF NotificationsCrash
    <2>2. dropped \subseteq Deliveries /\ \A d \in Dispatches : dispatch[d].todo \subseteq dropped
        BY <1>1 DEF NotesTyped, DispatchStates
    <2>3. /\ parked \subseteq Deliveries
          /\ \A x \in Deliveries : exhausting[x] # "no" \/ deliveryJob'[x].state = "failed" => x \in parked
        OBVIOUS
    <2>4. stranded \subseteq Deliveries
        BY <1>1 DEF NotesTyped
    <2> HIDE DEF dropped, parked
    <2> QED
        BY <2>1, <2>2, <2>3, <2>4
<1>8. NotesTyped'
    BY <1>1, <1>2, <1>3, <1>4, <1>5, <1>6, <1>7 DEF NotesTyped
<1>9. RowsPlanned'
    <2>1. \A x \in Deliveries : delivery[x] = "none" => deliveryJob'[x].state = "none"
        BY <1>6 DEF NotesInv, RowsPlanned
    <2>2. ASSUME NEW d \in Dispatches, dispatch'[d].pc \in {"idle", "claim", "plan"}
          PROVE  \A x \in RowsOf(d) : delivery'[x] = "none"
        BY <1>1, <1>2, <2>2 DEF NotesInv, RowsPlanned, Planning
    <2> QED
        BY <1>1, <1>2, <1>5, <2>1, <2>2 DEF RowsPlanned, Planning
<1>10. OneCourierEach'
    BY <1>4 DEF OneCourierEach
<1>11. CancelsClear'
    <2>1. ASSUME NEW d \in Dispatches
          PROVE  cancel'[d].pc # "idle" => dispatch'[d].pc \notin {"idle", "claim", "plan"}
        <3>1. cancel[d].pc # "idle" => dispatch[d].pc \notin {"idle", "claim", "plan"}
            BY DEF NotesInv, CancelsClear, Planning
        <3> QED
            BY <1>2, <1>3, <3>1
    <2> QED
        BY <1>3, <2>1 DEF CancelsClear, Planning
<1>12. LeftAlone'
    BY <1>1, <1>4, <1>5 DEF NotesInv, NotesTyped, LeftAlone
<1>13. ClaimHeld'
    <2>1. \A d \in Dispatches : Notifies(d)' => Notifies(d)
        BY <1>1, <1>2 DEF Notifies, DispatchAt
    <2> QED
        BY <1>1, <1>2, <2>1 DEF NotesInv, ClaimHeld, DispatchAt
<1>14. UnsettledHasJob'
    BY <1>1, <1>6, <1>7, DeliveryIsARow DEF NotesInv, UnsettledHasJob
<1> QED
    BY <1>8, <1>9, <1>10, <1>11, <1>12, <1>13, <1>14 DEF NotesInv

LEMMA NotesStutter ==
    ASSUME NotesInv, UNCHANGED noteVars
    PROVE  NotesInv'
<1> USE DEF noteVars, NotesInv
<1>1. NotesTyped' /\ RowsPlanned' /\ OneCourierEach' /\ CancelsClear'
    BY DEF NotesTyped, RowsPlanned, OneCourierEach, CancelsClear, Planning, Carries
<1>2. LeftAlone' /\ UnsettledHasJob'
    BY DEF LeftAlone, UnsettledHasJob, Carries
<1>3. ClaimHeld'
    BY DEF ClaimHeld, Notifies, DispatchAt
<1> QED
    BY <1>1, <1>2, <1>3

THEOREM NotesInvariant == NotificationsSpec => []NotesInv
<1>1. NotificationsInit => NotesInv
    BY NotesStart
<1>2. NotesInv /\ [NotificationsNext]_noteVars => NotesInv'
    BY ClaimKeepsNotes, CreateKeepsNotes, EnqueueKeepsNotes, DispatchFailureKeepsNotes, ExpiryKeepsNotes,
       PickupKeepsNotes, FindKeepsNotes, SettleKeepsNotes, ExhaustionKeepsNotes, ReadPendingKeepsNotes,
       CancelRowsKeepsNotes, RemoveKeepsNotes, CrashKeepsNotes, NotesStutter
    DEF NotificationsNext
<1> QED
    BY <1>1, <1>2, PTL DEF NotificationsSpec

\* The rows, jobs and slots of the notifications keep their types.
THEOREM NotesKeepTypes == NotificationsSpec => []NotificationsTypeOK
<1>1. NotesInv => NotificationsTypeOK
    BY DEF NotesInv, NotesTyped, NotificationsTypeOK, DispatchStates, RowStates, Cancels, Loads, Jobs, JobTypeOK
<1> QED
    BY <1>1, NotesInvariant, PTL

\* A delivery that is not settled is on somebody's list, unless a fault, a
\* crash or a cancel dropped it: between the rows' insert, the enqueueing, the
\* worker's throw and onExhausted no delivery falls through.
THEOREM NothingFallsThrough == NotificationsSpec => []UnsettledHasJob
<1>1. NotesInv => UnsettledHasJob
    BY DEF NotesInv
<1> QED
    BY <1>1, NotesInvariant, PTL

\* A delivery that cancelPending took while nobody worked on it is never sent.
THEOREM CancelIsFinal == NotificationsSpec => []CancelledStaysUnsent
<1>1. NotesInv => CancelledStaysUnsent
    BY DEF NotesInv, LeftAlone, CancelledStaysUnsent
<1> QED
    BY <1>1, NotesInvariant, PTL

\* DedupeService.claim lets one dispatch of a key through, unless two looked
\* before either set the key.
THEOREM DedupeHolds == NotificationsSpec => []KeyNotifiesOnce
<1>1. NotesInv => KeyNotifiesOnce
    <2> SUFFICES ASSUME NotesInv, ~raced
                 PROVE  Cardinality({d \in Dispatches : \E x \in RowsOf(d) : delivery[x] # "none"}) <= 1
        BY DEF KeyNotifiesOnce
    <2> DEFINE notified == {d \in Dispatches : \E x \in RowsOf(d) : delivery[x] # "none"}
    <2>1. \A d, e \in notified : d = e
        BY DEF NotesInv, ClaimHeld, Notifies
    <2> HIDE DEF notified
    <2>2. notified = {} \/ \E d : notified = {d}
        BY <2>1
    <2>3. Cardinality(notified) \in {0, 1}
        BY <2>2, FS_EmptySet, FS_Singleton
    <2> QED
        BY <2>3 DEF notified
<1> QED
    BY <1>1, NotesInvariant, PTL

-----------------------------------------------------------------------------
(* The event bus. *)

LogStates == {"none", "published", "dispatched", "failed"}
Envelopes == [event : Events, keyed : BOOLEAN, letter : Nat, log : LogStates]
PubStates == [pc : {"idle", "check", "mark", "log", "sync", "enqueue", "resolve", "mark letter"}, env : Nat, h : Nat]
BusJobs == [env : Nat, queue : Jobs]
WorkStates == [pc : {"idle", "handle", "return", "letter", "throw", "fail"}, id : {0} \cup JobIds, h : Nat]
Letters == [env : Nat, handler : HandlersOf, status : {"pending", "replayed", "discarded"}]

\* Where a worker may be in the list of handlers.
WorkPlaced(w) ==
    IF WorkAt(w, "idle") THEN work[w] = IdleWork
    ELSE /\ work[w].id \in JobIds /\ work[w].h \in 1 .. Len(AsyncHandlers) + 1
         /\ work[w].pc \in {"letter", "throw", "fail"} => work[w].h \in DOMAIN AsyncHandlers
         /\ WorkAt(w, "return") => work[w].h > Len(AsyncHandlers)

BusTyped ==
    /\ envelopes \in Seq(Envelopes) /\ Len(envelopes) <= MaxEnvelopes
    /\ seen \subseteq KeyedEvents /\ accepted \subseteq Events /\ broken \subseteq KeyedEvents
    /\ pub \in [Publishers -> PubStates]
    /\ \A p \in Publishers : IF At(p, "idle") THEN pub[p] = IdlePub ELSE pub[p].env \in DOMAIN envelopes
    /\ job \in [JobIds -> BusJobs]
    /\ work \in [Workers -> WorkStates] /\ \A w \in Workers : WorkPlaced(w)
    /\ letters \in Seq(Letters) /\ \A l \in DOMAIN letters : letters[l].env \in DOMAIN envelopes
    /\ runs \in [JobIds -> [HandlersOf -> Nat]] /\ ended \in [JobIds -> SUBSET HandlersOf]
    /\ faults \in Nat /\ crashes \in Nat

\* A replay has no key, and publishes again what an async handler gave up.
EnvelopeKnown(i) ==
    /\ envelopes[i].keyed => envelopes[i].event \in KeyedEvents /\ envelopes[i].letter = 0
    /\ envelopes[i].letter # 0 => envelopes[i].letter \in DOMAIN letters /\ Async(envelopes[i].event)

\* A job has the id of its envelope, once one was added.
JobKnown(j) ==
    /\ job[j].env = 0 <=> job[j].queue.state = "none"
    /\ job[j].env # 0 => /\ job[j].env \in DOMAIN envelopes /\ JobId(job[j].env) = j
                        /\ Async(envelopes[job[j].env].event)

BusKnown ==
    /\ \A i \in DOMAIN envelopes : EnvelopeKnown(i)
    /\ \A j \in JobIds : JobKnown(j)
    /\ \A l \in DOMAIN letters : Async(envelopes[letters[l].env].event)

\* What publish() has done by the point it is at.
PubOK(p) ==
    /\ pub[p].pc \in {"check", "mark"} => EnvOf(p).keyed
    /\ At(p, "enqueue") => Async(EventOf(p))
    /\ At(p, "mark letter") => EnvOf(p).letter # 0
    /\ pub[p].pc \in {"resolve", "mark letter"} /\ Async(EventOf(p)) => job[JobId(pub[p].env)].env # 0

\* A job that is worked on is active, and one worker's.
WorkOwned ==
    /\ \A w \in Workers : ~WorkAt(w, "idle") => job[work[w].id].queue.state = "active"
    /\ \A v, w \in Workers : ~WorkAt(v, "idle") /\ work[v].id = work[w].id => v = w

\* The handlers before the worker's have returned, in this attempt or before.
OutcomesInv ==
    /\ \A w \in Workers : work[w].pc \in {"handle", "return"} =>
           \A k \in DOMAIN AsyncHandlers : k < work[w].h => AsyncHandlers[k] \in ended[work[w].id]
    /\ \A j \in JobIds : job[j].queue.state = "completed" => ended[j] = HandlersOf
    /\ \A i \in DOMAIN envelopes : envelopes[i].log = "dispatched" => ended[JobId(i)] = HandlersOf

HasLetter(j) == faults > 0 \/ \E l \in DOMAIN letters : letters[l].env = job[j].env

\* The last attempt leaves its letter before the job is parked.
LettersInv ==
    /\ \A j \in JobIds :
        /\ job[j].queue.failures <= Attempts
        /\ job[j].queue.state \in {"none", "waiting", "active"} => job[j].queue.failures < Attempts
        /\ job[j].queue.failures = Attempts => HasLetter(j)
    /\ \A w \in Workers :
        /\ WorkAt(w, "throw") => job[work[w].id].queue.failures + 1 < Attempts
        /\ \A j \in JobIds : WorkAt(w, "fail") /\ work[w].id = j => HasLetter(j)

Tries(j) == job[j].queue.failures + job[j].queue.stalls

\* An attempt that is over counts as a failure or a stall before the next one.
RunsInv ==
    /\ \A j \in JobIds, h \in HandlersOf :
        /\ runs[j][h] <= 1 + Tries(j)
        /\ job[j].queue.state \in {"none", "waiting"} => runs[j][h] <= Tries(j)
        /\ job[j].queue.state = "none" => runs[j][h] = 0
    /\ \A w \in Workers, j \in JobIds : WorkAt(w, "handle") /\ work[w].id = j =>
        \A k \in DOMAIN AsyncHandlers : k >= work[w].h => runs[j][AsyncHandlers[k]] <= Tries(j)

\* A call that marked the key and still has to enqueue, or fail.
Committed(e) ==
    \E p \in Publishers : pub[p].pc \in {"log", "sync", "enqueue"} /\ EventOf(p) = e /\ EnvOf(p).keyed

Replayed(l) == \E i \in DOMAIN envelopes : envelopes[i].letter = l /\ job[i].env = i

ReportedInv ==
    /\ \A e \in accepted \cup seen : Async(e) => HasJob(e) \/ Committed(e) \/ e \in broken
    /\ \A l \in DOMAIN letters : letters[l].status = "replayed" => Replayed(l)

BusInv ==
    /\ BusTyped /\ BusKnown /\ (\A p \in Publishers : PubOK(p)) /\ WorkOwned
    /\ OutcomesInv /\ LettersInv /\ RunsInv /\ ReportedInv

-----------------------------------------------------------------------------
LEMMA ZeroIsNoJob == 0 \notin JobIds /\ DOMAIN AsyncHandlers = 1 .. Len(AsyncHandlers) /\ Len(AsyncHandlers) \in Nat
<1>1. 0 \notin KeyedEvents
    BY EventsAssumption
<1>2. 0 \notin EnvIds
    BY EventsAssumption DEF EnvIds
<1>3. DOMAIN AsyncHandlers = 1 .. Len(AsyncHandlers) /\ Len(AsyncHandlers) \in Nat
    BY EventsAssumption, LenProperties
<1> QED
    BY <1>1, <1>2, <1>3 DEF JobIds

LEMMA EnvelopesNumbered ==
    ASSUME BusTyped
    PROVE  /\ Len(envelopes) \in Nat /\ DOMAIN envelopes = 1 .. Len(envelopes) /\ DOMAIN envelopes \subseteq EnvIds
           /\ \A i \in DOMAIN envelopes : envelopes[i] \in Envelopes /\ i \in Nat /\ i # 0
           /\ Len(letters) \in Nat /\ DOMAIN letters = 1 .. Len(letters)
           /\ \A l \in DOMAIN letters : letters[l] \in Letters /\ l \in Nat /\ l # 0
<1>1. envelopes \in Seq(Envelopes) /\ letters \in Seq(Letters) /\ Len(envelopes) <= MaxEnvelopes
    BY DEF BusTyped
<1>2. Len(envelopes) \in Nat /\ DOMAIN envelopes = 1 .. Len(envelopes) /\ envelopes \in [1 .. Len(envelopes) -> Envelopes]
    BY <1>1, LenProperties
<1>3. Len(letters) \in Nat /\ DOMAIN letters = 1 .. Len(letters) /\ letters \in [1 .. Len(letters) -> Letters]
    BY <1>1, LenProperties
<1>4. DOMAIN envelopes \subseteq EnvIds
    BY <1>1, <1>2, EventsAssumption DEF EnvIds
<1> QED
    BY <1>2, <1>3, <1>4

\* A key is no envelope's number, and both are job ids.
LEMMA JobIdIsAJobs ==
    ASSUME BusTyped, BusKnown, NEW i \in DOMAIN envelopes
    PROVE  /\ JobId(i) \in JobIds
           /\ JobId(i) \in Nat => JobId(i) = i /\ ~envelopes[i].keyed
           /\ JobId(i) \in KeyedEvents => envelopes[i].keyed /\ envelopes[i].event = JobId(i)
<1>1. envelopes[i] \in Envelopes /\ i \in Nat /\ i \in EnvIds
    BY EnvelopesNumbered
<1>2. envelopes[i].keyed => envelopes[i].event \in KeyedEvents
    BY DEF BusKnown, EnvelopeKnown
<1>3. \A e \in KeyedEvents : e \notin Nat
    BY EventsAssumption
<1> QED
    BY <1>1, <1>2, <1>3 DEF JobId, JobIds

LEMMA BusStart ==
    ASSUME Init
    PROVE  BusInv
<1>1. envelopes = << >> /\ letters = << >> /\ DOMAIN envelopes = {} /\ DOMAIN letters = {} /\ Len(envelopes) = 0
    BY DEF Init
<1>2. NoJob \in Jobs /\ NoJob.state = "none" /\ NoJob.failures = 0 /\ NoJob.stalls = 0
    BY DEF Jobs, JobStates, NoJob
<1>3. \A j \in JobIds : job[j].queue = NoJob /\ job[j].env = 0
    BY DEF Init
<1>4. BusTyped
    <2>1. envelopes \in Seq(Envelopes) /\ letters \in Seq(Letters) /\ Len(envelopes) <= MaxEnvelopes
        BY <1>1, EventsAssumption
    <2>2. pub \in [Publishers -> PubStates] /\ \A p \in Publishers : At(p, "idle") /\ pub[p] = IdlePub
        BY DEF Init, PubStates, IdlePub, At
    <2>3. work \in [Workers -> WorkStates] /\ \A w \in Workers : WorkPlaced(w)
        BY DEF Init, WorkStates, IdleWork, WorkPlaced, WorkAt
    <2>4. job \in [JobIds -> BusJobs]
        BY <1>2 DEF Init, BusJobs
    <2>5. runs \in [JobIds -> [HandlersOf -> Nat]] /\ ended \in [JobIds -> SUBSET HandlersOf]
        BY DEF Init
    <2> QED
        BY <1>1, <2>1, <2>2, <2>3, <2>4, <2>5 DEF Init, BusTyped
<1>5. BusKnown
    BY <1>1, <1>2, <1>3 DEF BusKnown, JobKnown
<1>6. \A p \in Publishers : PubOK(p)
    BY DEF Init, PubOK, IdlePub, At
<1>7. WorkOwned /\ OutcomesInv
    BY <1>1, <1>2, <1>3 DEF Init, WorkOwned, OutcomesInv, IdleWork, WorkAt
<1>8. LettersInv
    BY <1>2, <1>3, JobQueueAssumption DEF Init, LettersInv, IdleWork, WorkAt
<1>9. RunsInv
    BY <1>2, <1>3 DEF Init, RunsInv, Tries, IdleWork, WorkAt
<1>10. ReportedInv
    BY <1>1 DEF Init, ReportedInv
<1> QED
    BY <1>4, <1>5, <1>6, <1>7, <1>8, <1>9, <1>10 DEF BusInv

-----------------------------------------------------------------------------
(* What every step keeps of envelopes, letters and jobs. *)

EnvelopesKept ==
    \A i \in DOMAIN envelopes : /\ i \in DOMAIN envelopes' /\ envelopes'[i].event = envelopes[i].event
                                /\ envelopes'[i].keyed = envelopes[i].keyed
                                /\ envelopes'[i].letter = envelopes[i].letter

LettersKept == \A l \in DOMAIN letters : l \in DOMAIN letters' /\ letters'[l].env = letters[l].env

JobsKept == \A j \in JobIds : job[j].env # 0 => job'[j].env = job[j].env

LEMMA KeptFacts ==
    ASSUME BusInv, EnvelopesKept, LettersKept, JobsKept
    PROVE  /\ \A i \in DOMAIN envelopes : JobId(i)' = JobId(i)
           /\ \A e : HasJob(e) => HasJob(e)'
           /\ \A l : Replayed(l) => Replayed(l)'
           /\ faults' \in Nat /\ faults' >= faults => \A j \in JobIds : job[j].env # 0 /\ HasLetter(j) => HasLetter(j)'
<1>1. BusTyped /\ BusKnown /\ faults \in Nat
    BY DEF BusInv, BusTyped
<1>2. \A i \in DOMAIN envelopes : JobId(i)' = JobId(i)
    BY DEF EnvelopesKept, JobId
<1>3. \A e : HasJob(e) => HasJob(e)'
    <2> SUFFICES ASSUME NEW e, NEW j \in JobIds, job[j].env # 0, envelopes[job[j].env].event = e
                 PROVE  HasJob(e)'
        BY DEF HasJob
    <2>1. job'[j].env = job[j].env /\ job[j].env \in DOMAIN envelopes
        BY <1>1 DEF JobsKept, BusKnown, JobKnown
    <2> QED
        BY <2>1 DEF HasJob, EnvelopesKept
<1>4. \A l : Replayed(l) => Replayed(l)'
    <2> SUFFICES ASSUME NEW l, NEW i \in DOMAIN envelopes, envelopes[i].letter = l, job[i].env = i
                 PROVE  Replayed(l)'
        BY DEF Replayed
    <2>1. i \in JobIds /\ i # 0
        BY <1>1, EnvelopesNumbered DEF JobIds
    <2>2. job'[i].env = i /\ i \in DOMAIN envelopes' /\ envelopes'[i].letter = l
        BY <2>1 DEF JobsKept, EnvelopesKept
    <2> QED
        BY <2>2 DEF Replayed
<1>5. ASSUME faults' \in Nat, faults' >= faults, NEW j \in JobIds, job[j].env # 0, HasLetter(j)
      PROVE  HasLetter(j)'
    <2>1. CASE faults > 0
        <3>1. faults' > 0
            BY <1>1, <1>5, <2>1
        <3> QED
            BY <3>1 DEF HasLetter
    <2>2. CASE \E l \in DOMAIN letters : letters[l].env = job[j].env
        BY <1>5, <2>2 DEF HasLetter, LettersKept, JobsKept
    <2> QED
        BY <1>5, <2>1, <2>2 DEF HasLetter
<1> QED
    BY <1>2, <1>3, <1>4, <1>5

\* Every step but Enqueue leaves the envelope of a job alone.
LEMMA KnownFrame ==
    ASSUME BusInv, BusTyped', EnvelopesKept, LettersKept,
           \A i \in DOMAIN envelopes' : i \in DOMAIN envelopes \/ EnvelopeKnown(i)',
           \A l \in DOMAIN letters' : l \in DOMAIN letters
                                      \/ (letters'[l].env \in DOMAIN envelopes /\ Async(envelopes[letters'[l].env].event)),
           \A j \in JobIds : /\ job'[j].env = job[j].env
                             /\ job'[j].queue.state = "none" <=> job[j].queue.state = "none"
    PROVE  BusKnown'
<1>1. BusTyped /\ BusKnown
    BY DEF BusInv
<1>2. JobsKept
    BY DEF JobsKept
<1>3. \A i \in DOMAIN envelopes : JobId(i)' = JobId(i)
    BY <1>2, KeptFacts
<1>4. \A i \in DOMAIN envelopes' : EnvelopeKnown(i)'
    <2> SUFFICES ASSUME NEW i \in DOMAIN envelopes
                 PROVE  EnvelopeKnown(i)'
        OBVIOUS
    <2>1. EnvelopeKnown(i)
        BY <1>1 DEF BusKnown
    <2> QED
        BY <2>1 DEF EnvelopeKnown, EnvelopesKept, LettersKept, Async
<1>5. \A j \in JobIds : JobKnown(j)'
    <2> SUFFICES ASSUME NEW j \in JobIds
                 PROVE  JobKnown(j)'
        OBVIOUS
    <2>1. JobKnown(j)
        BY <1>1 DEF BusKnown
    <2>2. (job'[j].env = 0) <=> (job'[j].queue.state = "none")
        BY <2>1 DEF JobKnown
    <2>3. ASSUME job'[j].env # 0
          PROVE  /\ job'[j].env \in DOMAIN envelopes' /\ JobId(job[j].env)' = j
                 /\ Async(envelopes'[job'[j].env].event)
        <3>1. PICK i : i = job'[j].env
            OBVIOUS
        <3>2. i = job[j].env /\ i \in DOMAIN envelopes /\ JobId(i) = j /\ Async(envelopes[i].event)
            BY <2>1, <2>3, <3>1 DEF JobKnown
        <3>3. JobId(i)' = j /\ i \in DOMAIN envelopes' /\ Async(envelopes'[i].event)
            BY <3>2, <1>3 DEF EnvelopesKept
        <3> QED
            BY <3>1, <3>3 DEF JobId
    <2> QED
        BY <2>2, <2>3 DEF JobKnown, JobId, Async
<1>6. \A l \in DOMAIN letters' : Async(envelopes'[letters'[l].env].event)
    <2> SUFFICES ASSUME NEW l \in DOMAIN letters'
                 PROVE  Async(envelopes'[letters'[l].env].event)
        OBVIOUS
    <2>1. letters'[l].env \in DOMAIN envelopes /\ Async(envelopes[letters'[l].env].event)
        BY <1>1 DEF BusTyped, BusKnown, LettersKept
    <2> QED
        BY <2>1 DEF EnvelopesKept
<1> QED
    BY <1>4, <1>5, <1>6 DEF BusKnown, Async

\* Steps that leave the queue and its workers alone.
LEMMA WorkFrame ==
    ASSUME BusInv, EnvelopesKept, LettersKept, UNCHANGED << job, work, runs, ended >>, faults' \in Nat, faults' >= faults,
           \A i \in DOMAIN envelopes' : envelopes'[i].log = "dispatched" =>
               i \in DOMAIN envelopes /\ envelopes[i].log = "dispatched"
    PROVE  WorkOwned' /\ OutcomesInv' /\ LettersInv' /\ RunsInv'
<1>1. BusTyped /\ BusKnown /\ WorkOwned /\ OutcomesInv /\ LettersInv /\ RunsInv
    BY DEF BusInv
<1>2. JobsKept
    BY DEF JobsKept
<1>3. WorkOwned'
    BY <1>1 DEF WorkOwned, WorkAt
<1>4. OutcomesInv'
    <2>1. ASSUME NEW i \in DOMAIN envelopes', envelopes'[i].log = "dispatched"
          PROVE  ended'[JobId(i)'] = HandlersOf
        <3>1. i \in DOMAIN envelopes /\ envelopes[i].log = "dispatched"
            BY <2>1
        <3> QED
            BY <3>1, <1>1, <1>2, KeptFacts DEF OutcomesInv
    <2> QED
        BY <1>1, <2>1 DEF OutcomesInv, JobId
<1>5. LettersInv'
    <2>1. \A j \in JobIds : job[j].env # 0 /\ HasLetter(j) => HasLetter(j)'
        BY <1>2, KeptFacts
    <2>2. \A j \in JobIds : job[j].queue.failures = Attempts => job[j].env # 0
        BY <1>1, JobQueueAssumption DEF LettersInv, BusKnown, JobKnown
    <2>3. \A w \in Workers : WorkAt(w, "fail") => work[w].id \in JobIds /\ job[work[w].id].env # 0
        <3> SUFFICES ASSUME NEW w \in Workers, WorkAt(w, "fail")
                     PROVE  work[w].id \in JobIds /\ job[work[w].id].env # 0
            OBVIOUS
        <3>1. ~WorkAt(w, "idle") /\ WorkPlaced(w)
            BY <1>1 DEF WorkAt, BusTyped
        <3>2. work[w].id \in JobIds /\ job[work[w].id].queue.state = "active"
            BY <3>1, <1>1 DEF WorkPlaced, WorkOwned
        <3> QED
            BY <3>2, <1>1 DEF BusKnown, JobKnown
    <2> QED
        BY <1>1, <2>1, <2>2, <2>3 DEF LettersInv, WorkAt
<1>6. RunsInv'
    BY <1>1 DEF RunsInv, Tries, WorkAt
<1> QED
    BY <1>3, <1>4, <1>5, <1>6

\* A publisher that does not step stays where it may be.
LEMMA PubFrame ==
    ASSUME BusInv, EnvelopesKept, LettersKept, JobsKept, NEW q \in Publishers, pub'[q] = pub[q]
    PROVE  PubOK(q)'
<1>1. BusTyped /\ BusKnown /\ PubOK(q)
    BY DEF BusInv
<1>2. CASE At(q, "idle")
    BY <1>2 DEF PubOK, At
<1>3. CASE ~At(q, "idle")
    <2>1. pub[q].env \in DOMAIN envelopes
        BY <1>1, <1>3 DEF BusTyped
    <2>2. /\ JobId(pub[q].env)' = JobId(pub[q].env) /\ JobId(pub[q].env) \in JobIds
          /\ EnvOf(q)'.keyed = EnvOf(q).keyed /\ EnvOf(q)'.letter = EnvOf(q).letter /\ EventOf(q)' = EventOf(q)
        <3>1. JobId(pub[q].env) \in JobIds
            BY <1>1, <2>1, JobIdIsAJobs
        <3>2. \A i \in DOMAIN envelopes : envelopes'[i].keyed = envelopes[i].keyed /\ envelopes'[i].event = envelopes[i].event
            BY DEF EnvelopesKept
        <3> QED
            BY <3>1, <3>2, <2>1 DEF EnvelopesKept, EnvOf, EventOf, JobId
    <2>3. job[JobId(pub[q].env)].env # 0 => job'[JobId(pub[q].env)'].env # 0
        BY <2>2 DEF JobsKept
    <2> QED
        BY <1>1, <2>2, <2>3 DEF PubOK, At, Async
<1> QED
    BY <1>2, <1>3

\* A key is committed to as long as its publisher does not step.
LEMMA CommittedFrame ==
    ASSUME BusInv, EnvelopesKept, NEW q \in Publishers, pub'[q] = pub[q], NEW e,
           pub[q].pc \in {"log", "sync", "enqueue"}, EventOf(q) = e, EnvOf(q).keyed
    PROVE  Committed(e)'
<1>1. pub[q].env \in DOMAIN envelopes
    BY DEF BusInv, BusTyped, At
<1> QED
    BY <1>1 DEF EnvelopesKept, EnvOf, EventOf, Committed

LEMMA ReportedFrame ==
    ASSUME BusInv, EnvelopesKept, LettersKept, JobsKept, broken \subseteq broken',
           \A e \in accepted' \cup seen' : Async(e) => e \in accepted \cup seen \/ HasJob(e)' \/ Committed(e)',
           \A e : Async(e) /\ Committed(e) => HasJob(e)' \/ Committed(e)' \/ e \in broken',
           \A l \in DOMAIN letters' : letters'[l].status = "replayed" =>
               (l \in DOMAIN letters /\ letters[l].status = "replayed") \/ Replayed(l)'
    PROVE  ReportedInv'
<1>1. ReportedInv
    BY DEF BusInv
<1>2. (\A e : HasJob(e) => HasJob(e)') /\ \A l : Replayed(l) => Replayed(l)'
    BY KeptFacts
<1>3. \A e \in accepted' \cup seen' : Async(e) => HasJob(e)' \/ Committed(e)' \/ e \in broken'
    BY <1>1, <1>2 DEF ReportedInv
<1>4. \A l \in DOMAIN letters' : letters'[l].status = "replayed" => Replayed(l)'
    BY <1>1, <1>2 DEF ReportedInv
<1> QED
    BY <1>3, <1>4 DEF ReportedInv, Async

\* Steps of workers leave what publishers report alone.
LEMMA PublishersFrame ==
    ASSUME BusInv, EnvelopesKept, LettersKept, JobsKept, UNCHANGED << pub, seen, accepted, broken >>,
           \A l \in DOMAIN letters' : letters'[l].status = "replayed" =>
               l \in DOMAIN letters /\ letters[l].status = "replayed"
    PROVE  (\A q \in Publishers : PubOK(q)') /\ ReportedInv'
<1>1. \A q \in Publishers : PubOK(q)'
    BY PubFrame
<1>2. \A e : Committed(e) => Committed(e)'
    <2> SUFFICES ASSUME NEW e, NEW q \in Publishers,
                        pub[q].pc \in {"log", "sync", "enqueue"} /\ EventOf(q) = e /\ EnvOf(q).keyed
                 PROVE  Committed(e)'
        BY DEF Committed
    <2> QED
        BY CommittedFrame
<1>3. ReportedInv'
    BY <1>2, ReportedFrame
<1> QED
    BY <1>1, <1>3

-----------------------------------------------------------------------------
(* publish() *)

LEMMA PublisherAt ==
    ASSUME BusInv, NEW p \in Publishers, ~At(p, "idle")
    PROVE  /\ pub[p] \in PubStates /\ pub[p].env \in DOMAIN envelopes /\ EnvOf(p) \in Envelopes
           /\ EventOf(p) \in Events /\ EnvOf(p).keyed \in BOOLEAN /\ EnvelopeKnown(pub[p].env) /\ PubOK(p)
           /\ EnvOf(p).keyed => EventOf(p) \in KeyedEvents
<1>1. BusTyped /\ BusKnown /\ PubOK(p)
    BY DEF BusInv
<1>2. pub[p] \in PubStates /\ pub[p].env \in DOMAIN envelopes
    BY <1>1 DEF BusTyped
<1>3. EnvOf(p) \in Envelopes /\ EnvelopeKnown(pub[p].env)
    BY <1>1, <1>2, EnvelopesNumbered DEF EnvOf, BusKnown
<1> QED
    BY <1>1, <1>2, <1>3 DEF Envelopes, EventOf, EnvOf, EnvelopeKnown

LEMMA PubMoves ==
    ASSUME BusInv, NEW p \in Publishers, NEW pc, pub' = [pub EXCEPT ![p].pc = pc]
    PROVE  /\ pub' = [pub EXCEPT ![p] = [pub[p] EXCEPT !.pc = pc]]
           /\ [pub[p] EXCEPT !.pc = pc].pc = pc /\ [pub[p] EXCEPT !.pc = pc].env = pub[p].env
           /\ (\E x \in PubStates : x.pc = pc) => [pub[p] EXCEPT !.pc = pc] \in PubStates
<1>1. pub \in [Publishers -> PubStates]
    BY DEF BusInv, BusTyped
<1> QED
    BY <1>1 DEF PubStates

\* A step of a publisher: the queue, its workers and its history stay.
LEMMA PublisherStep ==
    ASSUME BusInv, NEW p \in Publishers, NEW x \in PubStates, pub' = [pub EXCEPT ![p] = x],
           UNCHANGED << job, work, runs, ended, crashes >>,
           EnvelopesKept, LettersKept,
           envelopes' \in Seq(Envelopes) /\ Len(envelopes') <= MaxEnvelopes,
           letters' \in Seq(Letters) /\ DOMAIN letters' = DOMAIN letters,
           x = IdlePub \/ (x.pc # "idle" /\ x.env \in DOMAIN envelopes'),
           seen' \subseteq KeyedEvents /\ accepted' \subseteq Events /\ broken' \subseteq KeyedEvents,
           broken \subseteq broken' /\ faults' \in Nat /\ faults' >= faults,
           \A i \in DOMAIN envelopes' : i \in DOMAIN envelopes \/ EnvelopeKnown(i)',
           \A i \in DOMAIN envelopes' : envelopes'[i].log = "dispatched" =>
               i \in DOMAIN envelopes /\ envelopes[i].log = "dispatched",
           x # IdlePub => PubOK(p)',
           \A e \in accepted' \cup seen' : Async(e) => e \in accepted \cup seen \/ HasJob(e)' \/ Committed(e)',
           \A e : EnvOf(p).keyed /\ pub[p].pc \in {"log", "sync", "enqueue"} /\ EventOf(p) = e /\ Async(e) =>
               HasJob(e)' \/ Committed(e)' \/ e \in broken',
           \A l \in DOMAIN letters' : letters'[l].status = "replayed" =>
               letters[l].status = "replayed" \/ Replayed(l)'
    PROVE  BusInv'
<1>1. BusTyped
    BY DEF BusInv
<1>2. pub' \in [Publishers -> PubStates] /\ pub'[p] = x /\ \A q \in Publishers : q # p => pub'[q] = pub[q]
    BY <1>1 DEF BusTyped
<1>3. JobsKept
    BY DEF JobsKept
<1>4. BusTyped'
    <2>1. \A q \in Publishers : IF pub'[q].pc = "idle" THEN pub'[q] = IdlePub ELSE pub'[q].env \in DOMAIN envelopes'
        <3>1. pub'[p].pc = "idle" => pub'[p] = IdlePub
            BY <1>2
        <3>2. pub'[p].pc # "idle" => pub'[p].env \in DOMAIN envelopes'
            BY <1>2 DEF IdlePub
        <3>3. \A q \in Publishers : q # p => IF pub'[q].pc = "idle" THEN pub'[q] = IdlePub
                                              ELSE pub'[q].env \in DOMAIN envelopes'
            BY <1>1, <1>2 DEF BusTyped, At, EnvelopesKept
        <3> QED
            BY <3>1, <3>2, <3>3
    <2>2. work' \in [Workers -> WorkStates] /\ \A w \in Workers : WorkPlaced(w)'
        BY <1>1 DEF BusTyped, WorkPlaced, WorkAt
    <2>3. \A l \in DOMAIN letters' : letters'[l].env \in DOMAIN envelopes'
        BY <1>1 DEF BusTyped, LettersKept, EnvelopesKept
    <2>4. /\ job' \in [JobIds -> BusJobs] /\ runs' \in [JobIds -> [HandlersOf -> Nat]]
          /\ ended' \in [JobIds -> SUBSET HandlersOf] /\ crashes' \in Nat
        BY <1>1 DEF BusTyped
    <2> QED
        BY <1>2, <2>1, <2>2, <2>3, <2>4 DEF BusTyped, At
<1>5. BusKnown'
    <2>1. \A j \in JobIds : job'[j].env = job[j].env /\ (job'[j].queue.state = "none" <=> job[j].queue.state = "none")
        OBVIOUS
    <2> QED
        BY <1>4, <2>1, KnownFrame
<1>6. \A q \in Publishers : PubOK(q)'
    <2>1. \A q \in Publishers : q # p => PubOK(q)'
        BY <1>2, <1>3, PubFrame
    <2>2. x = IdlePub => PubOK(p)'
        BY <1>2 DEF PubOK, IdlePub, At
    <2> QED
        BY <2>1, <2>2
<1>7. WorkOwned' /\ OutcomesInv' /\ LettersInv' /\ RunsInv'
    BY WorkFrame
<1>8. ReportedInv'
    <2>1. ASSUME NEW e, Async(e), Committed(e)
          PROVE  HasJob(e)' \/ Committed(e)' \/ e \in broken'
        <3>1. PICK q \in Publishers : pub[q].pc \in {"log", "sync", "enqueue"} /\ EventOf(q) = e /\ EnvOf(q).keyed
            BY <2>1 DEF Committed
        <3>2. CASE q = p
            BY <3>1, <3>2, <2>1
        <3>3. CASE q # p
            BY <3>1, <3>3, <1>2, CommittedFrame
        <3> QED
            BY <3>2, <3>3
    <2> QED
        BY <1>3, <2>1, ReportedFrame
<1> QED
    BY <1>4, <1>5, <1>6, <1>7, <1>8 DEF BusInv

\* ... that leaves envelopes and letters alone as well.
LEMMA PublisherMove ==
    ASSUME BusInv, NEW p \in Publishers, NEW x \in PubStates, pub' = [pub EXCEPT ![p] = x], ~At(p, "idle"),
           UNCHANGED << envelopes, job, work, letters, runs, ended, crashes >>,
           x = IdlePub \/ (x.pc # "idle" /\ x.env = pub[p].env),
           seen' \subseteq KeyedEvents /\ accepted' \subseteq Events /\ broken' \subseteq KeyedEvents,
           broken \subseteq broken' /\ faults' \in Nat /\ faults' >= faults,
           x # IdlePub => PubOK(p)',
           \A e \in accepted' \cup seen' : Async(e) => e \in accepted \cup seen \/ HasJob(e) \/ Committed(e)',
           EnvOf(p).keyed /\ pub[p].pc \in {"log", "sync", "enqueue"} /\ Async(EventOf(p)) =>
               x.pc \in {"log", "sync", "enqueue"} \/ EventOf(p) \in broken'
    PROVE  BusInv'
<1>1. BusTyped /\ pub[p].env \in DOMAIN envelopes
    BY PublisherAt DEF BusInv
<1>2. EnvelopesKept /\ LettersKept /\ JobsKept
    BY DEF EnvelopesKept, LettersKept, JobsKept
<1>3. /\ envelopes' \in Seq(Envelopes) /\ Len(envelopes') <= MaxEnvelopes
      /\ letters' \in Seq(Letters) /\ DOMAIN letters' = DOMAIN letters
    BY <1>1 DEF BusTyped
<1>4. x = IdlePub \/ (x.pc # "idle" /\ x.env \in DOMAIN envelopes')
    BY <1>1
<1>5. pub'[p] = x
    BY <1>1 DEF BusTyped
<1>6. \A e \in accepted' \cup seen' : Async(e) => e \in accepted \cup seen \/ HasJob(e)' \/ Committed(e)'
    BY <1>2, KeptFacts
<1>7. ASSUME NEW e, EnvOf(p).keyed, pub[p].pc \in {"log", "sync", "enqueue"}, EventOf(p) = e, Async(e)
      PROVE  HasJob(e)' \/ Committed(e)' \/ e \in broken'
    <2>1. CASE x.pc \in {"log", "sync", "enqueue"}
        <3>1. pub'[p].pc \in {"log", "sync", "enqueue"} /\ pub'[p].env = pub[p].env
            BY <2>1, <1>5 DEF IdlePub
        <3> QED
            BY <3>1, <1>7 DEF Committed, EventOf, EnvOf
    <2>2. CASE EventOf(p) \in broken'
        BY <2>2, <1>7
    <2> QED
        BY <1>7, <2>1, <2>2
<1> QED
    BY <1>2, <1>3, <1>4, <1>6, <1>7, PublisherStep

\* A new envelope has the number of none, and has not been logged.
LEMMA BeginKeepsInv ==
    ASSUME BusInv, NEW p \in Publishers, NEW event \in Events, NEW keyed \in BOOLEAN, NEW letter \in Nat,
           keyed => event \in KeyedEvents /\ letter = 0,
           letter # 0 => letter \in DOMAIN letters /\ Async(event),
           Begin(p, event, keyed, letter),
           UNCHANGED << seen, job, work, letters, runs, ended, accepted, broken, faults, crashes >>
    PROVE  BusInv'
<1>0. PICK n : n = Len(envelopes) + 1
    OBVIOUS
<1> DEFINE new == [event |-> event, keyed |-> keyed, letter |-> letter, log |-> "none"]
           pc == IF keyed THEN "check" ELSE "log"
           x == [pc |-> pc, h |-> 1, env |-> n]
<1>1. BusTyped /\ At(p, "idle") /\ envelopes' = Append(envelopes, new) /\ pub' = [pub EXCEPT ![p] = x]
    BY <1>0 DEF Begin, BusInv
<1>2. /\ envelopes \in Seq(Envelopes) /\ new \in Envelopes /\ Len(envelopes) \in Nat /\ Len(envelopes) < MaxEnvelopes
      /\ DOMAIN envelopes = 1 .. Len(envelopes)
    BY <1>1, EnvelopesNumbered DEF BusTyped, Envelopes, LogStates, Begin
<1>3. /\ envelopes' \in Seq(Envelopes) /\ Len(envelopes') = n /\ DOMAIN envelopes' = 1 .. n
      /\ \A i \in 1 .. Len(envelopes) : envelopes'[i] = envelopes[i]
      /\ envelopes'[n] = new
    BY <1>0, <1>1, <1>2, AppendProperties, LenProperties
<1>4. /\ pc \in {"check", "log"} /\ (keyed <=> pc = "check") /\ (~keyed => pc = "log")
      /\ x \in PubStates /\ x # IdlePub /\ x.pc = pc /\ x.env = n
      /\ n \in DOMAIN envelopes' /\ n \notin DOMAIN envelopes
      /\ new.event = event /\ new.keyed = keyed /\ new.letter = letter /\ new.log = "none"
    BY <1>0, <1>2, <1>3 DEF PubStates, IdlePub
<1> HIDE DEF new, pc, x
<1>5. pub'[p] = x
    BY <1>1 DEF BusTyped
<1>6. /\ EnvelopesKept /\ LettersKept /\ Len(envelopes') <= MaxEnvelopes
    BY <1>0, <1>2, <1>3, EventsAssumption DEF EnvelopesKept, LettersKept
<1>13. /\ letters' \in Seq(Letters) /\ DOMAIN letters' = DOMAIN letters
       /\ seen' \subseteq KeyedEvents /\ accepted' \subseteq Events /\ broken' \subseteq KeyedEvents
       /\ broken \subseteq broken' /\ faults' \in Nat /\ faults' >= faults
       /\ x = IdlePub \/ (x.pc # "idle" /\ x.env \in DOMAIN envelopes')
    BY <1>1, <1>3, <1>4 DEF BusTyped
<1>7. \A i \in DOMAIN envelopes' : i \in DOMAIN envelopes \/ EnvelopeKnown(i)'
    <2> SUFFICES EnvelopeKnown(n)'
        BY <1>0, <1>2, <1>3
    <2> QED
        BY <1>3, <1>4 DEF EnvelopeKnown, Async
<1>8. \A i \in DOMAIN envelopes' : envelopes'[i].log = "dispatched" => i \in DOMAIN envelopes /\ envelopes[i].log = "dispatched"
    BY <1>0, <1>2, <1>3, <1>4
<1>9. PubOK(p)'
    BY <1>3, <1>4, <1>5 DEF PubOK, At, EnvOf
<1>10. \A e \in accepted' \cup seen' : Async(e) => e \in accepted \cup seen \/ HasJob(e)' \/ Committed(e)'
    OBVIOUS
<1>11. \A e : EnvOf(p).keyed /\ pub[p].pc \in {"log", "sync", "enqueue"} /\ EventOf(p) = e /\ Async(e) =>
               HasJob(e)' \/ Committed(e)' \/ e \in broken'
    BY <1>1 DEF At
<1>12. \A l \in DOMAIN letters' : letters'[l].status = "replayed" => letters[l].status = "replayed" \/ Replayed(l)'
    OBVIOUS
<1>14. UNCHANGED << job, work, runs, ended, crashes >>
    OBVIOUS
<1>15. pub' = [pub EXCEPT ![p] = x] /\ x \in PubStates /\ (x # IdlePub => PubOK(p)') /\ envelopes' \in Seq(Envelopes)
    BY <1>1, <1>3, <1>4, <1>9
<1> QED
    BY <1>6, <1>7, <1>8, <1>10, <1>11, <1>12, <1>13, <1>14, <1>15, PublisherStep

LEMMA PublishKeepsInv ==
    ASSUME BusInv, NEW p \in Publishers, Publish(p)
    PROVE  BusInv'
<1>1. PICK e \in Events : Begin(p, e, e \in KeyedEvents, 0)
    BY DEF Publish
<1>2. (e \in KeyedEvents) \in BOOLEAN /\ 0 \in Nat
    OBVIOUS
<1> QED
    BY <1>1, <1>2, BeginKeepsInv DEF Publish

LEMMA ReplayLetterKeepsInv ==
    ASSUME BusInv, NEW p \in Publishers, NEW l \in DOMAIN letters, ReplayLetter(p, l)
    PROVE  BusInv'
<1>1. BusTyped /\ BusKnown
    BY DEF BusInv
<1> DEFINE e == envelopes[letters[l].env].event
<1>2. letters[l].env \in DOMAIN envelopes /\ Async(e) /\ l \in Nat
    BY <1>1, EnvelopesNumbered DEF BusTyped, BusKnown
<1>3. e \in Events
    BY <1>1, <1>2, EnvelopesNumbered DEF Envelopes
<1> QED
    BY <1>2, <1>3, BeginKeepsInv DEF ReplayLetter

\* An event that was seen stays committed to, queued or broken.
LEMMA CheckDuplicateKeepsInv ==
    ASSUME BusInv, NEW p \in Publishers, CheckDuplicate(p)
    PROVE  BusInv'
<1>1. BusTyped /\ At(p, "check") /\ ~At(p, "idle")
    BY DEF CheckDuplicate, At, BusInv
<1>2. EventOf(p) \in Events /\ EnvOf(p).keyed
    BY <1>1, PublisherAt DEF PubOK, At
<1>3. faults' \in Nat /\ faults' >= faults /\ broken' = broken /\ seen' = seen /\ broken \subseteq KeyedEvents
    BY <1>1 DEF BusTyped, CheckDuplicate
<1>4. CASE EventOf(p) \in seen /\ accepted' = accepted \cup {EventOf(p)} /\ pub' = [pub EXCEPT ![p] = IdlePub]
    <2>1. IdlePub \in PubStates
        BY DEF IdlePub, PubStates
    <2>2. accepted' \subseteq Events /\ \A e \in accepted' \cup seen' : e \in accepted \cup seen
        BY <1>1, <1>2, <1>3, <1>4 DEF BusTyped
    <2>3. seen' \subseteq KeyedEvents
        BY <1>1, <1>3 DEF BusTyped
    <2> QED
        BY <1>1, <1>3, <1>4, <2>1, <2>2, <2>3, PublisherMove DEF CheckDuplicate, At
<1>5. CASE pub' = [pub EXCEPT ![p].pc = "mark"] /\ accepted' = accepted
    <2> DEFINE x == [pub[p] EXCEPT !.pc = "mark"]
    <2>1. x \in PubStates /\ x.pc = "mark" /\ x.env = pub[p].env /\ pub' = [pub EXCEPT ![p] = x]
        <3>1. [pc |-> "mark", env |-> 0, h |-> 0] \in PubStates
            BY DEF PubStates
        <3> QED
            BY <1>5, <3>1, PubMoves
    <2> HIDE DEF x
    <2>2. PubOK(p)'
        BY <1>1, <1>2, <2>1 DEF PubOK, At, BusTyped, EnvOf, CheckDuplicate
    <2>3. accepted' \subseteq Events /\ seen' \subseteq KeyedEvents
        BY <1>1, <1>3, <1>5 DEF BusTyped
    <2> QED
        BY <1>1, <1>3, <1>5, <2>1, <2>2, <2>3, PublisherMove DEF CheckDuplicate, At
<1> QED
    BY <1>4, <1>5 DEF CheckDuplicate

LEMMA MarkSeenKeepsInv ==
    ASSUME BusInv, NEW p \in Publishers, MarkSeen(p)
    PROVE  BusInv'
<1>1. BusTyped /\ At(p, "mark") /\ ~At(p, "idle")
    BY DEF MarkSeen, At, BusInv
<1>2. EventOf(p) \in KeyedEvents /\ EnvOf(p).keyed
    BY <1>1, PublisherAt DEF PubOK, At
<1> DEFINE x == [pub[p] EXCEPT !.pc = "log"]
<1>3. x \in PubStates /\ x.pc = "log" /\ x.env = pub[p].env /\ pub' = [pub EXCEPT ![p] = x]
    <2>1. [pc |-> "log", env |-> 0, h |-> 0] \in PubStates
        BY DEF PubStates
    <2>2. pub' = [pub EXCEPT ![p].pc = "log"]
        BY DEF MarkSeen
    <2> QED
        BY <2>1, <2>2, PubMoves
<1> HIDE DEF x
<1>4. pub'[p] = x /\ x # IdlePub
    BY <1>1, <1>3 DEF BusTyped, IdlePub
<1>5. PubOK(p)'
    BY <1>3, <1>4 DEF PubOK, At
<1>6. /\ seen' \subseteq KeyedEvents /\ accepted' \subseteq Events /\ broken' \subseteq KeyedEvents
      /\ broken \subseteq broken' /\ faults' \in Nat /\ faults' >= faults
    BY <1>1, <1>2 DEF BusTyped, MarkSeen
<1>7. \A e \in accepted' \cup seen' : e \in accepted \cup seen \/ Committed(e)'
    <2>1. envelopes' = envelopes /\ accepted' = accepted /\ seen' = seen \cup {EventOf(p)}
        BY DEF MarkSeen
    <2>2. \A e : e = EventOf(p) => Committed(e)'
        BY <1>2, <1>3, <1>4, <2>1 DEF Committed, EventOf, EnvOf
    <2> QED
        BY <2>1, <2>2
<1> QED
    BY <1>1, <1>3, <1>4, <1>5, <1>6, <1>7, PublisherMove DEF MarkSeen, At

LEMMA LogEdits ==
    ASSUME BusInv, NEW i \in DOMAIN envelopes, NEW log \in LogStates, envelopes' = [envelopes EXCEPT ![i].log = log]
    PROVE  /\ EnvelopesKept /\ envelopes' \in Seq(Envelopes) /\ Len(envelopes') = Len(envelopes)
           /\ DOMAIN envelopes' = DOMAIN envelopes
           /\ \A k \in DOMAIN envelopes : k # i => envelopes'[k] = envelopes[k]
           /\ envelopes'[i].log = log
<1>1. envelopes \in Seq(Envelopes) /\ envelopes[i] \in Envelopes
    BY EnvelopesNumbered DEF BusInv, BusTyped
<1> DEFINE e == [envelopes[i] EXCEPT !.log = log]
<1>2. e \in Envelopes /\ e.event = envelopes[i].event /\ e.keyed = envelopes[i].keyed
      /\ e.letter = envelopes[i].letter /\ e.log = log /\ envelopes' = [envelopes EXCEPT ![i] = e]
    BY <1>1 DEF Envelopes
<1> HIDE DEF e
<1>3. /\ envelopes' \in Seq(Envelopes) /\ Len(envelopes') = Len(envelopes) /\ envelopes'[i] = e
      /\ DOMAIN envelopes' = DOMAIN envelopes /\ \A k \in DOMAIN envelopes : k # i => envelopes'[k] = envelopes[k]
    <2>1. envelopes' \in Seq(Envelopes) /\ Len(envelopes') = Len(envelopes)
        BY <1>1, <1>2, ExceptSeq
    <2> QED
        BY <1>1, <1>2, <2>1
<1>4. EnvelopesKept
    BY <1>2, <1>3 DEF EnvelopesKept
<1> QED
    BY <1>2, <1>3, <1>4

LEMMA PersistLogKeepsInv ==
    ASSUME BusInv, NEW p \in Publishers, PersistLog(p)
    PROVE  BusInv'
<1>1. BusTyped /\ At(p, "log") /\ ~At(p, "idle") /\ pub[p].env \in DOMAIN envelopes /\ EventOf(p) \in Events
    BY PublisherAt DEF PersistLog, At, BusInv
<1> DEFINE pc == IF Sync(EventOf(p)) THEN "sync" ELSE "enqueue"
           x == [pub[p] EXCEPT !.pc = pc]
<1>2. pc \in {"sync", "enqueue"} /\ (pc = "enqueue" => Async(EventOf(p)))
    BY <1>1, EventsAssumption DEF Sync, Async
<1>3. x \in PubStates /\ x.pc = pc /\ x.env = pub[p].env /\ pub' = [pub EXCEPT ![p] = x]
    <2>1. [pc |-> pc, env |-> 0, h |-> 0] \in PubStates
        BY <1>2 DEF PubStates
    <2>2. pub' = [pub EXCEPT ![p].pc = pc]
        BY DEF PersistLog
    <2>3. \E y \in PubStates : y.pc = pc
        BY <2>1
    <2> HIDE DEF pc
    <2> QED
        BY <2>2, <2>3, PubMoves
<1> HIDE DEF x, pc
<1>4. pub'[p] = x /\ x # IdlePub /\ x.pc # "idle"
    BY <1>1, <1>2, <1>3 DEF BusTyped, IdlePub
<1>5. /\ EnvelopesKept /\ envelopes' \in Seq(Envelopes) /\ Len(envelopes') = Len(envelopes)
      /\ DOMAIN envelopes' = DOMAIN envelopes
      /\ \A i \in DOMAIN envelopes' : envelopes'[i].log = "dispatched" => envelopes[i].log = "dispatched"
    <2>1. CASE envelopes' = envelopes
        BY <1>1, <2>1 DEF EnvelopesKept, BusTyped
    <2>2. CASE envelopes' = [envelopes EXCEPT ![pub[p].env].log = "published"]
        <3>1. "published" \in LogStates /\ "published" # "dispatched"
            BY DEF LogStates
        <3> QED
            BY <1>1, <2>2, <3>1, LogEdits
    <2> QED
        BY <2>1, <2>2 DEF PersistLog
<1>6. EnvOf(p)'.event = EnvOf(p).event /\ EnvOf(p)'.keyed = EnvOf(p).keyed
    BY <1>1, <1>3, <1>4, <1>5 DEF EnvelopesKept, EnvOf
<1>7. PubOK(p)'
    BY <1>2, <1>3, <1>4, <1>6 DEF PubOK, At, EventOf, Async
<1>8. /\ letters' \in Seq(Letters) /\ DOMAIN letters' = DOMAIN letters /\ Len(envelopes') <= MaxEnvelopes
      /\ seen' \subseteq KeyedEvents /\ accepted' \subseteq Events /\ broken' \subseteq KeyedEvents
      /\ broken \subseteq broken' /\ faults' \in Nat /\ faults' >= faults /\ LettersKept
    BY <1>1, <1>5 DEF BusTyped, PersistLog, LettersKept
<1>9. x = IdlePub \/ (x.pc # "idle" /\ x.env \in DOMAIN envelopes')
    BY <1>1, <1>3, <1>4, <1>5
<1>10. \A e : EnvOf(p).keyed /\ EventOf(p) = e => Committed(e)'
    BY <1>2, <1>3, <1>4, <1>6 DEF Committed, EventOf
<1>11. /\ \A e \in accepted' \cup seen' : e \in accepted \cup seen
       /\ \A l \in DOMAIN letters' : letters'[l].status = "replayed" => letters[l].status = "replayed"
       /\ UNCHANGED << job, work, runs, ended, crashes >>
    BY DEF PersistLog
<1> QED
    BY <1>3, <1>5, <1>7, <1>8, <1>9, <1>10, <1>11, PublisherStep

\* A step to a later point of publish(), all that it writes.
LEMMA PcMove ==
    ASSUME BusInv, NEW p \in Publishers, NEW pc \in {"sync", "enqueue", "resolve"}, NEW x \in PubStates,
           ~At(p, "idle"), x.pc = pc, x.env = pub[p].env, pub' = [pub EXCEPT ![p] = x],
           UNCHANGED << envelopes, seen, job, work, letters, runs, ended, accepted, broken, faults, crashes >>,
           pc = "enqueue" => Async(EventOf(p)),
           pc = "resolve" => ~Async(EventOf(p))
    PROVE  BusInv'
<1>1. BusTyped
    BY DEF BusInv
<1>2. pub'[p] = x /\ x # IdlePub /\ x.pc # "idle" /\ EventOf(p)' = EventOf(p)
    BY <1>1 DEF BusTyped, IdlePub, EventOf, EnvOf
<1>3. PubOK(p)'
    BY <1>2 DEF PubOK, At, Async
<1>4. /\ seen' \subseteq KeyedEvents /\ accepted' \subseteq Events /\ broken' \subseteq KeyedEvents
      /\ broken \subseteq broken' /\ faults' \in Nat /\ faults' >= faults
      /\ UNCHANGED << envelopes, job, work, letters, runs, ended, crashes >>
      /\ x = IdlePub \/ (x.pc # "idle" /\ x.env = pub[p].env)
    BY <1>1, <1>2 DEF BusTyped
<1>5. /\ \A e \in accepted' \cup seen' : Async(e) => e \in accepted \cup seen
      /\ Async(EventOf(p)) => x.pc \in {"log", "sync", "enqueue"}
    OBVIOUS
<1> QED
    BY <1>3, <1>4, <1>5, PublisherMove

LEMMA SyncStepsKeepInv ==
    ASSUME BusInv, NEW p \in Publishers, SyncHandler(p) \/ SyncDone(p)
    PROVE  BusInv'
<1>1. BusTyped /\ At(p, "sync") /\ ~At(p, "idle") /\ pub[p] \in PubStates
    BY PublisherAt DEF SyncHandler, SyncDone, At, BusInv
<1>2. CASE SyncHandler(p)
    <2> DEFINE x == [pub[p] EXCEPT !.h = @ + 1]
    <2>1. x \in PubStates /\ x.pc = "sync" /\ x.env = pub[p].env /\ pub' = [pub EXCEPT ![p] = x]
        <3>1. PICK h : h = pub[p].h + 1
            OBVIOUS
        <3>2. h \in Nat
            <4>1. pub[p].h \in Nat
                BY <1>1 DEF PubStates
            <4> QED
                BY <3>1, <4>1
        <3>5. x = [pub[p] EXCEPT !.h = h]
            BY <1>1, <3>1 DEF PubStates
        <3>3. x \in PubStates /\ x.pc = "sync" /\ x.env = pub[p].env
            BY <1>1, <3>2, <3>5 DEF PubStates, At
        <3>4. pub' = [pub EXCEPT ![p] = x]
            BY <1>1, <1>2 DEF SyncHandler, BusTyped
        <3> QED
            BY <3>3, <3>4
    <2> HIDE DEF x
    <2> QED
        BY <1>1, <1>2, <2>1, PcMove DEF SyncHandler
<1>3. CASE SyncDone(p)
    <2> DEFINE pc == IF Async(EventOf(p)) THEN "enqueue" ELSE "resolve"
               x == [pub[p] EXCEPT !.pc = pc]
    <2>1. pc \in {"enqueue", "resolve"} /\ (pc = "enqueue" => Async(EventOf(p))) /\ (pc = "resolve" => ~Async(EventOf(p)))
        OBVIOUS
    <2>2. x \in PubStates /\ x.pc = pc /\ x.env = pub[p].env /\ pub' = [pub EXCEPT ![p] = x]
        <3>1. [pc |-> pc, env |-> 0, h |-> 0] \in PubStates
            BY <2>1 DEF PubStates
        <3>2. pub' = [pub EXCEPT ![p].pc = pc]
            BY <1>3 DEF SyncDone
        <3>3. \E y \in PubStates : y.pc = pc
            BY <3>1
        <3> HIDE DEF pc
        <3> QED
            BY <3>2, <3>3, PubMoves
    <2> HIDE DEF x, pc
    <2> QED
        BY <1>1, <1>3, <2>1, <2>2, PcMove DEF SyncDone
<1> QED
    BY <1>2, <1>3

\* The job under an envelope's id, once there is one, is of the envelope's event.
LEMMA JobOfEnvelope ==
    ASSUME BusInv, NEW i \in DOMAIN envelopes, job[JobId(i)].env # 0
    PROVE  HasJob(envelopes[i].event) /\ (~envelopes[i].keyed => job[i].env = i)
<1>1. BusTyped /\ BusKnown
    BY DEF BusInv
<1> DEFINE k == job[JobId(i)].env
<1>2. JobId(i) \in JobIds /\ k \in DOMAIN envelopes /\ JobId(k) = JobId(i)
    BY <1>1, JobIdIsAJobs DEF BusKnown, JobKnown
<1> HIDE DEF k
<1>3. CASE envelopes[i].keyed
    <2>1. JobId(i) = envelopes[i].event /\ envelopes[i].event \in KeyedEvents
        BY <1>1, <1>3 DEF JobId, BusKnown, EnvelopeKnown
    <2>2. envelopes[k].event = envelopes[i].event
        BY <1>1, <1>2, <2>1, JobIdIsAJobs
    <2> QED
        BY <1>2, <1>3, <2>2 DEF HasJob, k
<1>4. CASE ~envelopes[i].keyed
    <2>1. JobId(i) = i /\ i \in Nat
        BY <1>1, <1>4, EnvelopesNumbered DEF JobId
    <2>2. k = i
        BY <1>1, <1>2, <2>1, JobIdIsAJobs
    <2> QED
        BY <1>2, <2>1, <2>2 DEF HasJob, k
<1> QED
    BY <1>3, <1>4

LEMMA ResolveKeepsInv ==
    ASSUME BusInv, NEW p \in Publishers, Resolve(p)
    PROVE  BusInv'
<1>1. BusTyped /\ At(p, "resolve") /\ ~At(p, "idle") /\ pub[p] \in PubStates /\ PubOK(p) /\ EventOf(p) \in Events
    BY PublisherAt DEF Resolve, At, BusInv
<1>2. Async(EventOf(p)) => HasJob(EventOf(p))
    <2> HAVE Async(EventOf(p))
    <2>1. job[JobId(pub[p].env)].env # 0 /\ pub[p].env \in DOMAIN envelopes
        BY <1>1, PublisherAt DEF PubOK, At
    <2> QED
        BY <2>1, JobOfEnvelope DEF EventOf, EnvOf
<1> DEFINE y == [pub[p] EXCEPT !.pc = "mark letter"]
           x == IF EnvOf(p).letter = 0 THEN IdlePub ELSE y
<1>3. y \in PubStates /\ y.pc = "mark letter" /\ y.env = pub[p].env /\ IdlePub \in PubStates
    BY <1>1 DEF PubStates, IdlePub
<1>4. /\ x \in PubStates /\ pub' = [pub EXCEPT ![p] = x]
      /\ x = IdlePub \/ (x.pc # "idle" /\ x.env = pub[p].env)
      /\ x # IdlePub => x = y /\ EnvOf(p).letter # 0
    BY <1>3 DEF Resolve
<1> HIDE DEF x, y
<1>5. x # IdlePub => PubOK(p)'
    <2> HAVE x # IdlePub
    <2>1. pub'[p] = y /\ envelopes' = envelopes /\ job' = job
        BY <1>1, <1>4 DEF BusTyped, Resolve
    <2>2. EnvOf(p)' = EnvOf(p) /\ pub'[p].env = pub[p].env /\ pub'[p].pc = "mark letter"
        BY <1>3, <2>1 DEF EnvOf
    <2>3. Async(EventOf(p))' => job'[JobId(pub[p].env)].env # 0
        BY <1>1, <2>1, <2>2 DEF PubOK, At, EventOf, Async
    <2>4. Async(EventOf(p))' => job'[JobId(pub[p].env)'].env # 0
        BY <2>1, <2>2, <2>3 DEF JobId
    <2> QED
        BY <1>4, <2>2, <2>4 DEF PubOK, At
<1>6. /\ seen' \subseteq KeyedEvents /\ accepted' \subseteq Events /\ broken' \subseteq KeyedEvents
      /\ broken \subseteq broken'
      /\ UNCHANGED << envelopes, job, work, letters, runs, ended, crashes >>
    BY <1>1 DEF BusTyped, Resolve
<1>9. faults' \in Nat /\ faults' >= faults
    <2>1. faults' = faults
        BY DEF Resolve
    <2>2. faults \in Nat
        BY <1>1 DEF BusTyped
    <2> QED
        BY <2>1, <2>2
<1>7. \A e \in accepted' \cup seen' : Async(e) => e \in accepted \cup seen \/ HasJob(e) \/ Committed(e)'
    <2>1. accepted' = accepted \cup {EventOf(p)} /\ seen' = seen
        BY DEF Resolve
    <2> QED
        BY <1>2, <2>1
<1>8. pub[p].pc \notin {"log", "sync", "enqueue"}
    BY <1>1 DEF At
<1> QED
    BY <1>1, <1>4, <1>5, <1>6, <1>7, <1>8, <1>9, PublisherMove

LEMMA PublishFailsKeepsInv ==
    ASSUME BusInv, NEW p \in Publishers, PublishFails(p)
    PROVE  BusInv'
<1>1. BusTyped /\ ~At(p, "idle") /\ (EnvOf(p).keyed => EventOf(p) \in KeyedEvents)
    BY PublisherAt DEF PublishFails, BusInv
<1>2. IdlePub \in PubStates /\ pub' = [pub EXCEPT ![p] = IdlePub]
    BY DEF PublishFails, PubStates, IdlePub
<1>3. /\ seen' \subseteq KeyedEvents /\ accepted' \subseteq Events /\ faults' \in Nat /\ faults' >= faults
      /\ UNCHANGED << envelopes, job, work, letters, runs, ended, crashes, accepted, seen >>
    BY <1>1 DEF BusTyped, PublishFails
<1>4. broken' \subseteq KeyedEvents /\ broken \subseteq broken'
    BY <1>1 DEF BusTyped, PublishFails
<1>5. EnvOf(p).keyed /\ pub[p].pc \in {"log", "sync", "enqueue"} => EventOf(p) \in broken'
    BY DEF PublishFails
<1>6. \A e \in accepted' \cup seen' : e \in accepted \cup seen
    BY <1>3
<1> QED
    BY <1>1, <1>2, <1>3, <1>4, <1>5, <1>6, PublisherMove

LEMMA LetterEdits ==
    ASSUME BusInv, NEW l \in DOMAIN letters, NEW status \in {"pending", "replayed", "discarded"},
           letters' = [letters EXCEPT ![l].status = status]
    PROVE  /\ LettersKept /\ letters' \in Seq(Letters) /\ DOMAIN letters' = DOMAIN letters
           /\ letters'[l].status = status
           /\ \A m \in DOMAIN letters : letters'[m].env = letters[m].env /\ (m # l => letters'[m] = letters[m])
<1>1. letters \in Seq(Letters) /\ letters[l] \in Letters
    BY EnvelopesNumbered DEF BusInv, BusTyped
<1> DEFINE y == [letters[l] EXCEPT !.status = status]
<1>2. y \in Letters /\ y.env = letters[l].env /\ y.status = status /\ letters' = [letters EXCEPT ![l] = y]
    BY <1>1 DEF Letters
<1> HIDE DEF y
<1>3. letters' \in Seq(Letters) /\ DOMAIN letters' = DOMAIN letters /\ letters'[l] = y
    BY <1>1, <1>2, ExceptSeq
<1>4. \A m \in DOMAIN letters : letters'[m].env = letters[m].env /\ (m # l => letters'[m] = letters[m])
    BY <1>2, <1>3
<1> QED
    BY <1>2, <1>3, <1>4 DEF LettersKept

\* The event of a replay that got this far was enqueued under its own number.
LEMMA MarkReplayedKeepsInv ==
    ASSUME BusInv, NEW p \in Publishers, MarkReplayed(p)
    PROVE  BusInv'
<1>1. /\ BusTyped /\ At(p, "mark letter") /\ ~At(p, "idle") /\ PubOK(p) /\ EnvelopeKnown(pub[p].env)
      /\ pub[p].env \in DOMAIN envelopes
    BY PublisherAt DEF MarkReplayed, At, BusInv
<1>2. PICK l : l = EnvOf(p).letter
    OBVIOUS
<1>3. l \in DOMAIN letters /\ ~EnvOf(p).keyed /\ Async(EventOf(p))
    BY <1>1, <1>2 DEF PubOK, At, EnvelopeKnown, EnvOf, EventOf
<1>4. job[pub[p].env].env = pub[p].env
    BY <1>1, <1>3, JobOfEnvelope DEF PubOK, At, EnvOf
<1>5. /\ LettersKept /\ letters' \in Seq(Letters) /\ DOMAIN letters' = DOMAIN letters
      /\ \A m \in DOMAIN letters : m # l => letters'[m] = letters[m]
    BY <1>2, <1>3, LetterEdits DEF MarkReplayed
<1>6. IdlePub \in PubStates /\ pub' = [pub EXCEPT ![p] = IdlePub]
    BY DEF MarkReplayed, PubStates, IdlePub
<1>7. /\ EnvelopesKept /\ envelopes' \in Seq(Envelopes) /\ Len(envelopes') <= MaxEnvelopes
      /\ seen' \subseteq KeyedEvents /\ accepted' \subseteq Events /\ broken' \subseteq KeyedEvents
      /\ broken \subseteq broken'
      /\ UNCHANGED << envelopes, job, work, runs, ended, crashes, accepted, seen >>
    BY <1>1 DEF BusTyped, MarkReplayed, EnvelopesKept
<1>12. faults' \in Nat /\ faults' >= faults
    <2>1. faults' = faults
        BY DEF MarkReplayed
    <2>2. faults \in Nat
        BY <1>1 DEF BusTyped
    <2> QED
        BY <2>1, <2>2
<1>8. Replayed(l)'
    BY <1>1, <1>2, <1>4, <1>7 DEF Replayed, EnvOf
<1>9. \A m \in DOMAIN letters' : letters'[m].status = "replayed" => letters[m].status = "replayed" \/ Replayed(m)'
    <2>1. \A m : m = l => Replayed(m)'
        BY <1>8
    <2> QED
        BY <1>5, <2>1
<1>10. pub[p].pc \notin {"log", "sync", "enqueue"} /\ \A e \in accepted' \cup seen' : e \in accepted \cup seen
    BY <1>1, <1>7 DEF At
<1>11. \A i \in DOMAIN envelopes' : i \in DOMAIN envelopes /\ envelopes'[i].log = envelopes[i].log
    BY <1>7
<1> QED
    BY <1>5, <1>6, <1>7, <1>9, <1>10, <1>11, <1>12, PublisherStep

LEMMA EnqueueKeepsInv ==
    ASSUME BusInv, NEW p \in Publishers, Enqueue(p)
    PROVE  BusInv'
<1>1. /\ BusTyped /\ BusKnown /\ WorkOwned /\ OutcomesInv /\ LettersInv /\ RunsInv
      /\ At(p, "enqueue") /\ ~At(p, "idle") /\ Async(EventOf(p)) /\ pub[p].env \in DOMAIN envelopes
    BY PublisherAt DEF Enqueue, At, PubOK, BusInv
<1>2. PICK i : i = pub[p].env
    OBVIOUS
<1>3. PICK id : id = JobId(i)
    OBVIOUS
<1>4. /\ i \in DOMAIN envelopes /\ i \in Nat /\ i # 0 /\ id \in JobIds /\ job[id] \in BusJobs /\ job[id].queue \in Jobs
      /\ Async(envelopes[i].event)
    BY <1>1, <1>2, <1>3, EnvelopesNumbered, JobIdIsAJobs DEF BusTyped, BusJobs, EventOf, EnvOf
<1> DEFINE env == IF job[id].env = 0 THEN i ELSE job[id].env
           q == Added(job[id].queue)
           y == [env |-> env, queue |-> q]
           x == [pub[p] EXCEPT !.pc = "resolve"]
<1>5. /\ q \in Jobs /\ q.state # "none" /\ q.failures = job[id].queue.failures /\ q.stalls = job[id].queue.stalls
      /\ q.state = IF job[id].queue.state = "none" THEN "waiting" ELSE job[id].queue.state
    <2>1. q \in Jobs /\ q.state = IF job[id].queue.state = "none" THEN "waiting" ELSE job[id].queue.state
        BY <1>4, JobsStayJobs
    <2>2. q.failures = job[id].queue.failures /\ q.stalls = job[id].queue.stalls
        BY <1>4 DEF Added, Jobs
    <2> QED
        BY <2>1, <2>2
<1>6. job' = [job EXCEPT ![id] = y] /\ env \in Nat /\ env # 0 /\ (job[id].env # 0 => env = job[id].env)
      /\ (job[id].env = 0 => env = i)
    BY <1>2, <1>3, <1>4 DEF Enqueue, BusJobs
<1> HIDE DEF env, q
<1>7. /\ job' \in [JobIds -> BusJobs] /\ job'[id].env = env /\ job'[id].queue = q
      /\ \A j \in JobIds : j # id => job'[j] = job[j]
    BY <1>1, <1>4, <1>5, <1>6 DEF BusTyped, BusJobs
<1>8. x \in PubStates /\ x.pc = "resolve" /\ x.env = i /\ pub' = [pub EXCEPT ![p] = x]
    <2>1. [pc |-> "resolve", env |-> 0, h |-> 0] \in PubStates
        BY DEF PubStates
    <2>2. pub' = [pub EXCEPT ![p].pc = "resolve"]
        BY DEF Enqueue
    <2> QED
        BY <1>2, <2>1, <2>2, PubMoves
<1> HIDE DEF x, y
<1>9. /\ EnvelopesKept /\ LettersKept /\ JobsKept
      /\ UNCHANGED << envelopes, seen, work, letters, runs, ended, accepted, broken, faults, crashes >>
    BY <1>6, <1>7 DEF Enqueue, EnvelopesKept, LettersKept, JobsKept
<1>10. /\ pub' \in [Publishers -> PubStates] /\ pub'[p] = x /\ \A r \in Publishers : r # p => pub'[r] = pub[r]
    BY <1>1, <1>8 DEF BusTyped
<1>11. BusTyped'
    <2>1. \A r \in Publishers : IF pub'[r].pc = "idle" THEN pub'[r] = IdlePub ELSE pub'[r].env \in DOMAIN envelopes'
        BY <1>1, <1>4, <1>8, <1>9, <1>10 DEF BusTyped, At
    <2>2. work' \in [Workers -> WorkStates] /\ \A w \in Workers : WorkPlaced(w)'
        BY <1>1, <1>9 DEF BusTyped, WorkPlaced, WorkAt
    <2>3. letters' \in Seq(Letters) /\ \A l \in DOMAIN letters' : letters'[l].env \in DOMAIN envelopes'
        BY <1>1, <1>9 DEF BusTyped
    <2> QED
        BY <1>1, <1>7, <1>9, <1>10, <2>1, <2>2, <2>3 DEF BusTyped, At
<1>12. /\ \A k \in DOMAIN envelopes : JobId(k)' = JobId(k)
       /\ \A j \in JobIds : job[j].env # 0 /\ HasLetter(j) => HasLetter(j)'
    <2>1. faults' \in Nat /\ faults' >= faults
        <3>1. faults' = faults
            BY <1>9
        <3>2. faults \in Nat
            BY <1>1 DEF BusTyped
        <3> QED
            BY <3>1, <3>2
    <2> QED
        BY <1>9, <2>1, KeptFacts
<1>13. BusKnown'
    <2>1. \A k \in DOMAIN envelopes' : EnvelopeKnown(k)'
        BY <1>1, <1>9 DEF BusKnown, EnvelopeKnown, Async
    <2>2. \A l \in DOMAIN letters' : Async(envelopes'[letters'[l].env].event)
        BY <1>1, <1>9 DEF BusKnown
    <2>3. \A j \in JobIds : j # id => JobKnown(j)'
        BY <1>1, <1>7, <1>9 DEF BusKnown, JobKnown, JobId, Async
    <2>4. JobKnown(id)'
        <3>1. env \in DOMAIN envelopes /\ JobId(env) = id /\ Async(envelopes[env].event)
            BY <1>1, <1>3, <1>4, <1>6 DEF BusKnown, JobKnown
        <3> QED
            BY <1>5, <1>6, <1>7, <1>9, <3>1 DEF JobKnown, JobId, Async
    <2> QED
        BY <2>1, <2>2, <2>3, <2>4 DEF BusKnown, Async
<1>14. \A r \in Publishers : PubOK(r)'
    <2>1. \A r \in Publishers : r # p => PubOK(r)'
        BY <1>9, <1>10, PubFrame
    <2>2. job'[JobId(i)'].env # 0
        BY <1>3, <1>4, <1>6, <1>7, <1>12
    <2>3. PubOK(p)'
        BY <1>8, <1>10, <2>2 DEF PubOK, At, JobId
    <2> QED
        BY <2>1, <2>3
<1>15. WorkOwned'
    BY <1>1, <1>5, <1>7, <1>9 DEF WorkOwned, WorkAt, BusTyped, WorkPlaced
<1>16. OutcomesInv'
    <2>1. \A j \in JobIds : job'[j].queue.state = "completed" => ended'[j] = HandlersOf
        BY <1>1, <1>5, <1>7, <1>9 DEF OutcomesInv
    <2>2. \A k \in DOMAIN envelopes' : envelopes'[k].log = "dispatched" => ended'[JobId(k)'] = HandlersOf
        BY <1>1, <1>9, <1>12 DEF OutcomesInv
    <2> QED
        BY <1>1, <1>9, <2>1, <2>2 DEF OutcomesInv, WorkAt, JobId
<1>17. LettersInv'
    <2>1. \A j \in JobIds : /\ job'[j].queue.failures = job[j].queue.failures
                            /\ job'[j].queue.state \in {"none", "waiting", "active"} => job[j].queue.state \in {"none", "waiting", "active"}
        BY <1>5, <1>7
    <2>2. \A j \in JobIds : job[j].queue.failures = Attempts => job[j].env # 0
        BY <1>1, JobQueueAssumption DEF LettersInv, BusKnown, JobKnown
    <2>3. \A w \in Workers : WorkAt(w, "fail") => work[w].id \in JobIds /\ job[work[w].id].env # 0
        <3> SUFFICES ASSUME NEW w \in Workers, WorkAt(w, "fail")
                     PROVE  work[w].id \in JobIds /\ job[work[w].id].env # 0
            OBVIOUS
        <3>1. ~WorkAt(w, "idle") /\ WorkPlaced(w)
            BY <1>1 DEF WorkAt, BusTyped
        <3>2. work[w].id \in JobIds /\ job[work[w].id].queue.state = "active"
            BY <3>1, <1>1 DEF WorkPlaced, WorkOwned
        <3> QED
            BY <3>2, <1>1 DEF BusKnown, JobKnown
    <2>4. \A w \in Workers : WorkAt(w, "throw") => work[w].id \in JobIds
        BY <1>1 DEF BusTyped, WorkPlaced, WorkAt
    <2> QED
        BY <1>1, <1>9, <1>12, <2>1, <2>2, <2>3, <2>4 DEF LettersInv, WorkAt
<1>18. RunsInv'
    <2>1. \A j \in JobIds : /\ Tries(j)' = Tries(j)
                            /\ job'[j].queue.state \in {"none", "waiting"} => job[j].queue.state \in {"none", "waiting"}
                            /\ job'[j].queue.state = "none" => job[j].queue.state = "none"
        BY <1>5, <1>7 DEF Tries
    <2>2. \A w \in Workers : WorkAt(w, "handle") => work[w].id \in JobIds
        BY <1>1 DEF BusTyped, WorkPlaced, WorkAt
    <2> QED
        BY <1>1, <1>9, <2>1, <2>2 DEF RunsInv, WorkAt, Tries
<1>19. ReportedInv'
    <2>1. ASSUME NEW e, Async(e), Committed(e)
          PROVE  HasJob(e)' \/ Committed(e)'
        <3>1. PICK r \in Publishers : pub[r].pc \in {"log", "sync", "enqueue"} /\ EventOf(r) = e /\ EnvOf(r).keyed
            BY <2>1 DEF Committed
        <3>2. CASE r = p
            <4>1. envelopes'[i].event = e /\ envelopes'[i].keyed
                BY <1>2, <1>9, <3>1, <3>2 DEF EventOf, EnvOf
            <4>2. JobId(i)' = id /\ job'[id].env # 0 /\ id = e
                BY <1>3, <1>4, <1>6, <1>7, <1>9, <4>1 DEF JobId
            <4>4. envelopes'[job'[id].env].event = e
                <5>1. envelopes[env].event = e
                    BY <1>1, <1>2, <1>3, <1>4, <1>6, <3>1, <3>2, <4>1, <4>2, JobIdIsAJobs
                       DEF BusKnown, JobKnown, EnvelopeKnown, EventOf, EnvOf
                <5> QED
                    BY <5>1, <1>7, <1>9
            <4> QED
                BY <1>4, <4>2, <4>4 DEF HasJob
        <3>3. CASE r # p
            BY <3>1, <3>3, <1>9, <1>10, CommittedFrame
        <3> QED
            BY <3>2, <3>3
    <2> QED
        BY <1>9, <2>1, ReportedFrame
<1> QED
    BY <1>11, <1>13, <1>14, <1>15, <1>16, <1>17, <1>18, <1>19 DEF BusInv

-----------------------------------------------------------------------------
(* processJob() *)

LEMMA WorkerAt ==
    ASSUME BusInv, NEW w \in Workers, ~WorkAt(w, "idle")
    PROVE  /\ work[w] \in WorkStates /\ work[w].id \in JobIds /\ work[w].h \in Nat /\ work[w].h >= 1
           /\ work[w].h <= Len(AsyncHandlers) + 1
           /\ work[w].h <= Len(AsyncHandlers) <=> work[w].h \in DOMAIN AsyncHandlers
           /\ work[w].pc \in {"letter", "throw", "fail"} => work[w].h \in DOMAIN AsyncHandlers
           /\ job[work[w].id].queue \in Jobs /\ job[work[w].id].queue.state = "active"
           /\ job[work[w].id].queue.failures < Attempts
           /\ Data(w) # 0 /\ Data(w) \in DOMAIN envelopes /\ JobId(Data(w)) = work[w].id
           /\ Async(envelopes[Data(w)].event)
<1>1. BusTyped /\ BusKnown /\ WorkOwned /\ LettersInv /\ WorkPlaced(w)
    BY DEF BusInv, BusTyped
<1>2. /\ work[w] \in WorkStates /\ work[w].id \in JobIds /\ work[w].h \in 1 .. Len(AsyncHandlers) + 1
      /\ work[w].pc \in {"letter", "throw", "fail"} => work[w].h \in DOMAIN AsyncHandlers
    BY <1>1 DEF BusTyped, WorkPlaced
<1>3. /\ work[w].h \in Nat /\ work[w].h >= 1 /\ work[w].h <= Len(AsyncHandlers) + 1
      /\ work[w].h <= Len(AsyncHandlers) <=> work[w].h \in DOMAIN AsyncHandlers
    BY <1>2, ZeroIsNoJob
<1>4. job[work[w].id].queue \in Jobs /\ job[work[w].id].queue.state = "active"
    BY <1>1, <1>2 DEF BusTyped, BusJobs, WorkOwned
<1>5. job[work[w].id].queue.failures < Attempts
    BY <1>1, <1>2, <1>4 DEF LettersInv
<1>6. /\ Data(w) # 0 /\ Data(w) \in DOMAIN envelopes /\ JobId(Data(w)) = work[w].id
      /\ Async(envelopes[Data(w)].event)
    BY <1>1, <1>2, <1>4 DEF BusKnown, JobKnown, Data
<1> QED
    BY <1>2, <1>3, <1>4, <1>5, <1>6

LEMMA JobEdits ==
    ASSUME BusInv, NEW j \in JobIds, NEW q \in Jobs, job' = [job EXCEPT ![j].queue = q]
    PROVE  /\ job' \in [JobIds -> BusJobs] /\ job'[j].queue = q /\ job'[j].env = job[j].env
           /\ \A k \in JobIds : job'[k].env = job[k].env /\ (k # j => job'[k] = job[k])
<1>1. job \in [JobIds -> BusJobs] /\ job[j] \in BusJobs
    BY DEF BusInv, BusTyped
<1> DEFINE y == [job[j] EXCEPT !.queue = q]
<1>2. y \in BusJobs /\ y.queue = q /\ y.env = job[j].env /\ job' = [job EXCEPT ![j] = y]
    BY <1>1 DEF BusJobs
<1> HIDE DEF y
<1> QED
    BY <1>1, <1>2

LEMMA WorkEdits ==
    ASSUME BusInv, NEW w \in Workers, NEW x \in WorkStates, work' = [work EXCEPT ![w] = x],
           x = IdleWork \/ (/\ x.pc # "idle" /\ x.id \in JobIds /\ x.h \in 1 .. Len(AsyncHandlers) + 1
                            /\ x.pc \in {"letter", "throw", "fail"} => x.h \in DOMAIN AsyncHandlers
                            /\ x.pc = "return" => x.h > Len(AsyncHandlers))
    PROVE  /\ work' \in [Workers -> WorkStates] /\ work'[w] = x
           /\ \A v \in Workers : WorkPlaced(v)' /\ (v # w => work'[v] = work[v])
<1>1. work \in [Workers -> WorkStates] /\ \A v \in Workers : WorkPlaced(v)
    BY DEF BusInv, BusTyped
<1>2. /\ work' \in [Workers -> WorkStates] /\ work'[w] = x
      /\ \A v \in Workers : v # w => work'[v] = work[v]
    BY <1>1
<1>3. \A v \in Workers : v # w => WorkPlaced(v)'
    BY <1>1, <1>2 DEF WorkPlaced, WorkAt
<1>4. WorkPlaced(w)'
    <2>1. CASE x = IdleWork
        BY <1>2, <2>1 DEF WorkPlaced, WorkAt, IdleWork
    <2>2. CASE /\ x.pc # "idle" /\ x.id \in JobIds /\ x.h \in 1 .. Len(AsyncHandlers) + 1
               /\ x.pc \in {"letter", "throw", "fail"} => x.h \in DOMAIN AsyncHandlers
               /\ x.pc = "return" => x.h > Len(AsyncHandlers)
        BY <1>2, <2>2 DEF WorkPlaced, WorkAt
    <2> QED
        BY <2>1, <2>2
<1> QED
    BY <1>2, <1>3, <1>4

\* What a step of the queue or of a worker keeps.
LEMMA QueueStep ==
    ASSUME BusInv, UNCHANGED << pub, seen, accepted, broken >>, EnvelopesKept, LettersKept,
           envelopes' \in Seq(Envelopes) /\ Len(envelopes') = Len(envelopes) /\ DOMAIN envelopes' = DOMAIN envelopes,
           letters' \in Seq(Letters),
           \A l \in DOMAIN letters' : l \in DOMAIN letters
               \/ (letters'[l].env \in DOMAIN envelopes /\ Async(envelopes[letters'[l].env].event)),
           \A l \in DOMAIN letters' : letters'[l].status = "replayed" =>
               l \in DOMAIN letters /\ letters[l].status = "replayed",
           job' \in [JobIds -> BusJobs],
           \A j \in JobIds : /\ job'[j].env = job[j].env
                             /\ job'[j].queue.state = "none" <=> job[j].queue.state = "none",
           work' \in [Workers -> WorkStates] /\ (\A w \in Workers : WorkPlaced(w)'),
           runs' \in [JobIds -> [HandlersOf -> Nat]] /\ ended' \in [JobIds -> SUBSET HandlersOf],
           faults' \in Nat /\ crashes' \in Nat,
           WorkOwned', OutcomesInv', LettersInv', RunsInv'
    PROVE  BusInv'
<1>1. BusTyped
    BY DEF BusInv
<1>2. JobsKept
    BY DEF JobsKept
<1>3. BusTyped'
    <2>1. \A q \in Publishers : IF pub'[q].pc = "idle" THEN pub'[q] = IdlePub ELSE pub'[q].env \in DOMAIN envelopes'
        BY <1>1 DEF BusTyped, At
    <2>2. \A l \in DOMAIN letters' : letters'[l].env \in DOMAIN envelopes'
        BY <1>1 DEF BusTyped, LettersKept
    <2>3. /\ seen' \subseteq KeyedEvents /\ accepted' \subseteq Events /\ broken' \subseteq KeyedEvents
          /\ pub' \in [Publishers -> PubStates] /\ Len(envelopes') <= MaxEnvelopes
        BY <1>1 DEF BusTyped
    <2> QED
        BY <2>1, <2>2, <2>3 DEF BusTyped, At
<1>4. BusKnown'
    BY <1>3, KnownFrame
<1>5. (\A q \in Publishers : PubOK(q)') /\ ReportedInv'
    BY <1>2, PublishersFrame
<1> QED
    BY <1>3, <1>4, <1>5 DEF BusInv

\* Letters of jobs that stay, for workers that do not step.
LEMMA LettersFrame ==
    ASSUME BusInv, EnvelopesKept, LettersKept, JobsKept, faults' \in Nat, faults' >= faults
    PROVE  /\ \A j \in JobIds : job[j].queue.failures = Attempts => HasLetter(j)'
           /\ \A w \in Workers, j \in JobIds : WorkAt(w, "fail") /\ work[w].id = j => HasLetter(j)'
<1>1. BusTyped /\ BusKnown /\ LettersInv
    BY DEF BusInv
<1>2. \A j \in JobIds : job[j].env # 0 /\ HasLetter(j) => HasLetter(j)'
    BY KeptFacts
<1>3. \A j \in JobIds : job[j].queue.failures = Attempts => job[j].env # 0
    BY <1>1, JobQueueAssumption DEF LettersInv, BusKnown, JobKnown
<1>4. ASSUME NEW w \in Workers, NEW j \in JobIds, WorkAt(w, "fail"), work[w].id = j
      PROVE  HasLetter(j)'
    <2>1. job[j].env # 0
        BY <1>4, WorkerAt DEF WorkAt, Data
    <2> QED
        BY <1>1, <1>2, <1>4, <2>1 DEF LettersInv
<1> QED
    BY <1>1, <1>2, <1>3, <1>4 DEF LettersInv

\* A step of a worker: at most its own job and its own history change.
LEMMA WorkerStep ==
    ASSUME BusInv, NEW w \in Workers, NEW j \in JobIds, NEW q \in Jobs, NEW x \in WorkStates,
           (WorkAt(w, "idle") /\ job[j].queue.state = "waiting") \/ (~WorkAt(w, "idle") /\ work[w].id = j),
           UNCHANGED << pub, seen, accepted, broken >>, EnvelopesKept, LettersKept,
           envelopes' \in Seq(Envelopes) /\ Len(envelopes') = Len(envelopes) /\ DOMAIN envelopes' = DOMAIN envelopes,
           letters' \in Seq(Letters),
           \A l \in DOMAIN letters' : l \in DOMAIN letters
               \/ (letters'[l].env \in DOMAIN envelopes /\ Async(envelopes[letters'[l].env].event)),
           \A l \in DOMAIN letters' : letters'[l].status = "replayed" =>
               l \in DOMAIN letters /\ letters[l].status = "replayed",
           job' \in [JobIds -> BusJobs] /\ job'[j].queue = q /\ q.state # "none",
           \A k \in JobIds : job'[k].env = job[k].env /\ (k # j => job'[k] = job[k]),
           work' = [work EXCEPT ![w] = x],
           x = IdleWork \/ (/\ x.pc # "idle" /\ x.id = j /\ x.h \in 1 .. Len(AsyncHandlers) + 1 /\ q.state = "active"
                            /\ x.pc \in {"letter", "throw", "fail"} => x.h \in DOMAIN AsyncHandlers
                            /\ x.pc = "return" => x.h > Len(AsyncHandlers)),
           runs' \in [JobIds -> [HandlersOf -> Nat]] /\ ended' \in [JobIds -> SUBSET HandlersOf],
           faults' \in Nat /\ faults' >= faults /\ crashes' \in Nat,
           \* outcomes
           \A k \in JobIds : ended[k] \subseteq ended'[k],
           x.pc \in {"handle", "return"} => \A k \in DOMAIN AsyncHandlers : k < x.h => AsyncHandlers[k] \in ended'[j],
           q.state = "completed" => ended'[j] = HandlersOf,
           \A i \in DOMAIN envelopes : envelopes'[i].log = "dispatched" =>
               envelopes[i].log = "dispatched" \/ ended'[JobId(i)] = HandlersOf,
           \* letters
           q.failures <= Attempts /\ (q.state \in {"waiting", "active"} => q.failures < Attempts),
           q.failures = Attempts => HasLetter(j)',
           x.pc = "throw" => q.failures + 1 < Attempts,
           x.pc = "fail" => HasLetter(j)',
           \* runs
           \A k \in JobIds : k # j => runs'[k] = runs[k],
           \A h \in HandlersOf : runs'[j][h] <= 1 + (q.failures + q.stalls)
                                 /\ (q.state = "waiting" => runs'[j][h] <= q.failures + q.stalls),
           x.pc = "handle" => \A k \in DOMAIN AsyncHandlers : k >= x.h => runs'[j][AsyncHandlers[k]] <= q.failures + q.stalls
    PROVE  BusInv'
<1>1. BusTyped /\ BusKnown /\ WorkOwned /\ OutcomesInv /\ LettersInv /\ RunsInv
    BY DEF BusInv
<1>2. JobsKept
    BY DEF JobsKept
<1>3. /\ work' \in [Workers -> WorkStates] /\ work'[w] = x
      /\ \A v \in Workers : WorkPlaced(v)' /\ (v # w => work'[v] = work[v])
    BY WorkEdits
<1>4. \A v \in Workers : v # w /\ ~WorkAt(v, "idle") => work[v].id # j /\ work[v].id \in JobIds
    BY <1>1, WorkerAt DEF WorkOwned
<1>5. x = IdleWork \/ (x.pc # "idle" /\ x.id = j /\ q.state = "active")
    OBVIOUS
<1>6. IdleWork.pc = "idle"
    BY DEF IdleWork
<1>7. WorkOwned'
    <2>1. ASSUME NEW v \in Workers, ~WorkAt(v, "idle")'
          PROVE  job'[work'[v].id].queue.state = "active"
        BY <1>1, <1>3, <1>4, <1>5, <1>6, <2>1 DEF WorkOwned, WorkAt
    <2>2. ASSUME NEW v \in Workers, NEW u \in Workers, ~WorkAt(v, "idle")', work'[v].id = work'[u].id
          PROVE  v = u
        <3>1. CASE v = w
            <4>1. x.id = j
                BY <1>3, <1>5, <1>6, <2>2, <3>1 DEF WorkAt
            <4>2. CASE u # w
                <5>1. work[u].id = j
                    BY <1>3, <2>2, <3>1, <4>1, <4>2
                <5>2. WorkAt(u, "idle")
                    BY <1>4, <4>2, <5>1
                <5>3. work[u] = IdleWork
                    BY <1>1, <5>2 DEF BusTyped, WorkPlaced
                <5> QED
                    BY <5>1, <5>3, ZeroIsNoJob DEF IdleWork
            <4> QED
                BY <3>1, <4>2
        <3>2. CASE v # w /\ u = w
            <4>1. work[v].id = x.id /\ ~WorkAt(v, "idle")
                BY <1>3, <2>2, <3>2 DEF WorkAt
            <4>2. work[v].id # j /\ work[v].id \in JobIds
                BY <1>4, <3>2, <4>1
            <4> QED
                BY <1>5, <4>1, <4>2, ZeroIsNoJob DEF IdleWork
        <3>3. CASE v # w /\ u # w
            BY <1>1, <1>3, <2>2, <3>3 DEF WorkOwned, WorkAt
        <3> QED
            BY <3>1, <3>2, <3>3
    <2> QED
        BY <2>1, <2>2 DEF WorkOwned, WorkAt
<1>8. OutcomesInv'
    <2>1. ASSUME NEW v \in Workers, work'[v].pc \in {"handle", "return"}, NEW k \in DOMAIN AsyncHandlers, k < work'[v].h
          PROVE  AsyncHandlers[k] \in ended'[work'[v].id]
        <3>1. CASE v = w
            BY <1>3, <1>5, <1>6, <2>1, <3>1
        <3>2. CASE v # w
            <4>1. work'[v] = work[v] /\ work[v].id \in JobIds
                BY <1>3, <1>4, <2>1, <3>2 DEF WorkAt
            <4>2. AsyncHandlers[k] \in ended[work[v].id]
                BY <1>1, <2>1, <4>1 DEF OutcomesInv
            <4> QED
                BY <4>1, <4>2
        <3> QED
            BY <3>1, <3>2
    <2>2. \A i \in DOMAIN envelopes : JobId(i)' = JobId(i) /\ JobId(i) \in JobIds
        BY <1>1, <1>2, KeptFacts, JobIdIsAJobs
    <2>5. \A k \in JobIds : ended[k] = HandlersOf => ended'[k] = HandlersOf
        <3> SUFFICES ASSUME NEW k \in JobIds, ended[k] = HandlersOf
                     PROVE  ended'[k] = HandlersOf
            OBVIOUS
        <3>1. ended'[k] \subseteq HandlersOf
            OBVIOUS
        <3>2. HandlersOf \subseteq ended'[k]
            OBVIOUS
        <3> QED
            BY <3>1, <3>2
    <2>3. ASSUME NEW i \in DOMAIN envelopes', envelopes'[i].log = "dispatched"
          PROVE  ended'[JobId(i)'] = HandlersOf
        <3>1. ended'[JobId(i)] = HandlersOf
            <4>1. ended[JobId(i)] = HandlersOf => ended'[JobId(i)] = HandlersOf
                BY <2>2, <2>5
            <4> QED
                BY <1>1, <2>3, <4>1 DEF OutcomesInv
        <3> QED
            BY <2>2, <3>1
    <2>4. ASSUME NEW k \in JobIds, job'[k].queue.state = "completed"
          PROVE  ended'[k] = HandlersOf
        <3>1. CASE k = j
            BY <2>4, <3>1
        <3>2. CASE k # j
            <4>1. job'[k].queue = job[k].queue
                BY <3>2
            <4> QED
                BY <1>1, <2>4, <2>5, <4>1 DEF OutcomesInv
        <3> QED
            BY <3>1, <3>2
    <2> QED
        BY <2>1, <2>3, <2>4 DEF OutcomesInv, JobId
<1>9. LettersInv'
    <2>1. /\ \A k \in JobIds : job[k].queue.failures = Attempts => HasLetter(k)'
          /\ \A v \in Workers, k \in JobIds : WorkAt(v, "fail") /\ work[v].id = k => HasLetter(k)'
        BY <1>2, LettersFrame
    <2>2. \A k \in JobIds :
            /\ job'[k].queue.failures <= Attempts
            /\ job'[k].queue.state \in {"none", "waiting", "active"} => job'[k].queue.failures < Attempts
        BY <1>1 DEF LettersInv
    <2>3. \A k \in JobIds : job'[k].queue.failures = Attempts => HasLetter(k)'
        <3>1. \A k \in JobIds : k = j /\ q.failures = Attempts => HasLetter(k)'
            OBVIOUS
        <3>2. \A k \in JobIds : k # j /\ job[k].queue.failures = Attempts => HasLetter(k)'
            BY <2>1
        <3> QED
            BY <3>1, <3>2
    <2>4. \A v \in Workers : work'[v].pc = "throw" => job'[work'[v].id].queue.failures + 1 < Attempts
        BY <1>1, <1>3, <1>4, <1>5, <1>6 DEF LettersInv, WorkAt
    <2>5. \A v \in Workers, k \in JobIds : work'[v].pc = "fail" /\ work'[v].id = k => HasLetter(k)'
        <3>1. \A k \in JobIds : x.pc = "fail" /\ x.id = k => HasLetter(k)'
            BY <1>5, <1>6
        <3>2. \A v \in Workers, k \in JobIds : v # w /\ work'[v].pc = "fail" /\ work'[v].id = k => HasLetter(k)'
            BY <1>3, <2>1 DEF WorkAt
        <3> QED
            BY <1>3, <3>1, <3>2
    <2> QED
        BY <2>2, <2>3, <2>4, <2>5 DEF LettersInv, WorkAt
<1>10. RunsInv'
    <2>1. /\ \A k \in JobIds : k # j => Tries(k)' = Tries(k)
          /\ \A k \in JobIds : k = j => Tries(k)' = q.failures + q.stalls
        BY DEF Tries
    <2>2. ASSUME NEW k \in JobIds, NEW h \in HandlersOf
          PROVE  /\ runs'[k][h] <= 1 + Tries(k)'
                 /\ job'[k].queue.state \in {"none", "waiting"} => runs'[k][h] <= Tries(k)'
                 /\ job'[k].queue.state = "none" => runs'[k][h] = 0
        <3>1. CASE k = j
            BY <2>1, <3>1
        <3>2. CASE k # j
            BY <1>1, <2>1, <3>2 DEF RunsInv
        <3> QED
            BY <3>1, <3>2
    <2>3. ASSUME NEW v \in Workers, NEW k \in JobIds, WorkAt(v, "handle")', work'[v].id = k,
                 NEW n \in DOMAIN AsyncHandlers, n >= work'[v].h
          PROVE  runs'[k][AsyncHandlers[n]] <= Tries(k)'
        <3>1. CASE v = w
            <4>1. x.pc = "handle" /\ k = j /\ n >= x.h
                BY <1>3, <1>5, <1>6, <2>3, <3>1 DEF WorkAt
            <4> QED
                BY <2>1, <4>1
        <3>2. CASE v # w
            <4>1. work'[v] = work[v] /\ WorkAt(v, "handle") /\ k # j
                BY <1>3, <1>4, <2>3, <3>2 DEF WorkAt
            <4>2. work[v].id = k /\ n >= work[v].h
                BY <2>3, <4>1
            <4>3. runs[k][AsyncHandlers[n]] <= Tries(k)
                BY <1>1, <2>3, <4>1, <4>2 DEF RunsInv
            <4>4. Tries(k)' = Tries(k) /\ runs'[k] = runs[k]
                BY <2>1, <4>1
            <4> QED
                BY <4>3, <4>4
        <3> QED
            BY <3>1, <3>2
    <2> QED
        BY <2>2, <2>3 DEF RunsInv, WorkAt
<1>11. \A k \in JobIds : /\ job'[k].env = job[k].env
                         /\ job'[k].queue.state = "none" <=> job[k].queue.state = "none"
    <2>1. job[j].queue.state # "none"
        BY WorkerAt
    <2> QED
        BY <2>1
<1> QED
    BY <1>3, <1>7, <1>8, <1>9, <1>10, <1>11, QueueStep

LEMMA TakeKeepsInv ==
    ASSUME BusInv, NEW w \in Workers, NEW j \in JobIds, Take(w, j)
    PROVE  BusInv'
<1>1. /\ BusTyped /\ BusKnown /\ LettersInv /\ RunsInv /\ WorkAt(w, "idle") /\ job[j].queue \in Jobs
      /\ job[j].queue.state = "waiting"
    BY DEF BusInv, Take, BusTyped, BusJobs
<1> DEFINE q == [job[j].queue EXCEPT !.state = "active"]
           x == [pc |-> "handle", id |-> j, h |-> 1]
<1>2. q \in Jobs /\ q.state = "active" /\ q.failures = job[j].queue.failures /\ q.stalls = job[j].queue.stalls
    <2>1. q \in Jobs /\ q.state = "active"
        BY <1>1, JobsStayJobs
    <2> QED
        BY <1>1, <2>1 DEF Jobs
<1>3. job' = [job EXCEPT ![j].queue = q]
    BY <1>1 DEF Take, BusTyped
<1>4. /\ x \in WorkStates /\ x.pc = "handle" /\ x.id = j /\ x.h = 1 /\ 1 \in 1 .. Len(AsyncHandlers) + 1
      /\ work' = [work EXCEPT ![w] = x]
    BY ZeroIsNoJob DEF WorkStates, Take
<1> HIDE DEF q, x
<1>5. /\ job' \in [JobIds -> BusJobs] /\ job'[j].queue = q
      /\ \A k \in JobIds : job'[k].env = job[k].env /\ (k # j => job'[k] = job[k])
    BY <1>2, <1>3, JobEdits
<1>6. UNCHANGED << envelopes, seen, pub, letters, runs, ended, accepted, broken, faults, crashes >>
    BY DEF Take
<1>7. /\ EnvelopesKept /\ LettersKept
      /\ envelopes' \in Seq(Envelopes) /\ Len(envelopes') = Len(envelopes) /\ DOMAIN envelopes' = DOMAIN envelopes
      /\ letters' \in Seq(Letters)
      /\ runs' \in [JobIds -> [HandlersOf -> Nat]] /\ ended' \in [JobIds -> SUBSET HandlersOf]
    BY <1>1, <1>6 DEF BusTyped, EnvelopesKept, LettersKept
<1>8. faults' \in Nat /\ faults' >= faults /\ crashes' \in Nat
    BY <1>1, <1>6 DEF BusTyped
<1>9. q.failures < Attempts /\ q.failures <= Attempts /\ q.failures # Attempts
    BY <1>1, <1>2, JobQueueAssumption DEF LettersInv, Jobs
<1>10. \A h \in HandlersOf : runs[j][h] <= q.failures + q.stalls /\ runs[j][h] <= 1 + (q.failures + q.stalls)
    BY <1>1, <1>2 DEF RunsInv, Tries, BusTyped, Jobs
<1>11. \A k \in DOMAIN AsyncHandlers : AsyncHandlers[k] \in HandlersOf /\ ~(k < 1)
    BY ZeroIsNoJob DEF HandlersOf
<1> QED
    BY <1>1, <1>2, <1>4, <1>5, <1>6, <1>7, <1>8, <1>9, <1>10, <1>11, WorkerStep

\* What holds at the job a worker is at, named for the steps below.
LEMMA WorkersJob ==
    ASSUME BusInv, NEW w \in Workers, ~WorkAt(w, "idle"), NEW j, j = work[w].id
    PROVE  /\ j \in JobIds /\ job[j].queue \in Jobs /\ job[j].queue.state = "active" /\ Data(w) = job[j].env
           /\ job[j].queue.failures < Attempts /\ job[j].queue.failures <= Attempts
           /\ job[j].queue.failures # Attempts
           /\ job[j].queue.failures \in Nat /\ job[j].queue.stalls \in Nat
           /\ job \in [JobIds -> BusJobs] /\ runs \in [JobIds -> [HandlersOf -> Nat]]
           /\ ended \in [JobIds -> SUBSET HandlersOf]
           /\ envelopes \in Seq(Envelopes) /\ letters \in Seq(Letters)
           /\ faults \in Nat /\ crashes \in Nat
           /\ \A h \in HandlersOf : runs[j][h] <= 1 + (job[j].queue.failures + job[j].queue.stalls)
           /\ WorkAt(w, "handle") => \A k \in DOMAIN AsyncHandlers :
                  k >= work[w].h => runs[j][AsyncHandlers[k]] <= job[j].queue.failures + job[j].queue.stalls
           /\ work[w].pc \in {"handle", "return"} => \A k \in DOMAIN AsyncHandlers :
                  k < work[w].h => AsyncHandlers[k] \in ended[j]
<1>1. BusTyped /\ LettersInv /\ RunsInv /\ OutcomesInv
    BY DEF BusInv
<1>2. /\ j \in JobIds /\ job[j].queue \in Jobs /\ job[j].queue.state = "active" /\ Data(w) = job[j].env
      /\ job[j].queue.failures < Attempts
    BY WorkerAt DEF Data
<1>3. job[j].queue.failures \in Nat /\ job[j].queue.stalls \in Nat
    BY <1>2 DEF Jobs
<1>4. job[j].queue.failures <= Attempts /\ job[j].queue.failures # Attempts
    BY <1>2, <1>3, JobQueueAssumption
<1>5. /\ job \in [JobIds -> BusJobs] /\ runs \in [JobIds -> [HandlersOf -> Nat]]
      /\ ended \in [JobIds -> SUBSET HandlersOf]
      /\ envelopes \in Seq(Envelopes) /\ letters \in Seq(Letters)
      /\ faults \in Nat /\ crashes \in Nat
    BY <1>1 DEF BusTyped
<1>6. /\ \A h \in HandlersOf : runs[j][h] <= 1 + (job[j].queue.failures + job[j].queue.stalls)
      /\ WorkAt(w, "handle") => \A k \in DOMAIN AsyncHandlers :
             k >= work[w].h => runs[j][AsyncHandlers[k]] <= job[j].queue.failures + job[j].queue.stalls
    BY <1>1, <1>2 DEF RunsInv, Tries
<1>7. work[w].pc \in {"handle", "return"} => \A k \in DOMAIN AsyncHandlers :
             k < work[w].h => AsyncHandlers[k] \in ended[j]
    BY <1>1 DEF OutcomesInv
<1> QED
    BY <1>2, <1>3, <1>4, <1>5, <1>6, <1>7

\* Run(w) counts one run of the worker's handler, of its job only.
LEMMA RunCounts ==
    ASSUME BusInv, NEW w \in Workers, WorkAt(w, "handle"), work[w].h <= Len(AsyncHandlers), Run(w), NEW j, j = work[w].id
    PROVE  /\ runs' \in [JobIds -> [HandlersOf -> Nat]]
           /\ \A k \in JobIds : k # j => runs'[k] = runs[k]
           /\ \A h \in HandlersOf : runs'[j][h] <= 1 + (job[j].queue.failures + job[j].queue.stalls)
           /\ \A k \in DOMAIN AsyncHandlers : k # work[w].h => runs'[j][AsyncHandlers[k]] = runs[j][AsyncHandlers[k]]
<1>1. ~WorkAt(w, "idle")
    BY DEF WorkAt
<1> DEFINE i == work[w].h
           a == AsyncHandlers[i]
           n == runs[j][a] + 1
           y == [runs[j] EXCEPT ![a] = n]
<1>2. i \in DOMAIN AsyncHandlers /\ a \in HandlersOf /\ j \in JobIds /\ i >= i /\ i \in Nat
    BY <1>1, WorkerAt DEF HandlersOf
<1>3. /\ runs \in [JobIds -> [HandlersOf -> Nat]] /\ job[j].queue.failures \in Nat /\ job[j].queue.stalls \in Nat
      /\ \A h \in HandlersOf : runs[j][h] <= 1 + (job[j].queue.failures + job[j].queue.stalls)
      /\ runs[j][a] <= job[j].queue.failures + job[j].queue.stalls
    BY <1>1, <1>2, WorkersJob
<1>4. runs[j][a] \in Nat /\ n \in Nat /\ n <= 1 + (job[j].queue.failures + job[j].queue.stalls)
    <2>1. runs[j][a] \in Nat
        BY <1>2, <1>3
    <2>2. \A r, f, s \in Nat : r <= f + s => r + 1 \in Nat /\ r + 1 <= 1 + (f + s)
        OBVIOUS
    <2> HIDE DEF a
    <2> QED
        BY <2>1, <2>2, <1>3
<1>5. runs' = [runs EXCEPT ![j] = y]
    BY <1>2, <1>3 DEF Run
<1>6. \A k \in DOMAIN AsyncHandlers : k # i => AsyncHandlers[k] # a /\ AsyncHandlers[k] \in HandlersOf
    BY <1>2, EventsAssumption DEF HandlersOf
<1> HIDE DEF i, a, n
<1>7. y \in [HandlersOf -> Nat] /\ y[a] = n /\ \A h \in HandlersOf : h # a => y[h] = runs[j][h]
    BY <1>2, <1>3, <1>4
<1> HIDE DEF y
<1>8. runs' \in [JobIds -> [HandlersOf -> Nat]] /\ runs'[j] = y /\ \A k \in JobIds : k # j => runs'[k] = runs[k]
    BY <1>2, <1>3, <1>5, <1>7
<1>9. \A h \in HandlersOf : y[h] <= 1 + (job[j].queue.failures + job[j].queue.stalls)
    BY <1>3, <1>4, <1>7
<1> QED
    BY <1>6, <1>7, <1>8, <1>9 DEF i

LEMMA HandlerReturnsKeepsInv ==
    ASSUME BusInv, NEW w \in Workers, HandlerReturns(w)
    PROVE  BusInv'
<1>1. WorkAt(w, "handle") /\ ~WorkAt(w, "idle") /\ work[w].h <= Len(AsyncHandlers) /\ Run(w)
    BY DEF HandlerReturns, WorkAt
<1>2. PICK j, n : j = work[w].id /\ n = work[w].h + 1
    OBVIOUS
<1> DEFINE x == [work[w] EXCEPT !.h = n]
           q == job[j].queue
<1>3. /\ work[w] \in WorkStates /\ j \in JobIds /\ work[w].h \in Nat /\ work[w].h \in DOMAIN AsyncHandlers
      /\ n \in Nat /\ n \in 1 .. Len(AsyncHandlers) + 1
    BY <1>1, <1>2, WorkerAt, ZeroIsNoJob
<1>4. x \in WorkStates /\ x.pc = "handle" /\ x.id = j /\ x.h = n
    BY <1>1, <1>2, <1>3 DEF WorkStates, WorkAt
<1>5. work' = [work EXCEPT ![w] = x]
    <2>1. work \in [Workers -> WorkStates]
        BY DEF BusInv, BusTyped
    <2> QED
        BY <1>2, <2>1 DEF HandlerReturns
<1> HIDE DEF x
<1>6. /\ q \in Jobs /\ q.state = "active" /\ q.failures < Attempts /\ q.failures <= Attempts /\ q.failures # Attempts
      /\ job \in [JobIds -> BusJobs] /\ ended \in [JobIds -> SUBSET HandlersOf]
      /\ envelopes \in Seq(Envelopes) /\ letters \in Seq(Letters) /\ faults \in Nat /\ crashes \in Nat
      /\ \A k \in DOMAIN AsyncHandlers : k >= work[w].h => runs[j][AsyncHandlers[k]] <= q.failures + q.stalls
      /\ \A k \in DOMAIN AsyncHandlers : k < work[w].h => AsyncHandlers[k] \in ended[j]
    BY <1>1, <1>2, WorkersJob DEF WorkAt
<1>7. /\ runs' \in [JobIds -> [HandlersOf -> Nat]] /\ (\A k \in JobIds : k # j => runs'[k] = runs[k])
      /\ \A h \in HandlersOf : runs'[j][h] <= 1 + (q.failures + q.stalls)
      /\ \A k \in DOMAIN AsyncHandlers : k # work[w].h => runs'[j][AsyncHandlers[k]] = runs[j][AsyncHandlers[k]]
    BY <1>1, <1>2, RunCounts
<1>8. /\ ended' \in [JobIds -> SUBSET HandlersOf] /\ (\A k \in JobIds : ended[k] \subseteq ended'[k])
      /\ AsyncHandlers[work[w].h] \in ended'[j]
    <2>1. AsyncHandlers[work[w].h] \in HandlersOf
        BY <1>3 DEF HandlersOf
    <2> QED
        BY <1>2, <1>3, <1>6, <2>1 DEF HandlerReturns
<1>9. UNCHANGED << envelopes, seen, pub, job, letters, accepted, broken, faults, crashes >>
    BY DEF HandlerReturns
<1>10. \A k \in DOMAIN AsyncHandlers : k \in Nat
    BY ZeroIsNoJob
<1>11. \A k \in DOMAIN AsyncHandlers : k < n => AsyncHandlers[k] \in ended'[j]
    <2>1. \A k \in DOMAIN AsyncHandlers : k < n => k < work[w].h \/ k = work[w].h
        BY <1>2, <1>3, <1>10
    <2>2. ended[j] \subseteq ended'[j]
        BY <1>3, <1>8
    <2> QED
        BY <1>6, <1>8, <2>1, <2>2
<1>12. \A k \in DOMAIN AsyncHandlers : k >= n => runs'[j][AsyncHandlers[k]] <= q.failures + q.stalls
    <2>1. \A k \in DOMAIN AsyncHandlers : k >= n => k >= work[w].h /\ k # work[w].h
        BY <1>2, <1>3, <1>10
    <2> QED
        BY <1>6, <1>7, <2>1
<1>13. /\ EnvelopesKept /\ LettersKept /\ job'[j].queue = q /\ job' \in [JobIds -> BusJobs]
       /\ \A k \in JobIds : job'[k].env = job[k].env /\ job'[k] = job[k]
       /\ envelopes' \in Seq(Envelopes) /\ Len(envelopes') = Len(envelopes) /\ DOMAIN envelopes' = DOMAIN envelopes
       /\ letters' \in Seq(Letters) /\ q.state # "none" /\ q.state # "waiting" /\ q.state # "completed"
    BY <1>6, <1>9 DEF EnvelopesKept, LettersKept
<1>14. faults' \in Nat /\ faults' >= faults /\ crashes' \in Nat
    BY <1>6, <1>9
<1>15. x = IdleWork \/ (/\ x.pc # "idle" /\ x.id = j /\ x.h \in 1 .. Len(AsyncHandlers) + 1 /\ q.state = "active"
                        /\ x.pc \in {"letter", "throw", "fail"} => x.h \in DOMAIN AsyncHandlers
                        /\ x.pc = "return" => x.h > Len(AsyncHandlers))
    BY <1>3, <1>4, <1>6
<1> HIDE DEF q
<1> QED
    BY <1>1, <1>2, <1>3, <1>4, <1>5, <1>6, <1>7, <1>8, <1>9, <1>11, <1>12, <1>13, <1>14, <1>15, WorkerStep

LEMMA HandlerThrowsKeepsInv ==
    ASSUME BusInv, NEW w \in Workers, HandlerThrows(w)
    PROVE  BusInv'
<1>1. WorkAt(w, "handle") /\ ~WorkAt(w, "idle") /\ work[w].h <= Len(AsyncHandlers) /\ Run(w)
    BY DEF HandlerThrows, WorkAt
<1>2. PICK j : j = work[w].id
    OBVIOUS
<1> DEFINE pc == IF WillRetry(job[j].queue) THEN "throw" ELSE "letter"
           x == [work[w] EXCEPT !.pc = pc]
           q == job[j].queue
<1>3. /\ work[w] \in WorkStates /\ j \in JobIds /\ work[w].h \in DOMAIN AsyncHandlers
      /\ work[w].h \in 1 .. Len(AsyncHandlers) + 1
    BY <1>1, <1>2, WorkerAt, ZeroIsNoJob
<1>4. /\ q \in Jobs /\ q.state = "active" /\ q.failures < Attempts /\ q.failures <= Attempts /\ q.failures # Attempts
      /\ q.failures \in Nat
      /\ job \in [JobIds -> BusJobs] /\ ended \in [JobIds -> SUBSET HandlersOf]
      /\ envelopes \in Seq(Envelopes) /\ letters \in Seq(Letters) /\ faults \in Nat /\ crashes \in Nat
    BY <1>1, <1>2, WorkersJob
<1>5. pc \in {"throw", "letter"} /\ (pc = "throw" => q.failures + 1 < Attempts)
    BY <1>4, JobQueueAssumption DEF WillRetry
<1>6. work' = [work EXCEPT ![w] = x]
    <2>1. work \in [Workers -> WorkStates]
        BY DEF BusInv, BusTyped
    <2> QED
        BY <1>2, <2>1 DEF HandlerThrows
<1> HIDE DEF pc
<1>7. x \in WorkStates /\ x.pc = pc /\ x.id = j /\ x.h = work[w].h
    BY <1>2, <1>3, <1>5 DEF WorkStates
<1> HIDE DEF x
<1>8. /\ runs' \in [JobIds -> [HandlersOf -> Nat]] /\ (\A k \in JobIds : k # j => runs'[k] = runs[k])
      /\ \A h \in HandlersOf : runs'[j][h] <= 1 + (q.failures + q.stalls)
    BY <1>1, <1>2, RunCounts
<1>9. UNCHANGED << envelopes, seen, pub, job, letters, ended, accepted, broken, faults, crashes >>
    BY DEF HandlerThrows
<1>10. /\ EnvelopesKept /\ LettersKept /\ job'[j].queue = q /\ job' \in [JobIds -> BusJobs]
       /\ \A k \in JobIds : job'[k].env = job[k].env /\ job'[k] = job[k]
       /\ envelopes' \in Seq(Envelopes) /\ Len(envelopes') = Len(envelopes) /\ DOMAIN envelopes' = DOMAIN envelopes
       /\ letters' \in Seq(Letters) /\ q.state # "none" /\ q.state # "waiting" /\ q.state # "completed"
       /\ ended' \in [JobIds -> SUBSET HandlersOf] /\ (\A k \in JobIds : ended[k] \subseteq ended'[k])
    BY <1>4, <1>9 DEF EnvelopesKept, LettersKept
<1>11. faults' \in Nat /\ faults' >= faults /\ crashes' \in Nat
    BY <1>4, <1>9
<1>12. x = IdleWork \/ (/\ x.pc # "idle" /\ x.id = j /\ x.h \in 1 .. Len(AsyncHandlers) + 1 /\ q.state = "active"
                        /\ x.pc \in {"letter", "throw", "fail"} => x.h \in DOMAIN AsyncHandlers
                        /\ x.pc = "return" => x.h > Len(AsyncHandlers))
    BY <1>3, <1>4, <1>5, <1>7
<1>13. x.pc \notin {"handle", "return", "fail"} /\ (x.pc = "throw" => q.failures + 1 < Attempts)
    BY <1>5, <1>7
<1> HIDE DEF q
<1> QED
    BY <1>1, <1>2, <1>3, <1>4, <1>6, <1>7, <1>8, <1>9, <1>10, <1>11, <1>12, <1>13, WorkerStep

LEMMA CreateLetterKeepsInv ==
    ASSUME BusInv, NEW w \in Workers, CreateLetter(w)
    PROVE  BusInv'
<1>1. WorkAt(w, "letter") /\ ~WorkAt(w, "idle")
    BY DEF CreateLetter, WorkAt
<1>2. PICK j : j = work[w].id
    OBVIOUS
<1> DEFINE new == [env |-> Data(w), handler |-> AsyncHandlers[work[w].h], status |-> "pending"]
           x == [work[w] EXCEPT !.pc = "fail"]
           q == job[j].queue
<1>3. /\ work[w] \in WorkStates /\ j \in JobIds /\ work[w].h \in DOMAIN AsyncHandlers
      /\ work[w].h \in 1 .. Len(AsyncHandlers) + 1
      /\ Data(w) \in DOMAIN envelopes /\ Async(envelopes[Data(w)].event)
    BY <1>1, <1>2, WorkerAt, ZeroIsNoJob DEF WorkAt
<1>4. /\ q \in Jobs /\ q.state = "active" /\ q.failures < Attempts /\ q.failures <= Attempts /\ q.failures # Attempts
      /\ Data(w) = job[j].env
      /\ job \in [JobIds -> BusJobs] /\ ended \in [JobIds -> SUBSET HandlersOf]
      /\ runs \in [JobIds -> [HandlersOf -> Nat]]
      /\ envelopes \in Seq(Envelopes) /\ letters \in Seq(Letters) /\ faults \in Nat /\ crashes \in Nat
      /\ \A h \in HandlersOf : runs[j][h] <= 1 + (q.failures + q.stalls)
    BY <1>1, <1>2, WorkersJob
<1>5. new \in Letters /\ new.env = Data(w) /\ new.status = "pending"
    <2>1. AsyncHandlers[work[w].h] \in HandlersOf
        BY <1>3 DEF HandlersOf
    <2>2. Data(w) \in Nat
        BY <1>3, EnvelopesNumbered DEF BusInv
    <2> QED
        BY <2>1, <2>2 DEF Letters
<1>6. letters' = Append(letters, new) /\ work' = [work EXCEPT ![w] = x]
    <2>1. work \in [Workers -> WorkStates]
        BY DEF BusInv, BusTyped
    <2> QED
        BY <2>1 DEF CreateLetter
<1>7. x \in WorkStates /\ x.pc = "fail" /\ x.id = j /\ x.h = work[w].h
    BY <1>2, <1>3 DEF WorkStates
<1> HIDE DEF x, new
<1>8. /\ letters' \in Seq(Letters) /\ Len(letters') = Len(letters) + 1 /\ DOMAIN letters' = 1 .. Len(letters) + 1
      /\ Len(letters) \in Nat /\ DOMAIN letters = 1 .. Len(letters)
      /\ \A l \in 1 .. Len(letters) : letters'[l] = letters[l]
      /\ letters'[Len(letters) + 1] = new
    BY <1>4, <1>5, <1>6, AppendProperties, LenProperties
<1>9. UNCHANGED << envelopes, seen, pub, job, runs, ended, accepted, broken, faults, crashes >>
    BY DEF CreateLetter
<1>10. /\ LettersKept /\ (\A l \in DOMAIN letters' : l \in DOMAIN letters \/ letters'[l] = new)
       /\ \A l \in DOMAIN letters' : letters'[l].status = "replayed" => l \in DOMAIN letters /\ letters[l].status = "replayed"
    BY <1>5, <1>8 DEF LettersKept
<1>11. \A l \in DOMAIN letters' : l \in DOMAIN letters
           \/ (letters'[l].env \in DOMAIN envelopes /\ Async(envelopes[letters'[l].env].event))
    BY <1>3, <1>5, <1>10
<1>12. HasLetter(j)'
    <2>1. Len(letters) + 1 \in DOMAIN letters' /\ letters'[Len(letters) + 1].env = job'[j].env
        BY <1>4, <1>5, <1>8, <1>9
    <2> QED
        BY <2>1 DEF HasLetter
<1>13. /\ EnvelopesKept /\ job'[j].queue = q /\ job' \in [JobIds -> BusJobs]
       /\ \A k \in JobIds : job'[k].env = job[k].env /\ job'[k] = job[k]
       /\ envelopes' \in Seq(Envelopes) /\ Len(envelopes') = Len(envelopes) /\ DOMAIN envelopes' = DOMAIN envelopes
       /\ q.state # "none" /\ q.state # "waiting" /\ q.state # "completed"
       /\ ended' \in [JobIds -> SUBSET HandlersOf] /\ (\A k \in JobIds : ended[k] \subseteq ended'[k])
       /\ runs' \in [JobIds -> [HandlersOf -> Nat]] /\ (\A k \in JobIds : runs'[k] = runs[k])
       /\ \A h \in HandlersOf : runs'[j][h] <= 1 + (q.failures + q.stalls)
    BY <1>4, <1>9 DEF EnvelopesKept
<1>14. faults' \in Nat /\ faults' >= faults /\ crashes' \in Nat
    BY <1>4, <1>9
<1>15. x = IdleWork \/ (/\ x.pc # "idle" /\ x.id = j /\ x.h \in 1 .. Len(AsyncHandlers) + 1 /\ q.state = "active"
                        /\ x.pc \in {"letter", "throw", "fail"} => x.h \in DOMAIN AsyncHandlers
                        /\ x.pc = "return" => x.h > Len(AsyncHandlers))
    BY <1>3, <1>4, <1>7
<1>16. x.pc \notin {"handle", "return", "throw"}
    BY <1>7
<1> HIDE DEF q
<1> QED
    BY <1>1, <1>2, <1>3, <1>4, <1>6, <1>7, <1>8, <1>9, <1>10, <1>11, <1>12, <1>13, <1>14, <1>15, <1>16, WorkerStep

\* Every handler of the list has returned by the end of it.
LEMMA AllHandlersEnded ==
    ASSUME BusInv, NEW w \in Workers, work[w].pc \in {"handle", "return"}, work[w].h > Len(AsyncHandlers), NEW j, j = work[w].id
    PROVE  ended[j] = HandlersOf
<1>1. /\ j \in JobIds /\ ended \in [JobIds -> SUBSET HandlersOf] /\ work[w].h \in Nat
      /\ \A k \in DOMAIN AsyncHandlers : k < work[w].h => AsyncHandlers[k] \in ended[j]
    BY WorkersJob, WorkerAt DEF WorkAt
<1>2. \A k \in DOMAIN AsyncHandlers : k < work[w].h
    BY <1>1, ZeroIsNoJob
<1>3. HandlersOf \subseteq ended[j]
    BY <1>1, <1>2 DEF HandlersOf
<1> QED
    BY <1>1, <1>3

LEMMA MarkDispatchedKeepsInv ==
    ASSUME BusInv, NEW w \in Workers, MarkDispatched(w)
    PROVE  BusInv'
<1>1. WorkAt(w, "handle") /\ ~WorkAt(w, "idle") /\ work[w].h > Len(AsyncHandlers)
    BY DEF MarkDispatched, WorkAt
<1>2. PICK j, d : j = work[w].id /\ d = Data(w)
    OBVIOUS
<1> DEFINE x == [work[w] EXCEPT !.pc = "return"]
           q == job[j].queue
<1>3. /\ work[w] \in WorkStates /\ j \in JobIds
      /\ work[w].h \in 1 .. Len(AsyncHandlers) + 1
      /\ d \in DOMAIN envelopes /\ JobId(d) = j
    BY <1>1, <1>2, WorkerAt, ZeroIsNoJob DEF WorkAt
<1>4. /\ q \in Jobs /\ q.state = "active" /\ q.failures < Attempts /\ q.failures <= Attempts /\ q.failures # Attempts
      /\ job \in [JobIds -> BusJobs] /\ ended \in [JobIds -> SUBSET HandlersOf]
      /\ runs \in [JobIds -> [HandlersOf -> Nat]]
      /\ envelopes \in Seq(Envelopes) /\ letters \in Seq(Letters) /\ faults \in Nat /\ crashes \in Nat
      /\ \A h \in HandlersOf : runs[j][h] <= 1 + (q.failures + q.stalls)
    BY <1>1, <1>2, WorkersJob
<1>5. work' = [work EXCEPT ![w] = x]
    <2>1. work \in [Workers -> WorkStates]
        BY DEF BusInv, BusTyped
    <2> QED
        BY <2>1 DEF MarkDispatched
<1>6. x \in WorkStates /\ x.pc = "return" /\ x.id = j /\ x.h = work[w].h
    BY <1>2, <1>3 DEF WorkStates
<1> HIDE DEF x
<1>7. ended[j] = HandlersOf
    BY <1>1, <1>2, AllHandlersEnded DEF WorkAt
<1>8. UNCHANGED << seen, pub, job, letters, runs, ended, accepted, broken, faults, crashes >>
    BY DEF MarkDispatched
<1>9. /\ EnvelopesKept /\ envelopes' \in Seq(Envelopes) /\ Len(envelopes') = Len(envelopes)
      /\ DOMAIN envelopes' = DOMAIN envelopes
      /\ \A i \in DOMAIN envelopes : envelopes'[i].log = "dispatched" =>
             envelopes[i].log = "dispatched" \/ ended'[JobId(i)] = HandlersOf
    <2>1. CASE envelopes' = envelopes
        BY <1>4, <2>1 DEF EnvelopesKept
    <2>2. CASE envelopes' = [envelopes EXCEPT ![d].log = "dispatched"]
        <3>1. "dispatched" \in LogStates
            BY DEF LogStates
        <3>2. /\ EnvelopesKept /\ envelopes' \in Seq(Envelopes) /\ Len(envelopes') = Len(envelopes)
              /\ DOMAIN envelopes' = DOMAIN envelopes
              /\ \A k \in DOMAIN envelopes : k # d => envelopes'[k] = envelopes[k]
            BY <1>3, <2>2, <3>1, LogEdits
        <3>3. ended'[JobId(d)] = HandlersOf
            BY <1>3, <1>7, <1>8
        <3> QED
            BY <3>2, <3>3
    <2> QED
        BY <1>2, <2>1, <2>2 DEF MarkDispatched
<1>10. /\ LettersKept /\ job'[j].queue = q /\ job' \in [JobIds -> BusJobs]
       /\ \A k \in JobIds : job'[k].env = job[k].env /\ job'[k] = job[k]
       /\ letters' \in Seq(Letters) /\ q.state # "none" /\ q.state # "waiting" /\ q.state # "completed"
       /\ ended' \in [JobIds -> SUBSET HandlersOf] /\ (\A k \in JobIds : ended[k] \subseteq ended'[k])
       /\ runs' \in [JobIds -> [HandlersOf -> Nat]] /\ (\A k \in JobIds : runs'[k] = runs[k])
       /\ \A h \in HandlersOf : runs'[j][h] <= 1 + (q.failures + q.stalls)
    BY <1>4, <1>8 DEF LettersKept
<1>11. faults' \in Nat /\ faults' >= faults /\ crashes' \in Nat
    BY <1>4, <1>8
<1>12. x = IdleWork \/ (/\ x.pc # "idle" /\ x.id = j /\ x.h \in 1 .. Len(AsyncHandlers) + 1 /\ q.state = "active"
                        /\ x.pc \in {"letter", "throw", "fail"} => x.h \in DOMAIN AsyncHandlers
                        /\ x.pc = "return" => x.h > Len(AsyncHandlers))
    BY <1>1, <1>3, <1>4, <1>6
<1>13. x.pc \notin {"handle", "throw", "fail"} /\ \A k \in DOMAIN AsyncHandlers : AsyncHandlers[k] \in ended'[j]
    BY <1>6, <1>7, <1>8 DEF HandlersOf
<1> HIDE DEF q
<1> QED
    BY <1>1, <1>2, <1>3, <1>4, <1>5, <1>6, <1>8, <1>9, <1>10, <1>11, <1>12, <1>13, WorkerStep

\* A worker is done with its job: retried, parked or completed.
LEMMA WorkEnds ==
    ASSUME BusInv, NEW w \in Workers, ~WorkAt(w, "idle"), NEW j, j = work[w].id, NEW q \in Jobs,
           job' = [job EXCEPT ![j].queue = q], work' = [work EXCEPT ![w] = IdleWork],
           UNCHANGED << seen, pub, letters, runs, ended, accepted, broken, crashes >>, faults' \in Nat, faults' >= faults,
           EnvelopesKept, envelopes' \in Seq(Envelopes), Len(envelopes') = Len(envelopes),
           DOMAIN envelopes' = DOMAIN envelopes,
           \A i \in DOMAIN envelopes : envelopes'[i].log = "dispatched" => envelopes[i].log = "dispatched",
           \/ /\ q.state = "completed" /\ ended[j] = HandlersOf
              /\ q.failures = job[j].queue.failures /\ q.stalls = job[j].queue.stalls
           \/ /\ q.failures = job[j].queue.failures + 1 /\ q.stalls = job[j].queue.stalls
              /\ q.state = IF q.failures < Attempts THEN "waiting" ELSE "failed"
              /\ q.failures = Attempts => HasLetter(j)'
    PROVE  BusInv'
<1>1. /\ j \in JobIds /\ job \in [JobIds -> BusJobs] /\ runs \in [JobIds -> [HandlersOf -> Nat]]
      /\ ended \in [JobIds -> SUBSET HandlersOf] /\ letters \in Seq(Letters) /\ crashes \in Nat
      /\ job[j].queue.failures < Attempts /\ job[j].queue.failures # Attempts
      /\ job[j].queue.failures \in Nat /\ job[j].queue.stalls \in Nat
      /\ \A h \in HandlersOf : runs[j][h] <= 1 + (job[j].queue.failures + job[j].queue.stalls)
    BY WorkersJob
<1>2. /\ job' \in [JobIds -> BusJobs] /\ job'[j].queue = q
      /\ \A k \in JobIds : job'[k].env = job[k].env /\ (k # j => job'[k] = job[k])
    BY <1>1, JobEdits
<1>3. IdleWork \in WorkStates /\ IdleWork.pc = "idle"
    BY DEF WorkStates, IdleWork
<1>4. LettersKept /\ letters' \in Seq(Letters) /\ runs' \in [JobIds -> [HandlersOf -> Nat]]
      /\ ended' \in [JobIds -> SUBSET HandlersOf] /\ (\A k \in JobIds : ended[k] \subseteq ended'[k]) /\ crashes' \in Nat
    BY <1>1 DEF LettersKept
<1>5. \A h \in HandlersOf : runs'[j][h] \in Nat /\ runs'[j][h] = runs[j][h]
    BY <1>1
<1>6. Attempts \in Nat
    BY JobQueueAssumption
<1>7. /\ q.state # "none" /\ q.failures <= Attempts /\ (q.state \in {"waiting", "active"} => q.failures < Attempts)
      /\ (q.failures = Attempts => HasLetter(j)') /\ (q.state = "completed" => ended'[j] = HandlersOf)
      /\ \A h \in HandlersOf : runs'[j][h] <= 1 + (q.failures + q.stalls)
                                /\ (q.state = "waiting" => runs'[j][h] <= q.failures + q.stalls)
    <2>1. CASE /\ q.state = "completed" /\ ended[j] = HandlersOf
               /\ q.failures = job[j].queue.failures /\ q.stalls = job[j].queue.stalls
        BY <1>1, <1>5, <1>6, <2>1
    <2>2. CASE /\ q.failures = job[j].queue.failures + 1 /\ q.stalls = job[j].queue.stalls
               /\ q.state = IF q.failures < Attempts THEN "waiting" ELSE "failed"
               /\ q.failures = Attempts => HasLetter(j)'
        <3>1. \A h \in HandlersOf : runs'[j][h] <= q.failures + q.stalls /\ runs'[j][h] <= 1 + (q.failures + q.stalls)
            <4>1. \A r, f, t \in Nat : r <= 1 + (f + t) => r <= (f + 1) + t /\ r <= 1 + ((f + 1) + t)
                OBVIOUS
            <4> QED
                BY <1>1, <1>5, <2>2, <4>1
        <3>2. q.failures <= Attempts /\ q.state # "none" /\ q.state # "completed" /\ q.state # "active"
              /\ (q.state = "waiting" => q.failures < Attempts)
            BY <1>1, <1>6, <2>2
        <3> QED
            BY <2>2, <3>1, <3>2
    <2> QED
        BY <2>1, <2>2
<1>8. /\ \A l \in DOMAIN letters' : l \in DOMAIN letters
             \/ (letters'[l].env \in DOMAIN envelopes /\ Async(envelopes[letters'[l].env].event))
      /\ \A l \in DOMAIN letters' : letters'[l].status = "replayed" => l \in DOMAIN letters /\ letters[l].status = "replayed"
    OBVIOUS
<1>9. IdleWork.pc \notin {"handle", "return", "throw", "fail"} /\ (\A k \in JobIds : runs'[k] = runs[k])
      /\ UNCHANGED << pub, seen, accepted, broken >>
    BY <1>3
<1>10. ~WorkAt(w, "idle") /\ work[w].id = j
    OBVIOUS
<1> QED
    BY <1>1, <1>2, <1>3, <1>4, <1>7, <1>8, <1>9, <1>10, WorkerStep

LEMMA RejectWorkKeepsInv ==
    ASSUME BusInv, NEW w \in Workers, RejectWork(w)
    PROVE  BusInv'
<1>1. ~WorkAt(w, "idle") /\ (WorkAt(w, "throw") \/ WorkAt(w, "fail")) /\ LettersInv
    BY DEF RejectWork, WorkAt, BusInv
<1>2. PICK j, d : j = work[w].id /\ d = Data(w)
    OBVIOUS
<1> DEFINE q == Rejected(job[j].queue)
<1>3. /\ j \in JobIds /\ job[j].queue \in Jobs /\ d \in DOMAIN envelopes /\ job \in [JobIds -> BusJobs]
      /\ envelopes \in Seq(Envelopes) /\ faults \in Nat /\ d = job[j].env /\ d # 0
      /\ job[j].queue.failures \in Nat
    BY <1>1, <1>2, WorkersJob, WorkerAt
<1>4. /\ q \in Jobs /\ q.failures = job[j].queue.failures + 1
      /\ q.state = IF job[j].queue.failures + 1 < Attempts THEN "waiting" ELSE "failed"
      /\ q.stalls = job[j].queue.stalls
    <2>1. /\ q \in Jobs /\ q.failures = job[j].queue.failures + 1
          /\ q.state = IF job[j].queue.failures + 1 < Attempts THEN "waiting" ELSE "failed"
        BY <1>3, JobsStayJobs
    <2>2. q.stalls = job[j].queue.stalls
        BY <1>3 DEF Rejected, Jobs
    <2> QED
        BY <2>1, <2>2
<1>5. job' = [job EXCEPT ![j].queue = q]
    BY <1>2, <1>3 DEF RejectWork, SetJob
<1> HIDE DEF q
<1>6. /\ EnvelopesKept /\ envelopes' \in Seq(Envelopes) /\ Len(envelopes') = Len(envelopes)
      /\ DOMAIN envelopes' = DOMAIN envelopes
      /\ \A i \in DOMAIN envelopes : envelopes'[i].log = "dispatched" => envelopes[i].log = "dispatched"
    <2>1. CASE envelopes' = envelopes
        BY <1>3, <2>1 DEF EnvelopesKept
    <2>2. CASE envelopes' = [envelopes EXCEPT ![d].log = "failed"]
        <3>1. "failed" \in LogStates /\ "failed" # "dispatched"
            BY DEF LogStates
        <3> QED
            BY <1>3, <2>2, <3>1, LogEdits
    <2> QED
        BY <1>2, <2>1, <2>2 DEF RejectWork
<1>7. UNCHANGED << seen, pub, letters, runs, ended, accepted, broken, faults, crashes >>
    BY DEF RejectWork
<1>8. faults' \in Nat /\ faults' >= faults
    BY <1>3, <1>7
<1>9. q.failures = Attempts => HasLetter(j)'
    <2> HAVE q.failures = Attempts
    <2>1. ~WorkAt(w, "throw")
        BY <1>1, <1>2, <1>3, <1>4, JobQueueAssumption DEF LettersInv
    <2>2. WorkAt(w, "fail") /\ JobsKept
        BY <1>1, <1>3, <1>4, <1>5, <2>1, JobEdits DEF JobsKept
    <2>3. LettersKept
        BY <1>7 DEF LettersKept
    <2> QED
        BY <1>2, <1>3, <1>6, <1>8, <2>2, <2>3, LettersFrame
<1>10. work' = [work EXCEPT ![w] = IdleWork]
    BY DEF RejectWork
<1> QED
    BY <1>1, <1>2, <1>4, <1>5, <1>6, <1>7, <1>8, <1>9, <1>10, WorkEnds

\* An insert of a letter that fails is a fault.
LEMMA LetterFailsKeepsInv ==
    ASSUME BusInv, NEW w \in Workers, LetterFails(w)
    PROVE  BusInv'
<1>1. ~WorkAt(w, "idle")
    BY DEF LetterFails, WorkAt
<1>2. PICK j : j = work[w].id
    OBVIOUS
<1> DEFINE q == Rejected(job[j].queue)
<1>3. /\ j \in JobIds /\ job[j].queue \in Jobs /\ job \in [JobIds -> BusJobs]
      /\ envelopes \in Seq(Envelopes) /\ faults \in Nat
    BY <1>1, <1>2, WorkersJob
<1>4. /\ q \in Jobs /\ q.failures = job[j].queue.failures + 1
      /\ q.state = IF job[j].queue.failures + 1 < Attempts THEN "waiting" ELSE "failed"
      /\ q.stalls = job[j].queue.stalls
    <2>1. /\ q \in Jobs /\ q.failures = job[j].queue.failures + 1
          /\ q.state = IF job[j].queue.failures + 1 < Attempts THEN "waiting" ELSE "failed"
        BY <1>3, JobsStayJobs
    <2>2. q.stalls = job[j].queue.stalls
        BY <1>3 DEF Rejected, Jobs
    <2> QED
        BY <2>1, <2>2
<1>5. job' = [job EXCEPT ![j].queue = q]
    BY <1>2, <1>3 DEF LetterFails, SetJob
<1> HIDE DEF q
<1>6. UNCHANGED << envelopes, seen, pub, letters, runs, ended, accepted, broken, crashes >>
    BY DEF LetterFails
<1>7. faults' \in Nat /\ faults' >= faults /\ faults' > 0
    <2>1. faults' = faults + 1
        BY DEF LetterFails
    <2> QED
        BY <1>3, <2>1
<1>8. EnvelopesKept /\ envelopes' \in Seq(Envelopes) /\ HasLetter(j)'
    BY <1>3, <1>6, <1>7 DEF EnvelopesKept, HasLetter
<1>9. work' = [work EXCEPT ![w] = IdleWork]
    BY DEF LetterFails
<1> QED
    BY <1>1, <1>2, <1>4, <1>5, <1>6, <1>7, <1>8, <1>9, WorkEnds

LEMMA CompleteWorkKeepsInv ==
    ASSUME BusInv, NEW w \in Workers, CompleteWork(w)
    PROVE  BusInv'
<1>1. ~WorkAt(w, "idle") /\ WorkAt(w, "return") /\ WorkPlaced(w)
    BY DEF CompleteWork, WorkAt, BusInv, BusTyped
<1>2. PICK j : j = work[w].id
    OBVIOUS
<1> DEFINE q == Completed(job[j].queue)
<1>3. /\ j \in JobIds /\ job[j].queue \in Jobs /\ job \in [JobIds -> BusJobs]
      /\ envelopes \in Seq(Envelopes) /\ faults \in Nat
    BY <1>1, <1>2, WorkersJob
<1>4. /\ q \in Jobs /\ q.state = "completed" /\ q.failures = job[j].queue.failures /\ q.stalls = job[j].queue.stalls
    <2>1. q \in Jobs /\ q.state = "completed"
        BY <1>3, JobsStayJobs
    <2> QED
        BY <1>3, <2>1 DEF Completed, Jobs
<1>5. job' = [job EXCEPT ![j].queue = q]
    BY <1>2, <1>3 DEF CompleteWork, SetJob
<1> HIDE DEF q
<1>6. UNCHANGED << envelopes, seen, pub, letters, runs, ended, accepted, broken, faults, crashes >>
    BY DEF CompleteWork
<1>7. faults' \in Nat /\ faults' >= faults /\ EnvelopesKept /\ envelopes' \in Seq(Envelopes)
    BY <1>3, <1>6 DEF EnvelopesKept
<1>8. ended[j] = HandlersOf
    <2>1. work[w].h > Len(AsyncHandlers) /\ work[w].pc = "return"
        BY <1>1 DEF WorkPlaced, WorkAt
    <2> QED
        BY <1>2, <2>1, AllHandlersEnded
<1>9. work' = [work EXCEPT ![w] = IdleWork]
    BY DEF CompleteWork
<1> QED
    BY <1>1, <1>2, <1>4, <1>5, <1>6, <1>7, <1>8, <1>9, WorkEnds

\* Only jobs that no worker holds stall; the attempt counts as over.
LEMMA StallKeepsInv ==
    ASSUME BusInv, NEW j \in JobIds, Stall(j)
    PROVE  BusInv'
<1>1. /\ BusTyped /\ BusKnown /\ WorkOwned /\ OutcomesInv /\ LettersInv /\ RunsInv /\ job[j].queue \in Jobs
      /\ job[j].queue.state = "active" /\ (\A w \in Workers : work[w].id # j)
    BY DEF Stall, BusInv, BusTyped, BusJobs
<1> DEFINE q == Stalled(job[j].queue)
<1>2. /\ q \in Jobs /\ q.stalls = job[j].queue.stalls + 1 /\ q.failures = job[j].queue.failures
      /\ q.state \in {"waiting", "failed"}
    BY <1>1, JobsStayJobs
<1>3. job' = [job EXCEPT ![j].queue = q]
    BY <1>1 DEF Stall, BusTyped
<1> HIDE DEF q
<1>4. /\ job' \in [JobIds -> BusJobs] /\ job'[j].queue = q
      /\ \A k \in JobIds : job'[k].env = job[k].env /\ (k # j => job'[k] = job[k])
    BY <1>2, <1>3, JobEdits
<1>5. UNCHANGED << envelopes, seen, pub, work, letters, runs, ended, accepted, broken, faults, crashes >>
    BY DEF Stall
<1>6. /\ EnvelopesKept /\ LettersKept /\ JobsKept /\ letters' \in Seq(Letters)
      /\ envelopes' \in Seq(Envelopes) /\ Len(envelopes') = Len(envelopes) /\ DOMAIN envelopes' = DOMAIN envelopes
      /\ runs' \in [JobIds -> [HandlersOf -> Nat]] /\ ended' \in [JobIds -> SUBSET HandlersOf]
    BY <1>1, <1>4, <1>5 DEF BusTyped, EnvelopesKept, LettersKept, JobsKept
<1>7. faults' \in Nat /\ faults' >= faults /\ crashes' \in Nat
    BY <1>1, <1>5 DEF BusTyped
<1>8. work' \in [Workers -> WorkStates] /\ \A w \in Workers : WorkPlaced(w)'
    BY <1>1, <1>5 DEF BusTyped, WorkPlaced, WorkAt
<1>9. \A w \in Workers : ~WorkAt(w, "idle") => work[w].id \in JobIds /\ work[w].id # j
    BY <1>1, WorkerAt
<1>10. WorkOwned'
    BY <1>1, <1>4, <1>5, <1>9 DEF WorkOwned, WorkAt
<1>11. OutcomesInv'
    <2>1. \A k \in JobIds : job'[k].queue.state = "completed" => ended'[k] = HandlersOf
        <3> SUFFICES ASSUME NEW k \in JobIds, job'[k].queue.state = "completed"
                     PROVE  ended'[k] = HandlersOf
            OBVIOUS
        <3>1. k # j
            BY <1>2, <1>4
        <3> QED
            BY <1>1, <1>4, <1>5, <3>1 DEF OutcomesInv
    <2> QED
        BY <1>1, <1>5, <2>1 DEF OutcomesInv, JobId, WorkAt
<1>12. LettersInv'
    <2>1. /\ \A k \in JobIds : job[k].queue.failures = Attempts => HasLetter(k)'
          /\ \A w \in Workers, k \in JobIds : WorkAt(w, "fail") /\ work[w].id = k => HasLetter(k)'
        BY <1>6, <1>7, LettersFrame
    <2>2. \A k \in JobIds : /\ job'[k].queue.failures = job[k].queue.failures
                            /\ job'[k].queue.state \in {"none", "waiting", "active"} => job[k].queue.state \in {"none", "waiting", "active"}
        BY <1>1, <1>2, <1>4
    <2>3. \A w \in Workers : WorkAt(w, "throw") => work[w].id \in JobIds
        BY <1>9 DEF WorkAt
    <2> QED
        BY <1>1, <1>5, <2>1, <2>2, <2>3 DEF LettersInv, WorkAt
<1>13. RunsInv'
    <2>1. /\ \A k \in JobIds : k # j => Tries(k)' = Tries(k)
          /\ \A k \in JobIds : k = j => Tries(k)' = job[j].queue.failures + (job[j].queue.stalls + 1)
        BY <1>2, <1>4 DEF Tries
    <2>2. ASSUME NEW k \in JobIds, NEW h \in HandlersOf
          PROVE  /\ runs'[k][h] <= 1 + Tries(k)'
                 /\ job'[k].queue.state \in {"none", "waiting"} => runs'[k][h] <= Tries(k)'
                 /\ job'[k].queue.state = "none" => runs'[k][h] = 0
        <3>1. CASE k = j
            <4>1. job[j].queue.failures \in Nat /\ job[j].queue.stalls \in Nat /\ runs[j][h] \in Nat
                BY <1>1 DEF Jobs, BusTyped
            <4>2. runs[j][h] <= 1 + (job[j].queue.failures + job[j].queue.stalls)
                BY <1>1 DEF RunsInv, Tries
            <4>3. \A r, f, t \in Nat : r <= 1 + (f + t) => r <= f + (t + 1) /\ r <= 1 + (f + (t + 1))
                OBVIOUS
            <4>4. job'[k].queue.state # "none" /\ runs'[k][h] = runs[j][h]
                BY <1>2, <1>4, <1>5, <3>1
            <4> QED
                BY <2>1, <3>1, <4>1, <4>2, <4>3, <4>4
        <3>2. CASE k # j
            BY <1>1, <1>4, <1>5, <2>1, <3>2 DEF RunsInv
        <3> QED
            BY <3>1, <3>2
    <2>3. ASSUME NEW w \in Workers, NEW k \in JobIds, WorkAt(w, "handle")', work'[w].id = k,
                 NEW n \in DOMAIN AsyncHandlers, n >= work'[w].h
          PROVE  runs'[k][AsyncHandlers[n]] <= Tries(k)'
        <3>1. WorkAt(w, "handle") /\ work[w].id = k /\ n >= work[w].h /\ k # j
            BY <1>1, <1>5, <2>3 DEF WorkAt
        <3>2. runs[k][AsyncHandlers[n]] <= Tries(k)
            BY <1>1, <3>1 DEF RunsInv
        <3> QED
            BY <1>5, <2>1, <3>1, <3>2
    <2> QED
        BY <2>2, <2>3 DEF RunsInv, WorkAt
<1>14. \A k \in JobIds : /\ job'[k].env = job[k].env
                         /\ job'[k].queue.state = "none" <=> job[k].queue.state = "none"
    BY <1>1, <1>2, <1>4
<1> QED
    BY <1>4, <1>5, <1>6, <1>7, <1>8, <1>10, <1>11, <1>12, <1>13, <1>14, QueueStep

LEMMA DiscardKeepsInv ==
    ASSUME BusInv, NEW l \in DOMAIN letters, Discard(l)
    PROVE  BusInv'
<1>1. BusTyped
    BY DEF BusInv
<1>2. /\ LettersKept /\ letters' \in Seq(Letters) /\ DOMAIN letters' = DOMAIN letters
      /\ letters'[l].status = "discarded"
      /\ \A m \in DOMAIN letters : m # l => letters'[m] = letters[m]
    BY LetterEdits DEF Discard
<1>3. UNCHANGED << envelopes, seen, pub, job, work, runs, ended, accepted, broken, faults, crashes >>
    BY DEF Discard
<1>4. /\ EnvelopesKept /\ job' \in [JobIds -> BusJobs]
      /\ envelopes' \in Seq(Envelopes) /\ Len(envelopes') = Len(envelopes) /\ DOMAIN envelopes' = DOMAIN envelopes
      /\ runs' \in [JobIds -> [HandlersOf -> Nat]] /\ ended' \in [JobIds -> SUBSET HandlersOf]
    BY <1>1, <1>3 DEF BusTyped, EnvelopesKept
<1>5. faults' \in Nat /\ faults' >= faults /\ crashes' \in Nat
    BY <1>1, <1>3 DEF BusTyped
<1>6. work' \in [Workers -> WorkStates] /\ \A w \in Workers : WorkPlaced(w)'
    BY <1>1, <1>3 DEF BusTyped, WorkPlaced, WorkAt
<1>7. WorkOwned' /\ OutcomesInv' /\ LettersInv' /\ RunsInv'
    BY <1>2, <1>3, <1>4, <1>5, WorkFrame
<1>8. \A m \in DOMAIN letters' : letters'[m].status = "replayed" => m \in DOMAIN letters /\ letters[m].status = "replayed"
    BY <1>2
<1> QED
    BY <1>2, <1>3, <1>4, <1>5, <1>6, <1>7, <1>8, QueueStep

\* A crash in a call that marked the key breaks the event.
LEMMA BusCrashKeepsInv ==
    ASSUME BusInv, Crash
    PROVE  BusInv'
<1>1. BusTyped /\ BusKnown /\ OutcomesInv /\ LettersInv /\ RunsInv
    BY DEF BusInv
<1>2. UNCHANGED << envelopes, seen, job, letters, runs, ended, accepted, faults >>
    BY DEF Crash
<1>3. /\ \A p \in Publishers : pub'[p] = IdlePub /\ pub'[p].pc = "idle"
      /\ \A w \in Workers : work'[w] = IdleWork /\ work'[w].pc = "idle"
    BY DEF Crash, IdlePub, IdleWork
<1>4. EnvelopesKept /\ LettersKept /\ JobsKept
    BY <1>2 DEF EnvelopesKept, LettersKept, JobsKept
<1>5. \A p \in Publishers : EnvOf(p).keyed /\ pub[p].pc \in {"log", "sync", "enqueue"} =>
          EventOf(p) \in broken'
    <2> SUFFICES ASSUME NEW p \in Publishers, EnvOf(p).keyed, pub[p].pc \in {"log", "sync", "enqueue"}
                 PROVE  EventOf(p) \in broken'
        OBVIOUS
    <2>1. pub[p].env # 0
        BY <1>1, PublisherAt, EnvelopesNumbered DEF At
    <2> QED
        BY <2>1 DEF Crash
<1>6. BusTyped'
    <2>1. broken' \subseteq KeyedEvents
        <3>1. \A p \in Publishers : pub[p].env # 0 /\ EnvOf(p).keyed => EventOf(p) \in KeyedEvents
            BY <1>1, PublisherAt DEF BusTyped, IdlePub
        <3> QED
            BY <1>1, <3>1 DEF Crash, BusTyped
    <2>2. pub' \in [Publishers -> PubStates] /\ work' \in [Workers -> WorkStates]
        BY DEF Crash, PubStates, WorkStates, IdlePub, IdleWork
    <2>3. crashes' \in Nat
        BY <1>1 DEF Crash, BusTyped
    <2>4. \A w \in Workers : WorkPlaced(w)'
        BY <1>3 DEF WorkPlaced, WorkAt
    <2> QED
        BY <1>1, <1>2, <1>3, <2>1, <2>2, <2>3, <2>4 DEF BusTyped, At
<1>7. BusKnown'
    BY <1>2, <1>4, <1>6, KnownFrame
<1>8. \A p \in Publishers : PubOK(p)'
    BY <1>3 DEF PubOK, At
<1>9. WorkOwned'
    BY <1>3 DEF WorkOwned, WorkAt
<1>10. OutcomesInv'
    BY <1>1, <1>2, <1>3 DEF OutcomesInv, JobId
<1>11. LettersInv'
    <2>1. faults' \in Nat /\ faults' >= faults
        BY <1>1, <1>2 DEF BusTyped
    <2>2. \A k \in JobIds : job[k].queue.failures = Attempts => HasLetter(k)'
        BY <1>4, <2>1, LettersFrame
    <2> QED
        BY <1>1, <1>2, <1>3, <2>2 DEF LettersInv, WorkAt
<1>12. RunsInv'
    BY <1>1, <1>2, <1>3 DEF RunsInv, Tries, WorkAt
<1>13. ReportedInv'
    <2>1. \A e : Committed(e) => e \in broken'
        BY <1>5 DEF Committed
    <2>2. broken \subseteq broken'
        BY DEF Crash
    <2> QED
        BY <1>2, <1>4, <2>1, <2>2, ReportedFrame
<1> QED
    BY <1>6, <1>7, <1>8, <1>9, <1>10, <1>11, <1>12, <1>13 DEF BusInv

LEMMA BusStutterKeepsInv ==
    ASSUME BusInv, UNCHANGED vars
    PROVE  BusInv'
<1>1. BusTyped /\ BusKnown
    BY DEF BusInv
<1>2. /\ UNCHANGED << envelopes, seen, pub, job, work, letters, runs, ended, accepted, broken, faults, crashes >>
      /\ EnvelopesKept /\ LettersKept
    BY DEF vars, EnvelopesKept, LettersKept
<1>3. BusTyped'
    BY <1>1, <1>2 DEF BusTyped, At, WorkPlaced, WorkAt
<1>4. BusKnown'
    BY <1>2, <1>3, KnownFrame
<1>5. WorkOwned' /\ OutcomesInv' /\ LettersInv' /\ RunsInv'
    <2>1. faults' \in Nat /\ faults' >= faults
        BY <1>1, <1>2 DEF BusTyped
    <2> QED
        BY <1>2, <2>1, WorkFrame
<1>6. (\A q \in Publishers : PubOK(q)') /\ ReportedInv'
    <2>1. JobsKept
        BY <1>2 DEF JobsKept
    <2> QED
        BY <1>2, <2>1, PublishersFrame
<1> QED
    BY <1>3, <1>4, <1>5, <1>6 DEF BusInv

LEMMA BusStepKeepsInv ==
    ASSUME BusInv, [Next]_vars
    PROVE  BusInv'
<1>1. ASSUME NEW p \in Publishers, PublishStep(p)
      PROVE  BusInv'
    <2>1. CASE Publish(p)
        BY <2>1, PublishKeepsInv
    <2>2. CASE CheckDuplicate(p)
        BY <2>2, CheckDuplicateKeepsInv
    <2>3. CASE MarkSeen(p)
        BY <2>3, MarkSeenKeepsInv
    <2>4. CASE PersistLog(p)
        BY <2>4, PersistLogKeepsInv
    <2>5. CASE SyncHandler(p) \/ SyncDone(p)
        BY <2>5, SyncStepsKeepInv
    <2>6. CASE Enqueue(p)
        BY <2>6, EnqueueKeepsInv
    <2>7. CASE Resolve(p)
        BY <2>7, ResolveKeepsInv
    <2>8. CASE PublishFails(p)
        BY <2>8, PublishFailsKeepsInv
    <2>9. CASE \E l \in DOMAIN letters : ReplayLetter(p, l)
        BY <2>9, ReplayLetterKeepsInv
    <2>10. CASE MarkReplayed(p)
        BY <2>10, MarkReplayedKeepsInv
    <2> QED
        BY <1>1, <2>1, <2>2, <2>3, <2>4, <2>5, <2>6, <2>7, <2>8, <2>9, <2>10 DEF PublishStep
<1>2. ASSUME NEW w \in Workers, WorkStep(w)
      PROVE  BusInv'
    <2>1. CASE \E j \in JobIds : Take(w, j)
        BY <2>1, TakeKeepsInv
    <2>2. CASE HandlerReturns(w)
        BY <2>2, HandlerReturnsKeepsInv
    <2>3. CASE HandlerThrows(w)
        BY <2>3, HandlerThrowsKeepsInv
    <2>4. CASE CreateLetter(w)
        BY <2>4, CreateLetterKeepsInv
    <2>5. CASE RejectWork(w)
        BY <2>5, RejectWorkKeepsInv
    <2>6. CASE LetterFails(w)
        BY <2>6, LetterFailsKeepsInv
    <2>7. CASE MarkDispatched(w)
        BY <2>7, MarkDispatchedKeepsInv
    <2>8. CASE CompleteWork(w)
        BY <2>8, CompleteWorkKeepsInv
    <2> QED
        BY <1>2, <2>1, <2>2, <2>3, <2>4, <2>5, <2>6, <2>7, <2>8 DEF WorkStep
<1>3. CASE \E j \in JobIds : Stall(j)
    BY <1>3, StallKeepsInv
<1>4. CASE \E l \in DOMAIN letters : Discard(l)
    BY <1>4, DiscardKeepsInv
<1>5. CASE Crash
    BY <1>5, BusCrashKeepsInv
<1>6. CASE UNCHANGED vars
    BY <1>6, BusStutterKeepsInv
<1> QED
    BY <1>1, <1>2, <1>3, <1>4, <1>5, <1>6 DEF Next

\* In every reachable state of the bus its inductive invariant holds: typing,
\* jobs under their envelopes' ids, one worker per job, and what the log, the
\* dead letters, the history of runs and the publishers say of each other.
THEOREM BusInvariant == Spec => []BusInv
<1>1. Init => BusInv
    BY BusStart
<1>2. BusInv /\ [Next]_vars => BusInv'
    BY BusStepKeepsInv
<1> QED
    BY <1>1, <1>2, PTL DEF Spec

\* The bus keeps its types: envelopes, jobs and letters stay what they are, and
\* a worker that is busy holds an active job.
THEOREM BusKeepsTypes == Spec => []TypeOK
<1>1. BusInv => TypeOK
    <2> SUFFICES ASSUME BusInv
                 PROVE  TypeOK
        OBVIOUS
    <2>1. BusTyped /\ BusKnown /\ WorkOwned
        BY DEF BusInv
    <2>2. \A i \in DOMAIN envelopes : /\ envelopes[i].event \in Events /\ envelopes[i].keyed \in BOOLEAN
                                      /\ envelopes[i].log \in {"none", "published", "dispatched", "failed"}
        BY <2>1, EnvelopesNumbered DEF Envelopes, LogStates
    <2>3. \A p \in Publishers : pub[p] # IdlePub => pub[p].env \in DOMAIN envelopes
        BY <2>1 DEF BusTyped
    <2>4. \A j \in JobIds : JobTypeOK(job[j].queue) /\ (job[j].env = 0 <=> job[j].queue.state = "none")
        <3>1. \A j \in JobIds : job[j].queue \in Jobs
            BY <2>1 DEF BusTyped, BusJobs
        <3>2. \A q \in Jobs : JobTypeOK(q)
            BY DEF Jobs, JobTypeOK
        <3> QED
            BY <2>1, <3>1, <3>2 DEF BusKnown, JobKnown
    <2>5. \A w \in Workers : work[w] # IdleWork => job[work[w].id].queue.state = "active"
        BY <2>1 DEF BusTyped, WorkPlaced, WorkOwned
    <2>6. \A l \in DOMAIN letters : letters[l].status \in {"pending", "replayed", "discarded"}
        BY <2>1, EnvelopesNumbered DEF Letters
    <2> QED
        BY <2>1, <2>2, <2>3, <2>4, <2>5, <2>6 DEF TypeOK, BusTyped
<1> QED
    BY <1>1, BusInvariant, PTL

\* A log entry says dispatched, and a job completes, only when every async
\* handler has returned for it, and a job that used up its attempts left a
\* dead letter unless an insert failed: for any handlers, workers and crashes.
THEOREM OutcomesToldTruly == Spec => []OutcomesAreTrue
<1>1. BusInv => OutcomesAreTrue
    <2> SUFFICES ASSUME BusInv, NEW j \in JobIds
                 PROVE  /\ (job[j].queue.state = "completed" \/ (job[j].env # 0 /\ envelopes[job[j].env].log = "dispatched"))
                             => ended[j] = HandlersOf
                        /\ job[j].queue.failures = Attempts =>
                             faults > 0 \/ \E l \in DOMAIN letters : letters[l].env = job[j].env
        BY DEF OutcomesAreTrue
    <2>1. BusKnown /\ OutcomesInv /\ LettersInv
        BY DEF BusInv
    <2>2. job[j].env # 0 /\ envelopes[job[j].env].log = "dispatched" => ended[j] = HandlersOf
        BY <2>1 DEF BusKnown, JobKnown, OutcomesInv
    <2> QED
        BY <2>1, <2>2 DEF OutcomesInv, LettersInv, HasLetter
<1> QED
    BY <1>1, BusInvariant, PTL

\* However publishers race through the check and the mark, a keyed event runs
\* its handlers as the one job of its key, once per attempt.
THEOREM KeyRunsAsOneJob == Spec => []KeyedRunsOnce
<1>1. BusInv => KeyedRunsOnce
    <2> SUFFICES ASSUME BusInv, NEW e \in KeyedEvents, NEW h \in HandlersOf
                 PROVE  /\ runs[e][h] <= 1 + job[e].queue.failures + job[e].queue.stalls
                        /\ \A i \in EnvIds : runs[i][h] > 0 /\ envelopes[job[i].env].event = e =>
                              ~envelopes[job[i].env].keyed
        BY DEF KeyedRunsOnce
    <2>1. BusTyped /\ BusKnown /\ RunsInv /\ e \in JobIds
        BY DEF BusInv, JobIds
    <2>2. job[e].queue.failures \in Nat /\ job[e].queue.stalls \in Nat /\ runs[e][h] \in Nat
        BY <2>1 DEF BusTyped, BusJobs, Jobs
    <2>3. runs[e][h] <= 1 + job[e].queue.failures + job[e].queue.stalls
        <3>1. runs[e][h] <= 1 + (job[e].queue.failures + job[e].queue.stalls)
            BY <2>1 DEF RunsInv, Tries
        <3> QED
            BY <2>2, <3>1
    <2>4. ASSUME NEW i \in EnvIds, runs[i][h] > 0
          PROVE  ~envelopes[job[i].env].keyed
        <3>1. i \in JobIds /\ i \in Nat
            BY EventsAssumption DEF JobIds, EnvIds
        <3>2. job[i].env # 0
            BY <2>1, <2>4, <3>1 DEF RunsInv, BusKnown, JobKnown
        <3>3. job[i].env \in DOMAIN envelopes /\ JobId(job[i].env) = i
            BY <2>1, <3>1, <3>2 DEF BusKnown, JobKnown
        <3> QED
            BY <2>1, <3>1, <3>3, JobIdIsAJobs
    <2> QED
        BY <2>3, <2>4
<1> QED
    BY <1>1, BusInvariant, PTL

\* An event that publish() reported has a job, is on its way or was lost after
\* its key was marked; a dead letter is marked replayed after its event was
\* enqueued again.
THEOREM ReportedIsOnItsWay == Spec => []ReportedIsQueued
<1>1. BusInv => ReportedIsQueued
    <2> SUFFICES ASSUME BusInv
                 PROVE  ReportedIsQueued
        OBVIOUS
    <2>1. BusTyped /\ ReportedInv
        BY DEF BusInv
    <2>2. \A e : Committed(e) => InFlight(e)
        <3> SUFFICES ASSUME NEW e, NEW p \in Publishers,
                            pub[p].pc \in {"log", "sync", "enqueue"} /\ EventOf(p) = e /\ EnvOf(p).keyed
                     PROVE  InFlight(e)
            BY DEF Committed
        <3>1. pub[p].env # 0
            BY <2>1, PublisherAt, EnvelopesNumbered DEF At
        <3> QED
            BY <3>1 DEF InFlight
    <2> QED
        BY <2>1, <2>2 DEF ReportedInv, ReportedIsQueued, Replayed
<1> QED
    BY <1>1, BusInvariant, PTL
=============================================================================
