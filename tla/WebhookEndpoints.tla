--------------------------- MODULE WebhookEndpoints ---------------------------
(***************************************************************************)
(* One inbound webhook endpoint: its row, the record cached under its      *)
(* public token, the deliveries that resolve a token, and the calls of the *)
(* dashboard that create, update, rotate and delete it.  One bot process:  *)
(* the memory and Redis levels of the cache change together.               *)
(***************************************************************************)
EXTENDS Naturals, FiniteSets

CONSTANTS
    Tokens,         \* tokens generated in the order of their numbers
    Arrivals,       \* deliveries that resolve a token
    Managers,       \* calls of WebhookEndpointService
    MaxMishandled   \* bound: calls that throw, crashes, and entries that expire

ASSUME WebhookEndpointsAssumption == Tokens \subseteq Nat /\ MaxMishandled \in Nat

NoRecord == [token |-> 0, enabled |-> FALSE, present |-> FALSE]

VARIABLES
    endpoint,      \* the row: [token, enabled, present], not present before create and once deleted
    issued,        \* tokens handed out so far
    byToken,       \* cache: token -> the record under it, as a set of one, or nothing
    arrival,       \* delivery -> [pc, token, record] of its findByToken
    manager,       \* call -> [pc, token, patch]: what requireOwned read, what it is to change
    clouded,       \* history: tokens a lookup or another call crossed a write of
    mishandled

endpointVars == << endpoint, issued, byToken, arrival, manager, clouded, mishandled >>

Patches == {"enable", "disable", "rotate", "delete"}
Unresolved == [pc |-> "idle", token |-> 0, record |-> NoRecord]

EndpointsInit ==
    /\ endpoint = NoRecord /\ issued = {}
    /\ byToken = [t \in Tokens |-> {}]
    /\ arrival = [a \in Arrivals |-> Unresolved]
    /\ manager = [m \in Managers |-> [pc |-> "idle", token |-> 0, patch |-> "none"]]
    /\ clouded = {} /\ mishandled = 0

NextToken(t) == t \in Tokens \ issued /\ \A u \in Tokens \ issued : t <= u
Mishandle == mishandled < MaxMishandled /\ mishandled' = mishandled + 1

\* A record is out of date when the row no longer reads so.
Outdated(record) == record # endpoint

-----------------------------------------------------------------------------
(* A delivery: findByToken, the cache first. *)

\* A hit answers at once; the caller looks at `enabled`.
LookUp(a, t) ==
    /\ arrival[a].pc = "idle"
    /\ arrival' = [arrival EXCEPT ![a] = IF byToken[t] # {} THEN [Unresolved EXCEPT !.pc = "done"]
                                        ELSE [pc |-> "load", token |-> t, record |-> NoRecord]]
    /\ UNCHANGED << endpoint, issued, byToken, manager, clouded, mishandled >>

\* findFirst of the token among the rows not deleted: a miss is not cached.
LoadByToken(a) ==
    /\ arrival[a].pc = "load"
    /\ arrival' = [arrival EXCEPT ![a] = IF endpoint.present /\ endpoint.token = arrival[a].token
                                        THEN [@ EXCEPT !.pc = "store", !.record = endpoint]
                                        ELSE [Unresolved EXCEPT !.pc = "done"]]
    /\ UNCHANGED << endpoint, issued, byToken, manager, clouded, mishandled >>

StoreRecord(a) ==
    /\ arrival[a].pc = "store"
    /\ byToken' = [byToken EXCEPT ![arrival[a].token] = {arrival[a].record}]
    /\ arrival' = [arrival EXCEPT ![a] = [Unresolved EXCEPT !.pc = "done"]]
    /\ UNCHANGED << endpoint, issued, manager, clouded, mishandled >>

\* The time to live ends.
ExpireRecord(t) ==
    /\ byToken[t] # {} /\ Mishandle
    /\ byToken' = [byToken EXCEPT ![t] = {}]
    /\ UNCHANGED << endpoint, issued, arrival, manager, clouded >>

-----------------------------------------------------------------------------
(* The dashboard. *)

CreateEndpoint(t) ==
    /\ issued = {} /\ NextToken(t)
    /\ endpoint' = [token |-> t, enabled |-> TRUE, present |-> TRUE]
    /\ issued' = {t}
    /\ UNCHANGED << byToken, arrival, manager, clouded, mishandled >>

\* requireOwned: the row and its current token, or a refusal.
RequireOwned(m, patch) ==
    /\ manager[m].pc = "idle" /\ issued # {}
    /\ manager' = [manager EXCEPT ![m] = IF endpoint.present
                                        THEN [pc |-> "write", token |-> endpoint.token, patch |-> patch]
                                        ELSE [@ EXCEPT !.pc = "refused"]]
    /\ UNCHANGED << endpoint, issued, byToken, arrival, clouded, mishandled >>

\* updateMany of the row, if it is not deleted by now.  The call goes on to
\* invalidate the token it read, so a token that came since keeps its record.
RowWritten(m, row) ==
    /\ manager[m].pc = "write"
    /\ endpoint' = IF endpoint.present THEN row ELSE endpoint
    /\ manager' = [manager EXCEPT ![m].pc = "invalidate"]
    /\ clouded' = IF endpoint.present /\ manager[m].token # endpoint.token THEN clouded \cup {endpoint.token}
                  ELSE clouded
    /\ UNCHANGED << byToken, arrival, mishandled >>

UpdateEndpoint(m) ==
    /\ manager[m].patch \in {"enable", "disable"}
    /\ RowWritten(m, [endpoint EXCEPT !.enabled = manager[m].patch = "enable"])
    /\ UNCHANGED issued

RotateToken(m, t) ==
    /\ manager[m].patch = "rotate" /\ NextToken(t)
    /\ RowWritten(m, [endpoint EXCEPT !.token = t])
    /\ issued' = issued \cup {t}

SoftDelete(m) ==
    /\ manager[m].patch = "delete"
    /\ RowWritten(m, NoRecord)
    /\ UNCHANGED issued

\* Lookups of the token that read the row before it was written and have not
\* stored yet will store after the record is gone.
Crossing(t) == \E a \in Arrivals : arrival[a].pc = "store" /\ arrival[a].token = t /\ Outdated(arrival[a].record)

\* Mutant of InvalidateToken: the record of the current token is evicted.
InvalidateCurrent(m) ==
    /\ manager[m].pc = "invalidate" /\ manager' = [manager EXCEPT ![m].pc = "done"]
    /\ byToken' = [t \in Tokens |-> IF endpoint.present /\ t = endpoint.token THEN {} ELSE byToken[t]]
    /\ clouded' = IF Crossing(manager[m].token) THEN clouded \cup {manager[m].token} ELSE clouded
    /\ UNCHANGED << endpoint, issued, arrival, mishandled >>

InvalidateToken(m) ==
    /\ manager[m].pc = "invalidate" /\ manager' = [manager EXCEPT ![m].pc = "done"]
    /\ byToken' = [byToken EXCEPT ![manager[m].token] = {}]
    /\ clouded' = IF Crossing(manager[m].token) THEN clouded \cup {manager[m].token} ELSE clouded
    /\ UNCHANGED << endpoint, issued, arrival, mishandled >>

\* The database throws: nothing was written.
ManageFails(m) ==
    /\ manager[m].pc = "write" /\ Mishandle
    /\ manager' = [manager EXCEPT ![m].pc = "refused"]
    /\ UNCHANGED << endpoint, issued, byToken, arrival, clouded >>

\* The process dies; Redis keeps what it has, and what was written and not
\* invalidated yet stays so until the record expires.
EndpointsCrash ==
    /\ Mishandle
    /\ clouded' = clouded \cup {manager[m].token : m \in {n \in Managers : manager[n].pc = "invalidate"}}
    /\ arrival' = [a \in Arrivals |-> IF arrival[a].pc = "idle" THEN Unresolved ELSE [Unresolved EXCEPT !.pc = "done"]]
    /\ manager' = [m \in Managers |-> IF manager[m].pc \in {"write", "invalidate"}
                                     THEN [manager[m] EXCEPT !.pc = "refused"] ELSE manager[m]]
    /\ UNCHANGED << endpoint, issued, byToken >>

EndpointsNext ==
    \/ \E a \in Arrivals : LoadByToken(a) \/ StoreRecord(a) \/ \E t \in Tokens : LookUp(a, t)
    \/ \E t \in Tokens : ExpireRecord(t) \/ CreateEndpoint(t)
    \/ \E m \in Managers :
        \/ UpdateEndpoint(m) \/ SoftDelete(m) \/ InvalidateToken(m) \/ ManageFails(m)
        \/ \E patch \in Patches : RequireOwned(m, patch)
        \/ \E t \in Tokens : RotateToken(m, t)
    \/ EndpointsCrash

EndpointsSpec == EndpointsInit /\ [][EndpointsNext]_endpointVars

-----------------------------------------------------------------------------
Records == [token : Tokens \cup {0}, enabled : BOOLEAN, present : BOOLEAN]

EndpointsTypeOK ==
    /\ endpoint \in Records
    /\ \A t \in Tokens : byToken[t] \subseteq Records /\ Cardinality(byToken[t]) <= 1
    /\ \A a \in Arrivals : arrival[a].pc \in {"idle", "load", "store", "done"}
    /\ \A m \in Managers : manager[m].pc \in {"idle", "write", "invalidate", "done", "refused"}
    /\ issued \subseteq Tokens /\ clouded \subseteq Tokens \cup {0} /\ mishandled \in Nat

\* Rotate, update and delete evict the record of the token, "so a revoked token
\* stops resolving immediately": a record that is cached is that of the row,
\* unless its call is about to evict it, a lookup or another call crossed the
\* write, or the process died before the eviction.
CachedRecordIsCurrent ==
    \A t \in Tokens \ clouded :
        \/ byToken[t] \subseteq {endpoint}
        \/ \E m \in Managers : manager[m].pc = "invalidate" /\ manager[m].token = t
=============================================================================
