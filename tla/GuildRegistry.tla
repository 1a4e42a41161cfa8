---------------------------- MODULE GuildRegistry ----------------------------
(***************************************************************************)
(* The guilds table as the dashboard reads it (botPresent) against the     *)
(* bot's membership: the gateway's handlers write one guild each, and the  *)
(* reconciliation at `ready` writes all of them, one after the other, from *)
(* the list it took when it began.                                         *)
(***************************************************************************)
EXTENDS FiniteSets

CONSTANT Servers    \* guilds of Discord

VARIABLES
    member,     \* guilds the bot is in
    guildRow,   \* guild -> "absent", "active" or "inactive"
    handlers,   \* <<guild, write>> of the handlers under way
    ready,      \* onReady: [pc, known, todo]
    suspect     \* history: guilds whose writes overlapped or failed since ready

registryVars == << member, guildRow, handlers, ready, suspect >>

Offline == [pc |-> "offline", known |-> {}, todo |-> {}]

RegistryInit ==
    /\ member \in SUBSET Servers
    /\ guildRow \in [Servers -> {"absent", "active", "inactive"}]
    /\ handlers = {} /\ ready = Offline /\ suspect = {}

Upserted(g) == [guildRow EXCEPT ![g] = "active"]
Deactivated(guilds) == [g \in Servers |-> IF g \in guilds /\ guildRow[g] # "absent" THEN "inactive" ELSE guildRow[g]]
Online == ready.pc # "offline"
Settled == ready.pc = "done"
Writes(g) == {h \in handlers : h[1] = g}

-----------------------------------------------------------------------------
(* Discord tells a bot that is online of what it joins and leaves.         *)

Tell(g, write) ==
    /\ handlers' = IF Online THEN handlers \cup {<< g, write >>} ELSE handlers
    /\ suspect' = IF Online /\ (~Settled \/ Writes(g) # {}) THEN suspect \cup {g} ELSE suspect

Join(g) == g \notin member /\ member' = member \cup {g} /\ Tell(g, "upsert") /\ UNCHANGED << guildRow, ready >>
Leave(g) == g \in member /\ member' = member \ {g} /\ Tell(g, "deactivate") /\ UNCHANGED << guildRow, ready >>

OnGuildCreate(g) ==
    /\ << g, "upsert" >> \in handlers /\ handlers' = handlers \ {<< g, "upsert" >>}
    /\ guildRow' = Upserted(g)
    /\ UNCHANGED << member, ready, suspect >>

OnGuildDelete(g) ==
    /\ << g, "deactivate" >> \in handlers /\ handlers' = handlers \ {<< g, "deactivate" >>}
    /\ guildRow' = Deactivated({g})
    /\ UNCHANGED << member, ready, suspect >>

HandlerFails(h) ==
    /\ h \in handlers /\ handlers' = handlers \ {h} /\ suspect' = suspect \cup {h[1]}
    /\ UNCHANGED << member, guildRow, ready >>

-----------------------------------------------------------------------------
(* onReady. *)

Ready ==
    /\ ~Online /\ ready' = [pc |-> "upserting", known |-> member, todo |-> member]
    /\ suspect' = {}
    /\ UNCHANGED << member, guildRow, handlers >>

ReconcileOne(g) ==
    /\ ready.pc = "upserting" /\ g \in ready.todo
    /\ ready' = [ready EXCEPT !.todo = @ \ {g}] /\ guildRow' = Upserted(g)
    /\ UNCHANGED << member, handlers, suspect >>

\* Mutant of ReconcileRest: rows of guilds the bot left while offline stay.
ReconcileKeepsRest ==
    /\ ready.pc = "upserting" /\ ready.todo = {}
    /\ ready' = [Offline EXCEPT !.pc = "done"] /\ guildRow' = guildRow
    /\ UNCHANGED << member, handlers, suspect >>

ReconcileRest ==
    /\ ready.pc = "upserting" /\ ready.todo = {}
    /\ ready' = [Offline EXCEPT !.pc = "done"] /\ guildRow' = Deactivated(Servers \ ready.known)
    /\ UNCHANGED << member, handlers, suspect >>

\* A write of the reconciliation throws: the rest of it is not done.
ReconcileFails ==
    /\ ready.pc = "upserting" /\ ready' = [Offline EXCEPT !.pc = "done"] /\ suspect' = Servers
    /\ UNCHANGED << member, guildRow, handlers >>

BotStops ==
    /\ Online /\ ready' = Offline /\ handlers' = {}
    /\ UNCHANGED << member, guildRow, suspect >>

RegistryNext ==
    \/ \E g \in Servers :
        Join(g) \/ Leave(g) \/ OnGuildCreate(g) \/ OnGuildDelete(g) \/ ReconcileOne(g)
    \/ \E h \in handlers : HandlerFails(h)
    \/ Ready \/ ReconcileRest \/ ReconcileFails \/ BotStops

RegistrySpec == RegistryInit /\ [][RegistryNext]_registryVars

-----------------------------------------------------------------------------
RegistryTypeOK ==
    /\ member \in SUBSET Servers
    /\ guildRow \in [Servers -> {"absent", "active", "inactive"}]
    /\ handlers \subseteq Servers \X {"upsert", "deactivate"}
    /\ ready \in [pc : {"offline", "upserting", "done"}, known : SUBSET Servers, todo : SUBSET Servers]
    /\ suspect \subseteq Servers

\* What the dashboard calls present is what the bot is in, for every guild that
\* no write is on its way for, and whose writes since the bot came up neither
\* failed nor overlapped: with each other, or with the reconciliation, which
\* undoes a join or a leave that happens while it runs.
PresentMeansMember ==
    Settled => \A g \in Servers \ suspect :
        Writes(g) = {} => (guildRow[g] = "active" <=> g \in member)
=============================================================================
