--------------------------- MODULE PluginLifecycle ---------------------------
(***************************************************************************)
(* One plugin and the calls of PluginApplicationService on it: a row of    *)
(* the plugins table, the entry of the in-memory registry, the event       *)
(* subscriptions its hooks made, and hooks that may outlive the call that  *)
(* raced them against a timeout.                                           *)
(***************************************************************************)
EXTENDS Naturals, FiniteSets

CONSTANTS
    Calls,             \* calls of the service, numbered in the order they start
    Guilds,            \* guilds a plugin may be enabled for
    MaxPluginUpsets    \* bound: database writes that throw, and restarts of the process

Global == "global"     \* guildId null

ASSUME PluginAssumption ==
    /\ Calls \subseteq Nat /\ Global \notin Guilds
    /\ MaxPluginUpsets \in Nat

VARIABLES
    plugin,        \* the row: [status, deleted], status "none" before the insert
    enablement,    \* plugin_enablements: guilds whose row says enabled
    entry,         \* the registry entry: [loaded, status, guilds]
    subs,          \* calls whose hook's subscription is live, one disposer each
    running,       \* calls whose hook runs, waited for or not
    call,          \* call -> [pc, op, guild]
    late,          \* history: calls whose hook the last drain came too early for
    astray,        \* history: registry and table may differ: writes astray, one failed, a shutdown
    pluginFaults, pluginCrashes

pluginVars == << plugin, enablement, entry, subs, running, call, late, astray, pluginFaults, pluginCrashes >>

Statuses == {"none", "installed", "enabled", "disabled", "errored", "updating", "removed"}
Ops == {"none", "install", "enable", "disable", "update", "remove", "leave", "shutdown"}
Pcs == {"idle", "create", "history", "updating", "load", "hook", "write", "enabling", "mark", "bury", "done"}

AllowedTransitions ==
    {<< "installed", "enabled" >>, << "installed", "removed" >>, << "installed", "errored" >>,
     << "enabled", "disabled" >>, << "enabled", "updating" >>, << "enabled", "errored" >>,
     << "disabled", "enabled" >>, << "disabled", "removed" >>, << "disabled", "errored" >>,
     << "errored", "disabled" >>, << "errored", "removed" >>,
     << "updating", "installed" >>, << "updating", "errored" >>}

\* requireRecord, requireEntry and assertTransition, which no await separates
\* from the first line of the hook.
MayBecome(status) ==
    /\ plugin.status # "none" /\ ~plugin.deleted
    /\ entry.loaded /\ << entry.status, status >> \in AllowedTransitions

NoEntry == [loaded |-> FALSE, status |-> "none", guilds |-> {}]

\* Nothing yet, or a plugin that an earlier call installed.
PluginInit ==
    /\ \E status \in {"none", "installed"} :
        /\ plugin = [status |-> status, deleted |-> FALSE] /\ enablement = {}
        /\ entry = [loaded |-> status = "installed", status |-> status, guilds |-> {}]
    /\ subs = {} /\ late = {} /\ astray = FALSE
    /\ running = {}
    /\ call = [c \in Calls |-> [pc |-> "idle", op |-> "none", guild |-> Global]]
    /\ pluginFaults = 0 /\ pluginCrashes = 0

CallAt(c, pc) == call[c].pc = pc
Goto(c, pc) == call' = [call EXCEPT ![c].pc = pc]
Gone == [pc |-> "done", op |-> "none", guild |-> Global]
Finish(c) == call' = [call EXCEPT ![c] = Gone]
Enter(c, op, guild, pc) ==
    /\ CallAt(c, "idle") /\ \A d \in Calls : d < c => ~CallAt(d, "idle")
    /\ call' = [call EXCEPT ![c] = [pc |-> pc, op |-> op, guild |-> guild]]
RunHook(c) == running' = running \cup {c}

\* The registry's status changes now, the table's with a later write.  An
\* entry that is out of the registry is nobody's.
Writing == {c \in Calls : call[c].pc \in {"updating", "write", "mark", "bury"}}
SetEntry(status, guilds) ==
    entry' = IF entry.loaded THEN [loaded |-> TRUE, status |-> status, guilds |-> guilds] ELSE entry
Cross == astray' = (astray \/ Writing # {})

Loading == {c \in Calls : call[c].pc \in {"updating", "load"}}

\* Mutant of Drain: the disposers are forgotten, never called.
DrainForgets == subs' = subs /\ late' = running' \cup Loading

\* drainDisposers: every subscription made so far is taken back; a hook that
\* still runs, or an update still loading, may make one later.
Drain == subs' = {} /\ late' = running' \cup Loading

-----------------------------------------------------------------------------
\* installPlugin: findByName compares a file name, so only the insert can tell
\* that the name is taken, by a removed plugin's row too.
Install(c) ==
    /\ Enter(c, "install", Global, "create")
    /\ UNCHANGED << plugin, enablement, entry, subs, running, late, astray, pluginFaults, pluginCrashes >>

Create(c) ==
    /\ CallAt(c, "create")
    /\ IF plugin.status = "none"
       THEN plugin' = [plugin EXCEPT !.status = "installed"] /\ Goto(c, "history")
       ELSE plugin' = plugin /\ Finish(c)
    /\ UNCHANGED << enablement, entry, subs, running, late, astray, pluginFaults, pluginCrashes >>

\* recordVersionHistory returned: the registry gets the entry, and the hook
\* runs if the plugin has one.
Register(c) ==
    /\ CallAt(c, "history")
    /\ entry' = [loaded |-> TRUE, status |-> "installed", guilds |-> {}]
    /\ \/ RunHook(c) /\ Goto(c, "hook")
       \/ running' = running /\ Finish(c)
    /\ UNCHANGED << plugin, enablement, subs, late, astray, pluginFaults, pluginCrashes >>

\* enablePlugin, disablePlugin and removePlugin up to their hook (onRemove is
\* optional: a plugin without one is a hook that returns at once).
Change(c, op, status, guild) ==
    /\ MayBecome(status)
    /\ Enter(c, op, guild, "hook") /\ RunHook(c)
    /\ UNCHANGED << plugin, enablement, entry, subs, late, astray, pluginFaults, pluginCrashes >>

\* updatePlugin: UPDATING is set before the new version is loaded.
Update(c) ==
    /\ MayBecome("updating")
    /\ Enter(c, "update", Global, "updating") /\ SetEntry("updating", entry.guilds) /\ Cross
    /\ UNCHANGED << plugin, enablement, subs, running, late, pluginFaults, pluginCrashes >>

\* load or validateSdkRange may throw, and nothing takes UPDATING back.
LoadNewVersion(c) ==
    /\ CallAt(c, "load")
    /\ \/ RunHook(c) /\ Goto(c, "hook")
       \/ running' = running /\ Finish(c)
    /\ UNCHANGED << plugin, enablement, entry, subs, late, astray, pluginFaults, pluginCrashes >>

\* disableForGuild, on guild.removed.
GuildRemoved(c, guild) ==
    /\ entry.loaded /\ guild \in entry.guilds
    /\ Enter(c, "leave", guild, "hook") /\ RunHook(c)
    /\ UNCHANGED << plugin, enablement, entry, subs, late, astray, pluginFaults, pluginCrashes >>

\* onModuleDestroy, disableAll.
Shutdown(c) ==
    /\ entry.loaded /\ entry.status = "enabled"
    /\ Enter(c, "shutdown", Global, "hook") /\ RunHook(c)
    /\ UNCHANGED << plugin, enablement, entry, subs, late, astray, pluginFaults, pluginCrashes >>

-----------------------------------------------------------------------------
\* A hook calls api.on, in time or not.
Subscribe(c) ==
    /\ c \in running /\ c \notin subs
    /\ subs' = subs \cup {c}
    /\ UNCHANGED << plugin, enablement, entry, running, call, late, astray, pluginFaults, pluginCrashes >>

\* What a call does once its hook is over.  A removal does not mind a failure.
Succeed(c) ==
    LET op == call[c].op  guild == call[c].guild IN
    \/ op = "install" /\ Finish(c) /\ UNCHANGED << entry, subs, late, astray >>
    \/ /\ op = "enable" /\ Goto(c, "write") /\ UNCHANGED << subs, late >>
       /\ SetEntry("enabled", entry.guilds \cup ({guild} \cap Guilds)) /\ Cross
    \/ /\ op = "disable" /\ Goto(c, "write") /\ Drain
       /\ SetEntry("disabled", entry.guilds \ {guild}) /\ Cross
    \/ /\ op = "update" /\ Goto(c, "write") /\ UNCHANGED << subs, late >>
       /\ SetEntry("installed", entry.guilds) /\ Cross
    \/ op = "remove" /\ Goto(c, "bury") /\ Drain /\ entry' = NoEntry /\ astray' = astray
    \/ /\ op = "leave" /\ Finish(c) /\ Drain
       /\ SetEntry(entry.status, entry.guilds \ {guild}) /\ astray' = astray
    \/ op = "shutdown" /\ Finish(c) /\ Drain /\ SetEntry("disabled", entry.guilds) /\ astray' = TRUE

Fail(c) ==
    LET op == call[c].op IN
    \/ op = "remove" /\ Succeed(c)
    \/ op = "leave" /\ Finish(c) /\ late' = late \cup {c} /\ UNCHANGED << entry, subs, astray >>
    \/ /\ op = "shutdown" /\ Finish(c) /\ UNCHANGED << subs, late >>
       /\ SetEntry("errored", entry.guilds) /\ astray' = TRUE
    \/ /\ op \in {"install", "enable", "disable", "update"}
       /\ Goto(c, "mark") /\ SetEntry("errored", entry.guilds) /\ Cross /\ UNCHANGED << subs, late >>

\* runHook: the hook returns, throws, or loses the race against the timeout
\* and goes on.
HookReturns(c) ==
    /\ CallAt(c, "hook") /\ running' = running \ {c}
    /\ Succeed(c) \/ Fail(c)
    /\ UNCHANGED << plugin, enablement, pluginFaults, pluginCrashes >>

HookTimesOut(c) ==
    /\ CallAt(c, "hook") /\ running' = running
    /\ Fail(c)
    /\ UNCHANGED << plugin, enablement, pluginFaults, pluginCrashes >>

HookEndsLate(c) ==
    /\ c \in running /\ ~CallAt(c, "hook")
    /\ running' = running \ {c}
    /\ UNCHANGED << plugin, enablement, entry, subs, call, late, astray, pluginFaults, pluginCrashes >>

-----------------------------------------------------------------------------
\* Mutant of Written: an errored plugin's row is left as it is.
WrittenUnlessErrored(c) ==
    IF call[c].pc = "updating" THEN "updating"
    ELSE IF call[c].pc = "mark" THEN plugin.status
    ELSE IF call[c].op = "enable" THEN "enabled"
    ELSE IF call[c].op = "disable" THEN "disabled" ELSE "installed"

\* The status a call writes: updateStatus, or updateVersion after an update.
Written(c) ==
    IF call[c].pc = "updating" THEN "updating"
    ELSE IF call[c].pc = "mark" THEN "errored"
    ELSE IF call[c].op = "enable" THEN "enabled"
    ELSE IF call[c].op = "disable" THEN "disabled" ELSE "installed"

AfterWrite(c) ==
    IF call[c].pc = "updating" THEN "load"
    ELSE IF call[c].pc = "write" /\ call[c].op \in {"enable", "disable"} THEN "enabling" ELSE "done"

WriteStatus(c) ==
    /\ call[c].pc \in {"updating", "write", "mark"}
    /\ plugin' = [plugin EXCEPT !.status = Written(c)]
    /\ IF AfterWrite(c) = "done" THEN Finish(c) ELSE Goto(c, AfterWrite(c))
    /\ UNCHANGED << enablement, entry, subs, running, late, astray, pluginFaults, pluginCrashes >>

\* softDelete.
Bury(c) ==
    /\ CallAt(c, "bury")
    /\ plugin' = [status |-> "removed", deleted |-> TRUE] /\ Finish(c)
    /\ UNCHANGED << enablement, entry, subs, running, late, astray, pluginFaults, pluginCrashes >>

\* setEnablement: the upsert cannot name a row without a guild, and throws.
SetEnablement(c) ==
    /\ CallAt(c, "enabling") /\ Finish(c)
    /\ enablement' = IF call[c].op = "enable" THEN enablement \cup ({call[c].guild} \cap Guilds)
                                             ELSE enablement \ {call[c].guild}
    /\ UNCHANGED << plugin, entry, subs, running, late, astray, pluginFaults, pluginCrashes >>

Upsettable == pluginFaults + pluginCrashes < MaxPluginUpsets

\* A write throws, and the call with it.
WriteFails(c) ==
    /\ call[c].pc \in {"create", "history", "updating", "write", "enabling", "mark", "bury"}
    /\ Upsettable /\ pluginFaults' = pluginFaults + 1
    /\ Finish(c) /\ astray' = TRUE
    /\ UNCHANGED << plugin, enablement, entry, subs, running, late, pluginCrashes >>

\* A restart: nothing loads the rows' plugins again.
PluginCrash ==
    /\ Upsettable /\ pluginCrashes' = pluginCrashes + 1
    /\ entry' = NoEntry
    /\ subs' = {} /\ late' = {} /\ running' = {}
    /\ call' = [c \in Calls |-> IF CallAt(c, "idle") THEN call[c] ELSE Gone]
    /\ UNCHANGED << plugin, enablement, astray, pluginFaults >>

PluginNext ==
    \/ \E c \in Calls :
        \/ Install(c) \/ Create(c) \/ Register(c) \/ Update(c) \/ LoadNewVersion(c) \/ Shutdown(c)
        \/ \E guild \in Guilds \cup {Global} :
            Change(c, "enable", "enabled", guild) \/ Change(c, "disable", "disabled", guild)
        \/ \E guild \in Guilds : GuildRemoved(c, guild)
        \/ Change(c, "remove", "removed", Global)
        \/ Subscribe(c) \/ HookReturns(c) \/ HookTimesOut(c) \/ HookEndsLate(c)
        \/ WriteStatus(c) \/ Bury(c) \/ SetEnablement(c) \/ WriteFails(c)
    \/ PluginCrash

PluginSpec == PluginInit /\ [][PluginNext]_pluginVars

-----------------------------------------------------------------------------
PluginTypeOK ==
    /\ plugin \in [status : Statuses, deleted : BOOLEAN] /\ enablement \subseteq Guilds
    /\ entry \in [loaded : BOOLEAN, status : Statuses, guilds : SUBSET Guilds]
    /\ subs \subseteq Calls /\ late \subseteq Calls
    /\ running \subseteq Calls
    /\ call \in [Calls -> [pc : Pcs, op : Ops, guild : Guilds \cup {Global}]]
    /\ astray \in BOOLEAN /\ pluginFaults \in Nat /\ pluginCrashes \in Nat

\* A plugin that is disabled or out of the registry handles no event, but for
\* what a hook subscribed after the last drain: one that a call waits for now,
\* or that ran on, or was yet to run, when the disposers were drained, or that
\* failed while its guild went (disableForGuild then drains nothing).
QuietOnceDrained ==
    ~entry.loaded \/ entry.status = "disabled" =>
        subs \subseteq late \cup {c \in Calls : CallAt(c, "hook")}

\* Once no call is in flight, the table and the registry give a plugin the
\* same status, unless a write failed, the writes of two calls crossed, or the
\* shutdown changed the registry alone.
StatusAgrees ==
    entry.loaded /\ ~astray /\ (\A c \in Calls : call[c].pc \in {"idle", "done"})
        => plugin.status = entry.status
=============================================================================
