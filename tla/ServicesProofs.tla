--------------------------- MODULE ServicesProofs ---------------------------
(***************************************************************************)
(* Services of the core, for any instance of each: what the dashboard      *)
(* calls present is what the bot is in; a change of a guild's settings     *)
(* stays; a plugin that is off stays quiet, and has one status; the member *)
(* group decides.  Last, all that is proved of the services holds of them  *)
(* side by side.                                                           *)
(***************************************************************************)
EXTENDS Services, QueueProofs, CacheProofs, NaturalsInduction

(* The guild registry. *)

Clear(g) == << g, "upsert" >> \notin handlers /\ << g, "deactivate" >> \notin handlers

(* After ready: at most the write that fits the membership is on its way. *)
SettledOK(g) ==
    /\ << g, "upsert" >> \in handlers => g \in member /\ << g, "deactivate" >> \notin handlers
    /\ << g, "deactivate" >> \in handlers => g \notin member
    /\ Clear(g) => (guildRow[g] = "active" <=> g \in member)

(* While onReady runs: its list still is the membership. *)
UpsertingOK(g) ==
    /\ Clear(g)
    /\ g \in ready.known <=> g \in member
    /\ g \in ready.known \ ready.todo => guildRow[g] = "active"

Trusted(g) ==
    /\ ready.pc = "done" => SettledOK(g)
    /\ ready.pc = "upserting" => UpsertingOK(g)

RegistryInv ==
    /\ RegistryTypeOK
    /\ ready.pc = "offline" => handlers = {}
    /\ \A g \in Servers \ suspect : Trusted(g)

-----------------------------------------------------------------------------
(* No handler of a guild is under way when neither of its writes is. *)
LEMMA NoWritesIsClear ==
    ASSUME RegistryTypeOK, NEW g \in Servers
    PROVE  Writes(g) = {} <=> Clear(g)
    BY DEF RegistryTypeOK, Writes, Clear

(* A guild whose row, handlers and membership a step leaves alone stays
   trusted when onReady does not move. *)
LEMMA UntouchedStaysTrusted ==
    ASSUME RegistryTypeOK, NEW g \in Servers, Trusted(g),
           ready' = ready, guildRow'[g] = guildRow[g], g \in member' <=> g \in member,
           << g, "upsert" >> \in handlers' <=> << g, "upsert" >> \in handlers,
           << g, "deactivate" >> \in handlers' <=> << g, "deactivate" >> \in handlers
    PROVE  Trusted(g)'
    BY DEF Trusted, SettledOK, UpsertingOK, Clear

(* What the gateway tells of one guild leaves the others alone; the guild
   itself stays trusted only when nothing else was on its way. *)
LEMMA TellKeepsInv ==
    ASSUME RegistryInv, NEW g \in Servers, NEW write \in {"upsert", "deactivate"},
           Tell(g, write), UNCHANGED << guildRow, ready >>,
           \/ write = "upsert" /\ g \notin member /\ member' = member \cup {g}
           \/ write = "deactivate" /\ g \in member /\ member' = member \ {g}
    PROVE  RegistryInv'
<1>1. RegistryTypeOK'
    BY DEF RegistryInv, RegistryTypeOK, Tell
<1>2. (ready.pc = "offline" => handlers = {})'
    BY DEF RegistryInv, Tell, Online
<1>3. ASSUME NEW x \in Servers \ suspect'
      PROVE  Trusted(x)'
    <2>1. x \notin suspect /\ Trusted(x)
        BY <1>3 DEF RegistryInv, Tell
    <2>2. CASE x # g
        BY <2>1, <2>2, UntouchedStaysTrusted DEF RegistryInv, Tell
    <2>3. CASE x = g
        <3>1. CASE ~Online
            BY <3>1 DEF Trusted, Online
        <3>2. CASE Online
            <4>1. Settled /\ Writes(g) = {}
                BY <1>3, <2>3, <3>2 DEF Tell
            <4>2. Clear(g)
                BY <4>1, NoWritesIsClear DEF RegistryInv
            <4>3. handlers' = handlers \cup {<< g, write >>}
                BY <3>2 DEF Tell
            <4>4. SettledOK(g)'
                BY <4>2, <4>3 DEF SettledOK, Clear
            <4> QED
                BY <2>3, <4>1, <4>4 DEF Trusted, Settled
        <3> QED
            BY <3>1, <3>2
    <2> QED
        BY <2>2, <2>3
<1> QED
    BY <1>1, <1>2, <1>3 DEF RegistryInv

(* A handler that finishes did the write that fits the membership. *)
LEMMA HandlerKeepsInv ==
    ASSUME RegistryInv, NEW g \in Servers, OnGuildCreate(g) \/ OnGuildDelete(g)
    PROVE  RegistryInv'
<1>1. RegistryTypeOK'
    BY DEF RegistryInv, RegistryTypeOK, OnGuildCreate, OnGuildDelete, Upserted, Deactivated
<1>2. (ready.pc = "offline" => handlers = {})'
    BY DEF RegistryInv, OnGuildCreate, OnGuildDelete
<1>3. ASSUME NEW x \in Servers \ suspect'
      PROVE  Trusted(x)'
    <2>1. x \notin suspect /\ Trusted(x)
        BY <1>3 DEF RegistryInv, OnGuildCreate, OnGuildDelete
    <2>2. CASE x # g
        <3>1. guildRow'[x] = guildRow[x]
            BY <2>2 DEF RegistryInv, RegistryTypeOK, OnGuildCreate, OnGuildDelete, Upserted, Deactivated
        <3> QED
            BY <2>1, <2>2, <3>1, UntouchedStaysTrusted DEF RegistryInv, OnGuildCreate, OnGuildDelete
    <2>3. CASE x = g
        <3>1. ready.pc # "upserting"
            BY <2>1, <2>3 DEF Trusted, UpsertingOK, Clear, OnGuildCreate, OnGuildDelete
        <3>2. CASE OnGuildCreate(g)
            BY <2>1, <2>3, <3>1, <3>2
            DEF RegistryInv, RegistryTypeOK, Trusted, SettledOK, Clear, OnGuildCreate, Upserted
        <3>3. CASE OnGuildDelete(g)
            BY <2>1, <2>3, <3>1, <3>3
            DEF RegistryInv, RegistryTypeOK, Trusted, SettledOK, Clear, OnGuildDelete, Deactivated
        <3> QED
            BY <3>2, <3>3
    <2> QED
        BY <2>2, <2>3
<1> QED
    BY <1>1, <1>2, <1>3 DEF RegistryInv

(* A handler that fails makes its guild suspect. *)
LEMMA FailureKeepsInv ==
    ASSUME RegistryInv, NEW h \in handlers, HandlerFails(h)
    PROVE  RegistryInv'
<1>1. RegistryTypeOK'
    BY DEF RegistryInv, RegistryTypeOK, HandlerFails
<1>2. (ready.pc = "offline" => handlers = {})'
    BY DEF RegistryInv, HandlerFails
<1>3. ASSUME NEW x \in Servers \ suspect'
      PROVE  Trusted(x)'
    <2>1. x \notin suspect /\ Trusted(x) /\ h[1] # x
        BY <1>3 DEF RegistryInv, HandlerFails
    <2>2. << x, "upsert" >> # h /\ << x, "deactivate" >> # h
        BY <2>1
    <2> QED
        BY <2>1, <2>2, UntouchedStaysTrusted DEF RegistryInv, HandlerFails
<1> QED
    BY <1>1, <1>2, <1>3 DEF RegistryInv

(* The start of onReady, its writes, its failure and the stop of the bot. *)
LEMMA ReadyKeepsInv ==
    ASSUME RegistryInv,
           Ready \/ ReconcileRest \/ ReconcileFails \/ BotStops \/ \E g \in Servers : ReconcileOne(g)
    PROVE  RegistryInv'
<1>1. CASE Ready
    BY <1>1 DEF RegistryInv, RegistryTypeOK, Ready, Online, Trusted, UpsertingOK, Clear
<1>2. CASE ReconcileFails
    BY <1>2 DEF RegistryInv, RegistryTypeOK, ReconcileFails, Offline, Trusted, SettledOK, Clear
<1>3. CASE BotStops
    BY <1>3 DEF RegistryInv, RegistryTypeOK, BotStops, Offline, Trusted
<1>4. CASE ReconcileRest
    <2>1. RegistryTypeOK'
        BY <1>4 DEF RegistryInv, RegistryTypeOK, ReconcileRest, Offline, Deactivated
    <2>2. ASSUME NEW x \in Servers \ suspect
          PROVE  SettledOK(x)'
        <3>1. UpsertingOK(x)
            BY <1>4, <2>2 DEF RegistryInv, Trusted, ReconcileRest
        <3>2. guildRow'[x] = IF x \notin ready.known /\ guildRow[x] # "absent" THEN "inactive" ELSE guildRow[x]
            BY <1>4, <2>2 DEF ReconcileRest, Deactivated
        <3> QED
            BY <1>4, <3>1, <3>2 DEF SettledOK, UpsertingOK, Clear, ReconcileRest
    <2> QED
        BY <1>4, <2>1, <2>2 DEF RegistryInv, Trusted, ReconcileRest, Offline
<1>5. ASSUME NEW g \in Servers, ReconcileOne(g)
      PROVE  RegistryInv'
    <2>1. RegistryTypeOK'
        BY <1>5 DEF RegistryInv, RegistryTypeOK, ReconcileOne, Upserted
    <2>2. ASSUME NEW x \in Servers \ suspect
          PROVE  UpsertingOK(x)'
        BY <1>5, <2>2
        DEF RegistryInv, RegistryTypeOK, Trusted, UpsertingOK, Clear, ReconcileOne, Upserted
    <2>3. ready'.pc = "upserting" /\ suspect' = suspect
        BY <1>5 DEF RegistryInv, RegistryTypeOK, ReconcileOne
    <2> QED
        BY <2>1, <2>2, <2>3 DEF RegistryInv, Trusted
<1> QED
    BY <1>1, <1>2, <1>3, <1>4, <1>5

-----------------------------------------------------------------------------
LEMMA RegistryInitInv == RegistryInit => RegistryInv
    BY DEF RegistryInit, RegistryInv, RegistryTypeOK, Offline, Trusted

LEMMA RegistryStepInv == RegistryInv /\ [RegistryNext]_registryVars => RegistryInv'
<1> SUFFICES ASSUME RegistryInv, [RegistryNext]_registryVars
             PROVE  RegistryInv'
    OBVIOUS
<1>1. ASSUME NEW g \in Servers, Join(g)
      PROVE  RegistryInv'
    BY <1>1, TellKeepsInv DEF Join
<1>2. ASSUME NEW g \in Servers, Leave(g)
      PROVE  RegistryInv'
    BY <1>2, TellKeepsInv DEF Leave
<1>3. ASSUME NEW g \in Servers, OnGuildCreate(g) \/ OnGuildDelete(g)
      PROVE  RegistryInv'
    BY <1>3, HandlerKeepsInv
<1>4. ASSUME NEW h \in handlers, HandlerFails(h)
      PROVE  RegistryInv'
    BY <1>4, FailureKeepsInv
<1>5. CASE Ready \/ ReconcileRest \/ ReconcileFails \/ BotStops \/ \E g \in Servers : ReconcileOne(g)
    BY <1>5, ReadyKeepsInv
<1>6. CASE UNCHANGED registryVars
    BY <1>6 DEF RegistryInv, RegistryTypeOK, Trusted, SettledOK, UpsertingOK, Clear, registryVars
<1> QED
    BY <1>1, <1>2, <1>3, <1>4, <1>5, <1>6 DEF RegistryNext

LEMMA RegistryAlways == RegistrySpec => []RegistryInv
    BY RegistryInitInv, RegistryStepInv, PTL DEF RegistrySpec

(* PresentMeansMember: for every set of guilds, through joins and leaves while
   handlers and the reconciliation run, failures, stops and starts, the rows
   agree with the membership wherever no write overlapped another or failed. *)
THEOREM RegistryAgrees == RegistrySpec => []PresentMeansMember
<1>1. RegistryInv => PresentMeansMember
    BY NoWritesIsClear DEF RegistryInv, PresentMeansMember, Settled, Trusted, SettledOK
<1> QED
    BY <1>1, RegistryAlways, PTL

-----------------------------------------------------------------------------
(* The settings column. *)

SettingsTyped ==
    /\ SettingsTypeOK
    /\ retention.held \in BOOLEAN /\ loading.held \in BOOLEAN

\* The change is in the column from here on.
Stored(c) == ChangeAt(c, "evict") \/ ChangeAt(c, "done")

\* What call d has read of the column, and would write back, has change c.
Carried(d, c) ==
    /\ ChangeAt(d, "write") => c \in Merged(d)
    /\ ChangeAt(d, "read") => d \in SecurityChanges /\ (c \in SecurityChanges => c \in change[d].own)

\* The audit section that is cached, or about to be, has change c.
Served(c) ==
    /\ retention.held => c \in retention.changes
    /\ loading.held => c \in loading.changes

SettingsInv ==
    /\ SettingsTyped
    /\ \A d \in Changes : ChangeAt(d, "read") => d \in SecurityChanges
    /\ \A c \in Changes \ exposed : Stored(c) =>
        /\ c \in column
        /\ \A d \in Changes : Carried(d, c)
        /\ ChangeAt(c, "done") /\ c \in AuditChanges => Served(c)

\* Reads take what is in the column.
LEMMA ColumnReadKeeps ==
    ASSUME SettingsInv, NEW d \in Changes, GetSection(d) \/ ReadColumn(d) \/ ReadSettings(d)
    PROVE  SettingsInv'
<1> USE GuildSettingsAssumption DEF SettingsInv, SettingsTyped, SettingsTypeOK, Changes
<1>1. /\ UNCHANGED << column, retention, loading, exposed, upsets >>
      /\ \A c \in Changes \ {d} : change'[c] = change[c]
      /\ ~Stored(d) /\ ~Stored(d)'
    BY DEF GetSection, ReadColumn, ReadSettings, Stored, ChangeAt
<1>2. SettingsTyped'
    BY DEF GetSection, ReadColumn, ReadSettings
<1>3. \A x \in Changes : ChangeAt(x, "read")' => x \in SecurityChanges
    BY DEF GetSection, ReadColumn, ReadSettings, ChangeAt
<1>4. ASSUME NEW c \in Changes \ exposed, Stored(c)
      PROVE  Carried(d, c)'
    BY <1>4 DEF Carried, Merged, GetSection, ReadColumn, ReadSettings, ChangeAt
<1>5. \A c, x \in Changes : x # d => (Carried(x, c)' <=> Carried(x, c))
    BY <1>1 DEF Carried, Merged, ChangeAt
<1>6. \A c \in Changes : c # d => /\ Stored(c)' <=> Stored(c)
                                  /\ ChangeAt(c, "done")' <=> ChangeAt(c, "done")
                                  /\ Served(c)' <=> Served(c)
    BY <1>1 DEF Stored, ChangeAt, Served
<1> QED
    BY <1>1, <1>2, <1>3, <1>4, <1>5, <1>6

\* What is written has every change that is stored and not exposed, and calls
\* that hold an older read expose the new one.
LEMMA ColumnWriteKeeps ==
    ASSUME SettingsInv, NEW d \in Changes, WriteSettings(d)
    PROVE  SettingsInv'
<1> USE GuildSettingsAssumption DEF SettingsInv, SettingsTyped, SettingsTypeOK, Changes, WriteSettings
<1>1. /\ UNCHANGED << retention, loading, upsets >> /\ exposed \subseteq exposed'
      /\ \A c \in Changes \ {d} : change'[c] = change[c]
      /\ ChangeAt(d, "write") /\ ~HoldsRead(d)'
      /\ ChangeAt(d, "done")' => d \notin AuditChanges
    BY DEF ChangeAt, HoldsRead
<1>2. SettingsTyped'
    BY DEF Merged
<1>3. \A x \in Changes : ChangeAt(x, "read")' => x \in SecurityChanges
    BY DEF ChangeAt
<1>4. d \in column' /\ \A c \in Changes \ exposed : Stored(c) => c \in column'
    BY <1>1 DEF Merged, Carried
<1>5. \A c, x \in Changes : Carried(x, c) => Carried(x, c)'
    BY <1>1 DEF Carried, Merged, ChangeAt, HoldsRead
<1>6. d \notin exposed' => \A x \in Changes : Carried(x, d)'
    BY <1>1 DEF Carried, ChangeAt, HoldsRead
<1>7. \A c \in Changes : c # d => /\ Stored(c)' <=> Stored(c)
                                  /\ ChangeAt(c, "done")' <=> ChangeAt(c, "done")
                                  /\ Served(c)' <=> Served(c)
    BY <1>1 DEF Stored, ChangeAt, Served
<1> QED
    BY <1>1, <1>2, <1>3, <1>4, <1>5, <1>6, <1>7

\* An eviction, a failure and a crash leave what is stored in place.
LEMMA CallEndKeeps ==
    ASSUME SettingsInv, SettingsCrash \/ \E d \in Changes : InvalidateGuild(d) \/ ChangeFails(d)
    PROVE  SettingsInv'
<1> USE GuildSettingsAssumption
    DEF SettingsInv, SettingsTyped, SettingsTypeOK, Changes, InvalidateGuild, ChangeFails, SettingsCrash, NotCached
<1>1. column' = column /\ exposed \subseteq exposed'
    OBVIOUS
<1>2. SettingsTyped'
    <2>1. CASE \E d \in Changes : InvalidateGuild(d)
        BY <2>1
    <2>2. CASE \E d \in Changes : ChangeFails(d)
        BY <2>2 DEF Upset
    <2>3. CASE SettingsCrash
        <3>1. change' \in [Changes -> [pc : {"idle", "read", "write", "evict", "done", "failed"},
                                       own : SUBSET Changes, view : SUBSET Changes]]
            BY <2>3
        <3> QED
            BY <2>3, <3>1 DEF Upset
    <2> QED
        BY <2>1, <2>2, <2>3
<1>3. \A x \in Changes : change'[x] = change[x] \/ change'[x].pc \in {"done", "failed"}
    <2>1. ASSUME NEW d \in Changes, InvalidateGuild(d) \/ ChangeFails(d), NEW x \in Changes
          PROVE  change'[x] = change[x] \/ change'[x].pc \in {"done", "failed"}
        BY <2>1
    <2>2. ASSUME SettingsCrash, NEW x \in Changes
          PROVE  change'[x] = change[x] \/ change'[x].pc = "failed"
        <3>1. change'[x] = IF HoldsRead(x) \/ ChangeAt(x, "evict") THEN [change[x] EXCEPT !.pc = "failed"]
                           ELSE change[x]
            BY <2>2
        <3> QED
            BY <3>1
    <2> QED
        BY <2>1, <2>2
<1>4. \A x \in Changes : ChangeAt(x, "read")' => x \in SecurityChanges
    BY <1>3 DEF ChangeAt
<1>5. \A c, x \in Changes : Carried(x, c) => Carried(x, c)'
    BY <1>3 DEF Carried, Merged, ChangeAt
<1>6. \A c \in Changes : Stored(c)' => Stored(c)
    BY DEF Stored, ChangeAt, HoldsRead
<1>7. \A c \in AuditChanges \ exposed' : ChangeAt(c, "done")' => Served(c)'
    BY DEF Served, ChangeAt, Stored, HoldsRead
<1> QED
    BY <1>1, <1>2, <1>4, <1>5, <1>6, <1>7

\* A load reads the column, and the cached section comes from a load.
LEMMA SectionLoadKeeps ==
    ASSUME SettingsInv, LoadGuildConfig \/ StoreGuildConfig \/ ExpireGuildConfig
    PROVE  SettingsInv'
<1> USE GuildSettingsAssumption
    DEF SettingsInv, SettingsTyped, SettingsTypeOK, Changes, LoadGuildConfig, StoreGuildConfig, ExpireGuildConfig,
        NotCached
<1>1. UNCHANGED << column, change, exposed >>
    OBVIOUS
<1>2. SettingsTyped'
    <2>1. CASE LoadGuildConfig
        BY <2>1
    <2>2. CASE StoreGuildConfig
        BY <2>2
    <2>3. CASE ExpireGuildConfig
        BY <2>3 DEF Upset
    <2> QED
        BY <2>1, <2>2, <2>3
<1>3. \A c \in AuditChanges : c \in column /\ Served(c) => Served(c)'
    BY DEF Served
<1> QED
    BY <1>1, <1>2, <1>3 DEF Stored, ChangeAt, Carried, Merged

-----------------------------------------------------------------------------
LEMMA SettingsAlways == SettingsSpec => []SettingsInv
<1>1. SettingsInit => SettingsInv
    BY GuildSettingsAssumption
    DEF SettingsInit, SettingsInv, SettingsTyped, SettingsTypeOK, NotCached, Changes, Stored, ChangeAt
<1>2. SettingsInv /\ [SettingsNext]_settingsVars => SettingsInv'
    <2>1. ASSUME SettingsInv, UNCHANGED settingsVars
          PROVE  SettingsInv'
        BY <2>1 DEF settingsVars, SettingsInv, SettingsTyped, SettingsTypeOK, Stored, Carried, Served, Merged, ChangeAt
    <2> QED
        BY <2>1, ColumnReadKeeps, ColumnWriteKeeps, CallEndKeeps, SectionLoadKeeps DEF SettingsNext
<1> QED
    BY <1>1, <1>2, PTL DEF SettingsSpec

\* An answered change of a section stays in the column and in the cached audit
\* section, for any number of changes of the two modules, failures and crashes,
\* unless another read of the column overlapped its write or its eviction.
THEOREM ChangesStay == SettingsSpec => []AnsweredChangesStay
<1>1. SettingsInv => AnsweredChangesStay
    BY DEF SettingsInv, AnsweredChangesStay, Stored, Served
<1> QED
    BY <1>1, SettingsAlways, PTL

-----------------------------------------------------------------------------
(* The life of a plugin. *)

\* Calls that have subscribed, or may subscribe without starting a hook anew.
Noisy == subs \cup running \cup Loading

\* Calls whose end takes a disabled plugin out of that state or drains it.
Ending == {c \in Calls : CallAt(c, "hook") /\ call[c].op # "install"}

QuietInv ==
    /\ PluginTypeOK
    /\ ~entry.loaded => Noisy \subseteq late
    /\ entry.loaded /\ entry.status = "disabled" => Noisy \subseteq late \cup Ending

-----------------------------------------------------------------------------
(* The types. *)

Places == [pc : Pcs, op : Ops, guild : Guilds \cup {Global}]
PluginRows == [status : Statuses, deleted : BOOLEAN]
Entries == [loaded : BOOLEAN, status : Statuses, guilds : SUBSET Guilds]

LEMMA PluginInitTyped ==
    ASSUME PluginInit
    PROVE  PluginTypeOK
<1>1. PICK status \in {"none", "installed"} :
          /\ plugin = [status |-> status, deleted |-> FALSE] /\ enablement = {}
          /\ entry = [loaded |-> status = "installed", status |-> status, guilds |-> {}]
    BY DEF PluginInit
<1>2. plugin \in PluginRows
    BY <1>1 DEF PluginRows, Statuses
<1>3. entry \in Entries
    BY <1>1 DEF Entries, Statuses
<1>4. call \in [Calls -> Places]
    BY DEF PluginInit, Places, Pcs, Ops
<1> QED
    BY <1>1, <1>2, <1>3, <1>4 DEF PluginInit, PluginTypeOK, PluginRows, Entries, Places

LEMMA PluginMovesTyped ==
    ASSUME PluginTypeOK, NEW c \in Calls
    PROVE  /\ \A pc \in Pcs : Goto(c, pc) => call' \in [Calls -> Places]
           /\ Finish(c) => call' \in [Calls -> Places]
           /\ \A pc \in Pcs, op \in Ops, guild \in Guilds \cup {Global} :
                  Enter(c, op, guild, pc) => call' \in [Calls -> Places]
<1>1. call \in [Calls -> Places]
    BY DEF PluginTypeOK, Places
<1>2. Gone \in Places
    BY DEF Gone, Places, Pcs, Ops
<1> QED
    BY <1>1, <1>2 DEF Goto, Finish, Enter, Places

LEMMA SetEntryTyped ==
    ASSUME PluginTypeOK, NEW status \in Statuses, NEW guilds \in SUBSET Guilds, SetEntry(status, guilds)
    PROVE  entry' \in Entries
    BY DEF PluginTypeOK, SetEntry, Entries

LEMMA SucceedTyped ==
    ASSUME PluginTypeOK, NEW c \in Calls, Succeed(c)
    PROVE  /\ entry' \in Entries /\ call' \in [Calls -> Places]
           /\ astray' \in BOOLEAN /\ subs' \subseteq Calls
           /\ running' \subseteq Calls => late' \subseteq Calls
<1>1. call' \in [Calls -> Places]
    BY PluginMovesTyped DEF Succeed, Pcs
<1>2. entry' \in Entries
    <2>1. entry.guilds \subseteq Guilds /\ entry.status \in Statuses /\ entry \in Entries
        BY DEF PluginTypeOK, Entries
    <2>2. NoEntry \in Entries /\ {"enabled", "disabled", "installed"} \subseteq Statuses
        BY DEF NoEntry, Entries, Statuses
    <2>3. /\ entry.guilds \cup ({call[c].guild} \cap Guilds) \in SUBSET Guilds
          /\ entry.guilds \ {call[c].guild} \in SUBSET Guilds
        BY <2>1
    <2> QED
        BY <2>1, <2>2, <2>3, SetEntryTyped DEF Succeed
<1>3. astray' \in BOOLEAN /\ subs' \subseteq Calls /\ (running' \subseteq Calls => late' \subseteq Calls)
    BY DEF PluginTypeOK, Succeed, Cross, Drain, Loading
<1> QED
    BY <1>1, <1>2, <1>3

LEMMA FailTyped ==
    ASSUME PluginTypeOK, NEW c \in Calls, Fail(c)
    PROVE  /\ entry' \in Entries /\ call' \in [Calls -> Places]
           /\ astray' \in BOOLEAN /\ subs' \subseteq Calls
           /\ running' \subseteq Calls => late' \subseteq Calls
<1>1. CASE Succeed(c)
    BY <1>1, SucceedTyped
<1>2. CASE ~Succeed(c)
    <2>1. call' \in [Calls -> Places]
        BY <1>2, PluginMovesTyped DEF Fail, Pcs
    <2>2. entry' \in Entries
        BY <1>2, SetEntryTyped DEF Fail, PluginTypeOK, Entries, Statuses
    <2>3. astray' \in BOOLEAN /\ subs' \subseteq Calls /\ (running' \subseteq Calls => late' \subseteq Calls)
        BY <1>2 DEF PluginTypeOK, Fail, Cross
    <2> QED
        BY <2>1, <2>2, <2>3
<1> QED
    BY <1>1, <1>2

LEMMA PluginStepTyped ==
    ASSUME PluginTypeOK, [PluginNext]_pluginVars
    PROVE  PluginTypeOK'
<1> USE DEF PluginTypeOK, Statuses, Ops, Pcs
<1>1. ASSUME NEW c \in Calls, Install(c) \/ Create(c) \/ LoadNewVersion(c)
      PROVE  PluginTypeOK'
    <2>1. call' \in [Calls -> Places]
        BY <1>1, PluginMovesTyped DEF Install, Create, LoadNewVersion
    <2>2. plugin' \in PluginRows
        BY <1>1 DEF Install, Create, LoadNewVersion, PluginRows
    <2> QED
        BY <1>1, <2>1, <2>2 DEF Install, Create, LoadNewVersion, RunHook, Places, PluginRows
<1>0. ASSUME NEW c \in Calls, Register(c) \/ Update(c)
      PROVE  PluginTypeOK'
    <2>1. call' \in [Calls -> Places]
        BY <1>0, PluginMovesTyped DEF Register, Update
    <2>2. entry' \in Entries
        <3>1. Register(c) => entry' \in Entries
            BY DEF Register, Entries
        <3>2. Update(c) => entry' \in Entries
            BY SetEntryTyped DEF Update
        <3> QED
            BY <1>0, <3>1, <3>2
    <2> QED
        BY <1>0, <2>1, <2>2 DEF Register, Update, RunHook, Cross, Places, Entries
<1>2. ASSUME NEW c \in Calls, NEW guild \in Guilds \cup {Global}, NEW op \in Ops, NEW status,
             Change(c, op, status, guild)
      PROVE  PluginTypeOK'
    BY <1>2 DEF Change, Enter, RunHook
<1>3. ASSUME NEW c \in Calls, Shutdown(c) \/ \E guild \in Guilds : GuildRemoved(c, guild)
      PROVE  PluginTypeOK'
    BY <1>3 DEF Shutdown, GuildRemoved, Enter, RunHook
<1>4. ASSUME NEW c \in Calls, Subscribe(c) \/ HookEndsLate(c)
      PROVE  PluginTypeOK'
    BY <1>4 DEF Subscribe, HookEndsLate
<1>5. ASSUME NEW c \in Calls, HookReturns(c) \/ HookTimesOut(c)
      PROVE  PluginTypeOK'
    <2>1. /\ entry' \in Entries /\ call' \in [Calls -> Places]
          /\ astray' \in BOOLEAN /\ subs' \subseteq Calls
          /\ running' \subseteq Calls => late' \subseteq Calls
        BY <1>5, SucceedTyped, FailTyped DEF HookReturns, HookTimesOut
    <2> QED
        BY <1>5, <2>1 DEF HookReturns, HookTimesOut, Entries, Places
<1>6. ASSUME NEW c \in Calls, WriteStatus(c) \/ Bury(c) \/ SetEnablement(c) \/ WriteFails(c)
      PROVE  PluginTypeOK'
    <2>1. call' \in [Calls -> Places]
        BY <1>6, PluginMovesTyped DEF WriteStatus, Bury, SetEnablement, WriteFails, AfterWrite
    <2>2. plugin' \in PluginRows
        <3>1. Written(c) \in Statuses /\ plugin \in PluginRows
            BY DEF Written, PluginRows
        <3>2. WriteStatus(c) => plugin' \in PluginRows
            BY <3>1 DEF WriteStatus, PluginRows
        <3>3. Bury(c) => plugin' \in PluginRows
            BY DEF Bury, PluginRows
        <3>4. SetEnablement(c) \/ WriteFails(c) => plugin' = plugin
            BY DEF SetEnablement, WriteFails
        <3> QED
            BY <1>6, <3>1, <3>2, <3>3, <3>4
    <2>3. enablement' \subseteq Guilds
        BY <1>6 DEF WriteStatus, Bury, SetEnablement, WriteFails
    <2>4. /\ UNCHANGED << entry, subs, running, late, pluginCrashes >>
          /\ astray' \in BOOLEAN /\ pluginFaults' \in Nat
        <3>1. WriteStatus(c) \/ Bury(c) \/ SetEnablement(c) =>
                  UNCHANGED << entry, subs, running, late, pluginCrashes, astray, pluginFaults >>
            BY DEF WriteStatus, Bury, SetEnablement
        <3>2. WriteFails(c) => /\ UNCHANGED << entry, subs, running, late, pluginCrashes >>
                               /\ astray' = TRUE /\ pluginFaults' = pluginFaults + 1
            BY DEF WriteFails
        <3>3. pluginFaults + 1 \in Nat
            OBVIOUS
        <3> QED
            BY <1>6, <3>1, <3>2, <3>3, Zenon
    <2> QED
        BY <2>1, <2>2, <2>3, <2>4 DEF Places, PluginRows
<1>7. ASSUME PluginCrash
      PROVE  PluginTypeOK'
    BY <1>7 DEF PluginCrash, Gone, NoEntry
<1>8. CASE UNCHANGED pluginVars
    BY <1>8 DEF pluginVars
<1> QED
    BY <1>0, <1>1, <1>2, <1>3, <1>4, <1>5, <1>6, <1>7, <1>8 DEF PluginNext

-----------------------------------------------------------------------------
(* The hook of a call ends: what the call does then either drains, or takes *)
(* the plugin out of "disabled", or concerns a call that was late already.  *)

LEMMA SucceedKeepsQuiet ==
    ASSUME QuietInv, NEW c \in Calls, CallAt(c, "hook"), Succeed(c),
           running' \subseteq running
    PROVE  /\ (~entry.loaded => Noisy \subseteq late)'
           /\ (entry.loaded /\ entry.status = "disabled" => Noisy \subseteq late \cup Ending)'
<1> USE DEF Noisy
<1>1. Loading' \subseteq Loading /\ \A d \in Calls \ {c} : call'[d] = call[d]
    BY DEF QuietInv, PluginTypeOK, Succeed, Finish, Goto, Gone, Loading, CallAt
<1>2. Ending \ {c} \subseteq Ending'
    BY <1>1 DEF Ending, CallAt
<1>3. CASE Drain
    BY <1>1, <1>3 DEF Drain
<1>4. CASE call[c].op = "install" /\ UNCHANGED << entry, subs, late >>
    <2>1. c \notin Ending
        BY <1>4 DEF Ending
    <2> QED
        BY <1>1, <1>2, <1>4, <2>1 DEF QuietInv
<1>5. CASE call[c].op \in {"enable", "update"} /\ UNCHANGED << subs, late >>
           /\ entry.loaded /\ entry'.loaded /\ entry'.status # "disabled"
    BY <1>5
<1>6. CASE call[c].op \in {"enable", "update"} /\ UNCHANGED << entry, subs, late >> /\ ~entry.loaded
    BY <1>1, <1>6 DEF QuietInv
<1> QED
    BY <1>3, <1>4, <1>5, <1>6 DEF Succeed, SetEntry

LEMMA FailKeepsQuiet ==
    ASSUME QuietInv, NEW c \in Calls, CallAt(c, "hook"), Fail(c),
           running' \subseteq running
    PROVE  /\ (~entry.loaded => Noisy \subseteq late)'
           /\ (entry.loaded /\ entry.status = "disabled" => Noisy \subseteq late \cup Ending)'
<1> USE DEF Noisy
<1>1. CASE call[c].op = "remove" /\ Succeed(c)
    BY <1>1, SucceedKeepsQuiet
<1>2. ASSUME ~(call[c].op = "remove" /\ Succeed(c))
      PROVE  Loading' \subseteq Loading /\ \A d \in Calls \ {c} : call'[d] = call[d]
    BY <1>2 DEF QuietInv, PluginTypeOK, Fail, Finish, Goto, Gone, Loading, CallAt
<1>3. ASSUME ~(call[c].op = "remove" /\ Succeed(c))
      PROVE  Ending \ {c} \subseteq Ending'
    BY <1>2, <1>3 DEF Ending, CallAt
<1>4. CASE late' = late \cup {c} /\ UNCHANGED << entry, subs >> /\ ~(call[c].op = "remove" /\ Succeed(c))
    BY <1>2, <1>3, <1>4 DEF QuietInv
<1>5. CASE entry.loaded /\ entry'.loaded /\ entry'.status # "disabled"
    BY <1>5
<1>6. CASE ~entry.loaded /\ UNCHANGED << entry, subs, late >> /\ ~(call[c].op = "remove" /\ Succeed(c))
    BY <1>2, <1>6 DEF QuietInv
<1> QED
    BY <1>1, <1>4, <1>5, <1>6 DEF Fail, SetEntry

-----------------------------------------------------------------------------
LEMMA StepKeepsQuiet ==
    ASSUME QuietInv, [PluginNext]_pluginVars
    PROVE  QuietInv'
<1> SUFFICES /\ (~entry.loaded => Noisy \subseteq late)'
             /\ (entry.loaded /\ entry.status = "disabled" => Noisy \subseteq late \cup Ending)'
    BY PluginStepTyped DEF QuietInv
<1> USE DEF QuietInv, PluginTypeOK
<1>1. ASSUME NEW c \in Calls, Install(c) \/ Create(c)
      PROVE  Noisy' = Noisy /\ Ending' = Ending /\ UNCHANGED << entry, late >>
    BY <1>1 DEF Noisy, Ending, Loading, Install, Create, Enter, Goto, Finish, Gone, CallAt
<1>2. ASSUME NEW c \in Calls, Register(c)
      PROVE  entry'.loaded /\ entry'.status # "disabled"
    BY <1>2 DEF Register
<1>3. ASSUME NEW c \in Calls, Update(c)
      PROVE  entry'.loaded /\ entry'.status # "disabled"
    BY <1>3 DEF Update, MayBecome, SetEntry
<1>4. ASSUME NEW c \in Calls, LoadNewVersion(c)
      PROVE  Noisy' \subseteq Noisy /\ Ending \subseteq Ending' /\ UNCHANGED << entry, late >>
    BY <1>4 DEF Noisy, Ending, Loading, LoadNewVersion, RunHook, Goto, Finish, Gone, CallAt
<1>5. ASSUME NEW c \in Calls, NEW guild, NEW op \in Ops \ {"install"}, NEW status,
             entry.loaded, Enter(c, op, guild, "hook"), RunHook(c), UNCHANGED << entry, subs, late >>
      PROVE  Noisy' \subseteq Noisy \cup Ending' /\ Ending \subseteq Ending'
    BY <1>5 DEF Noisy, Ending, Loading, Enter, RunHook, CallAt
<1>6. ASSUME NEW c \in Calls,
             \/ Shutdown(c)
             \/ \E guild \in Guilds : GuildRemoved(c, guild)
             \/ \E guild \in Guilds \cup {Global} :
                    Change(c, "enable", "enabled", guild) \/ Change(c, "disable", "disabled", guild)
             \/ Change(c, "remove", "removed", Global)
      PROVE  /\ entry.loaded /\ UNCHANGED << entry, late >>
             /\ Noisy' \subseteq Noisy \cup Ending' /\ Ending \subseteq Ending'
    BY <1>5, <1>6 DEF Shutdown, GuildRemoved, Change, MayBecome, Ops
<1>7. ASSUME NEW c \in Calls, Subscribe(c) \/ HookEndsLate(c)
      PROVE  Noisy' \subseteq Noisy /\ Ending' = Ending /\ UNCHANGED << entry, late >>
    BY <1>7 DEF Noisy, Ending, Loading, Subscribe, HookEndsLate, CallAt
<1>8. ASSUME NEW c \in Calls, HookReturns(c) \/ HookTimesOut(c)
      PROVE  /\ (~entry.loaded => Noisy \subseteq late)'
             /\ (entry.loaded /\ entry.status = "disabled" => Noisy \subseteq late \cup Ending)'
    BY <1>8, SucceedKeepsQuiet, FailKeepsQuiet DEF HookReturns, HookTimesOut
<1>9. ASSUME NEW c \in Calls, WriteStatus(c) \/ Bury(c) \/ SetEnablement(c) \/ WriteFails(c)
      PROVE  Noisy' \subseteq Noisy /\ Ending' = Ending /\ UNCHANGED << entry, late >>
    BY <1>9 DEF Noisy, Ending, Loading, WriteStatus, Bury, SetEnablement, WriteFails, AfterWrite,
                Goto, Finish, Gone, CallAt
<1>10. ASSUME PluginCrash
       PROVE  Noisy' = {}
    BY <1>10 DEF Noisy, Loading, PluginCrash, Gone, CallAt
<1>11. ASSUME UNCHANGED pluginVars
       PROVE  Noisy' = Noisy /\ Ending' = Ending /\ UNCHANGED << entry, late >>
    BY <1>11 DEF Noisy, Ending, Loading, CallAt, pluginVars
<1> QED
    BY <1>1, <1>2, <1>3, <1>4, <1>6, <1>7, <1>8, <1>9, <1>10, <1>11 DEF PluginNext

\* A plugin that was disabled or removed handles no event but for the hooks
\* the last drain came too early for, whatever calls, late hooks, failed
\* writes and restarts follow.
THEOREM PluginStaysQuiet == PluginSpec => []QuietOnceDrained
<1>1. PluginInit => QuietInv
    <2>1. PluginInit => Noisy = {}
        BY DEF PluginInit, Noisy, Loading
    <2> QED
        BY <2>1, PluginInitTyped DEF QuietInv
<1>2. QuietInv /\ [PluginNext]_pluginVars => QuietInv'
    BY StepKeepsQuiet
<1>3. QuietInv => QuietOnceDrained
    BY DEF QuietInv, QuietOnceDrained, Noisy, Ending
<1> QED
    BY <1>1, <1>2, <1>3, PTL DEF PluginSpec

-----------------------------------------------------------------------------
(* The status of a plugin, in the registry and in the table. *)

\* Calls that do nothing yet but insert the row, or nothing any more.
AtRest(c) == call[c].pc \in {"idle", "create", "done"}

\* One status on its way to the table at most, the one the registry has.
Agreeing ==
    /\ \A c, d \in Writing : c = d
    /\ \A c \in Writing : Written(c) = entry.status
    /\ Writing = {} => plugin.status = entry.status

StatusInv ==
    /\ PluginTypeOK
    /\ plugin.status = "none" => ~entry.loaded /\ \A c \in Calls : AtRest(c)
    /\ \A c \in Calls : CallAt(c, "history") =>
        ~entry.loaded /\ plugin.status = "installed" /\ \A d \in Calls \ {c} : AtRest(d)
    /\ \A c \in Calls : CallAt(c, "bury") => ~entry.loaded
    /\ entry.loaded /\ ~astray => Agreeing

\* Mid: what a step of one call, that is past its insert and stays so, needs
\* to show to keep the invariant when no entry comes.
LEMMA StatusKept ==
    ASSUME StatusInv, PluginTypeOK', NEW c \in Calls, ~AtRest(c), ~CallAt(c, "history"),
           \A d \in Calls \ {c} : call'[d] = call[d],
           ~CallAt(c, "history")',
           plugin'.status # "none",
           entry'.loaded => entry.loaded,
           CallAt(c, "bury")' => ~entry'.loaded,
           (entry.loaded /\ ~astray => Agreeing) /\ entry'.loaded /\ ~astray' => Agreeing'
    PROVE  StatusInv'
<1>1. \A d \in Calls : ~CallAt(d, "history")'
    BY DEF StatusInv, CallAt
<1>2. \A d \in Calls : CallAt(d, "bury")' => ~entry'.loaded
    BY DEF StatusInv, CallAt
<1> QED
    BY <1>1, <1>2 DEF StatusInv

\* A call that writes nothing now nor then leaves the writers alone.
LEMMA WritersStay ==
    ASSUME NEW c \in Calls, c \notin Writing, c \notin Writing', plugin'.status = plugin.status,
           entry.loaded => entry'.status = entry.status,
           \A d \in Calls \ {c} : call'[d] = call[d], entry.loaded, Agreeing
    PROVE  Agreeing'
<1>1. Writing' = Writing
    BY DEF Writing
<1>2. \A d \in Writing : d # c => Written(d)' = (IF call[d].pc = "mark" THEN "errored" ELSE Written(d))
    BY DEF Writing, Written
<1>3. \A d \in Writing : Written(d)' = Written(d)
    BY <1>2 DEF Written
<1> QED
    BY <1>1, <1>3 DEF Agreeing

\* A call that begins to write, its status in the registry, is the only one.
LEMMA WriterComes ==
    ASSUME NEW c \in Calls, Cross, ~astray', c \in Writing', Written(c)' = entry'.status,
           \A d \in Calls \ {c} : call'[d] = call[d]
    PROVE  Agreeing'
<1>1. Writing = {}
    BY DEF Cross
<1>2. Writing' = {c}
    BY <1>1 DEF Writing
<1> QED
    BY <1>2 DEF Agreeing

LEMMA HookKeepsStatus ==
    ASSUME StatusInv, PluginTypeOK', NEW c \in Calls, CallAt(c, "hook"), Succeed(c) \/ Fail(c), plugin' = plugin
    PROVE  StatusInv'
<1> USE DEF CallAt
<1>1. ~AtRest(c) /\ ~CallAt(c, "history") /\ plugin.status # "none" /\ c \notin Writing
    BY DEF AtRest, StatusInv, Writing
<1>2. call \in [Calls -> Places] /\ \A d \in Calls \ {c} : call'[d] = call[d]
    BY DEF StatusInv, PluginTypeOK, Places, Succeed, Fail, Goto, Finish
<1>3. CASE /\ Finish(c) /\ entry'.loaded = entry.loaded
           /\ astray' \/ (astray' = astray /\ (entry.loaded => entry'.status = entry.status))
    <2>1. call'[c].pc = "done"
        BY <1>2, <1>3 DEF Finish, Gone
    <2>2. c \notin Writing'
        BY <2>1 DEF Writing
    <2> QED
        BY <1>1, <1>2, <1>3, <2>1, <2>2, WritersStay, StatusKept
<1>4. CASE ~entry'.loaded /\ call'[c].pc # "history"
    BY <1>1, <1>2, <1>4, StatusKept
<1>5. CASE /\ Cross /\ call'[c].pc \in {"write", "mark"}
           /\ entry.loaded => Written(c)' = entry'.status
           /\ entry'.loaded = entry.loaded
    <2>1. c \in Writing'
        BY <1>5 DEF Writing
    <2> QED
        BY <1>1, <1>2, <1>5, <2>1, WriterComes, StatusKept
<1>6. ASSUME NEW pc, Goto(c, pc)
      PROVE  call'[c].pc = pc /\ call'[c].op = call[c].op
    BY <1>2, <1>6 DEF Goto, Places
<1>7. ASSUME NEW status, NEW guilds, SetEntry(status, guilds)
      PROVE  entry'.loaded = entry.loaded /\ (entry.loaded => entry'.status = status)
    BY <1>7 DEF SetEntry
<1>8. CASE Succeed(c)
    <2>1. CASE call[c].op = "install" \/ call[c].op = "leave"
        BY <1>3, <1>7, <1>8, <2>1 DEF Succeed
    <2>2. CASE call[c].op \in {"enable", "disable", "update"}
        <3>1. call'[c].pc = "write" /\ call'[c].op = call[c].op /\ Cross
            BY <1>6, <1>8, <2>2 DEF Succeed
        <3>2. entry'.loaded = entry.loaded
            BY <1>7, <1>8, <2>2 DEF Succeed
        <3>3. entry.loaded => entry'.status = IF call[c].op = "enable" THEN "enabled"
                                              ELSE IF call[c].op = "disable" THEN "disabled" ELSE "installed"
            BY <1>7, <1>8, <2>2 DEF Succeed
        <3>4. entry.loaded => Written(c)' = entry'.status
            BY <2>2, <3>1, <3>3 DEF Written
        <3> QED
            BY <1>5, <3>1, <3>2, <3>4
    <2>3. CASE call[c].op = "remove"
        <3>1. call'[c].pc = "bury" /\ ~entry'.loaded
            BY <1>6, <1>8, <2>3 DEF Succeed, NoEntry
        <3> QED
            BY <1>4, <3>1
    <2>4. CASE call[c].op = "shutdown"
        BY <1>3, <1>7, <1>8, <2>4 DEF Succeed
    <2> QED
        BY <1>8, <2>1, <2>2, <2>3, <2>4 DEF Succeed
<1>9. CASE Fail(c) /\ ~Succeed(c)
    <2>1. CASE call[c].op = "leave" \/ call[c].op = "shutdown"
        BY <1>3, <1>7, <1>9, <2>1 DEF Fail
    <2>2. CASE call[c].op \in {"install", "enable", "disable", "update"}
        <3>1. call'[c].pc = "mark" /\ Cross
            BY <1>6, <1>9, <2>2 DEF Fail
        <3>2. entry'.loaded = entry.loaded /\ (entry.loaded => entry'.status = "errored")
            BY <1>7, <1>9, <2>2 DEF Fail
        <3>3. Written(c)' = "errored"
            BY <3>1 DEF Written
        <3> QED
            BY <1>5, <3>1, <3>2, <3>3
    <2> QED
        BY <1>9, <2>1, <2>2 DEF Fail
<1> QED
    BY <1>8, <1>9

\* What is written is what the registry has.
LEMMA WriteKeepsStatus ==
    ASSUME StatusInv, PluginTypeOK', NEW c \in Calls,
           WriteStatus(c) \/ Bury(c) \/ SetEnablement(c) \/ WriteFails(c)
    PROVE  StatusInv'
<1> USE DEF CallAt
<1>1. call \in [Calls -> Places] /\ \A d \in Calls \ {c} : call'[d] = call[d]
    BY DEF StatusInv, PluginTypeOK, Places, WriteStatus, Bury, SetEnablement, WriteFails, Goto, Finish
<1>2. UNCHANGED entry
    BY DEF WriteStatus, Bury, SetEnablement, WriteFails
<1>3. CASE WriteStatus(c)
    <2>1. call'[c].pc \in {"load", "enabling", "done"} /\ UNCHANGED astray
        BY <1>1, <1>3 DEF WriteStatus, AfterWrite, Goto, Finish, Gone, Places
    <2>2. plugin'.status = Written(c) /\ Written(c) # "none"
        BY <1>3 DEF WriteStatus, StatusInv, PluginTypeOK, Written
    <2>3. c \in Writing /\ ~AtRest(c) /\ ~CallAt(c, "history")
        BY <1>3 DEF WriteStatus, Writing, AtRest
    <2>4. Agreeing => Writing' = {}
        BY <1>1, <2>1, <2>3 DEF Agreeing, Writing
    <2> QED
        BY <1>1, <1>2, <2>1, <2>2, <2>3, <2>4, StatusKept DEF Agreeing
<1>4. CASE Bury(c)
    BY <1>1, <1>2, <1>4, StatusKept DEF Bury, Finish, Gone, Places, StatusInv, AtRest
<1>5. CASE SetEnablement(c)
    <2>1. call'[c].pc = "done" /\ c \notin Writing /\ c \notin Writing' /\ ~AtRest(c) /\ UNCHANGED << plugin, astray >>
        BY <1>1, <1>5 DEF SetEnablement, Finish, Gone, Writing, AtRest
    <2>2. ~CallAt(c, "history") /\ plugin.status # "none"
        BY <1>5, <2>1 DEF SetEnablement, StatusInv
    <2> QED
        BY <1>1, <1>2, <2>1, <2>2, WritersStay, StatusKept
<1>6. CASE WriteFails(c)
    <2>1. call'[c].pc = "done" /\ astray' /\ UNCHANGED plugin
        BY <1>1, <1>6 DEF WriteFails, Finish, Gone
    <2> QED
        BY <1>1, <1>2, <2>1 DEF StatusInv, AtRest
<1> QED
    BY <1>3, <1>4, <1>5, <1>6

\* The first steps of a call, and those that change no call's place.
LEMMA StartKeepsStatus ==
    ASSUME StatusInv, PluginTypeOK', NEW c \in Calls,
           \/ Install(c) \/ Create(c) \/ Register(c) \/ Update(c) \/ LoadNewVersion(c)
           \/ \E op, status, guild : Change(c, op, status, guild)
           \/ Shutdown(c) \/ \E guild : GuildRemoved(c, guild)
    PROVE  StatusInv'
<1> USE DEF CallAt
<1>1. call \in [Calls -> Places] /\ \A d \in Calls \ {c} : call'[d] = call[d]
    BY DEF StatusInv, PluginTypeOK, Places, Install, Create, Register, Update, LoadNewVersion, Change, Shutdown,
           GuildRemoved, Enter, Goto, Finish
<1>2. CASE Install(c)
    <2>1. /\ AtRest(c) /\ AtRest(c)' /\ call'[c].pc = "create" /\ c \notin Writing /\ c \notin Writing'
          /\ UNCHANGED << plugin, entry, astray >>
        BY <1>1, <1>2 DEF Install, Enter, AtRest, Writing
    <2> QED
        BY <1>1, <2>1, WritersStay DEF StatusInv, AtRest
<1>3. CASE Create(c)
    <2>1. /\ AtRest(c) /\ call'[c].pc \in {"history", "done"} /\ c \notin Writing /\ c \notin Writing'
          /\ UNCHANGED << entry, astray >>
        <3>1. call'[c] \in {[call[c] EXCEPT !.pc = "history"], Gone}
            BY <1>1, <1>3 DEF Create, Goto, Finish
        <3>2. call[c].pc = "create" /\ UNCHANGED << entry, astray >>
            BY <1>3 DEF Create
        <3>3. call'[c].pc \in {"history", "done"}
            BY <1>1, <3>1 DEF Gone, Places
        <3> QED
            BY <3>2, <3>3 DEF AtRest, Writing
    <2>2. CASE plugin.status = "none"
        <3>1. /\ plugin'.status = "installed" /\ call'[c].pc = "history"
              /\ ~entry.loaded /\ \A d \in Calls : AtRest(d)
            BY <1>1, <1>3, <2>2 DEF Create, Goto, Places, StatusInv, PluginTypeOK
        <3> QED
            BY <1>1, <2>1, <3>1 DEF StatusInv, AtRest
    <2>3. CASE plugin.status # "none"
        <3>1. plugin' = plugin /\ call'[c].pc = "done"
            BY <1>1, <1>3, <2>3 DEF Create, Finish, Gone
        <3> QED
            BY <1>1, <2>1, <2>3, <3>1, WritersStay DEF StatusInv, AtRest
    <2> QED
        BY <2>2, <2>3
<1>4. CASE Register(c)
    <2>1. /\ plugin.status = "installed" /\ \A d \in Calls \ {c} : AtRest(d)
          /\ entry'.status = "installed" /\ plugin' = plugin /\ call'[c].pc \in {"hook", "done"}
        BY <1>1, <1>4 DEF Register, StatusInv, Goto, Finish, Gone, Places
    <2>2. Writing' = {}
        BY <1>1, <2>1 DEF Writing, AtRest
    <2> QED
        BY <1>1, <2>1, <2>2 DEF StatusInv, Agreeing, AtRest
<1>5. ASSUME entry.loaded
      PROVE  plugin.status # "none" /\ \A d \in Calls : ~CallAt(d, "history") /\ ~CallAt(d, "bury")
    BY <1>5 DEF StatusInv
<1>6. CASE Update(c)
    <2>1. /\ entry.loaded /\ entry'.status = "updating" /\ call'[c].pc = "updating" /\ Cross
          /\ plugin' = plugin
        BY <1>1, <1>6 DEF Update, MayBecome, SetEntry, Enter
    <2>2. c \in Writing' /\ Written(c)' = "updating"
        BY <2>1 DEF Writing, Written
    <2>3. ~astray' => Agreeing'
        BY <1>1, <2>1, <2>2, WriterComes
    <2> QED
        BY <1>1, <1>5, <2>1, <2>3 DEF StatusInv
<1>7. CASE LoadNewVersion(c)
    <2>1. /\ call[c].pc = "load" /\ call'[c].pc \in {"hook", "done"} /\ c \notin Writing /\ c \notin Writing'
          /\ UNCHANGED << plugin, entry, astray >>
        BY <1>1, <1>7 DEF LoadNewVersion, Goto, Finish, Gone, Places, Writing
    <2>2. ~AtRest(c) /\ ~CallAt(c, "history") /\ plugin.status # "none"
        BY <2>1 DEF AtRest, StatusInv
    <2> QED
        BY <1>1, <2>1, <2>2, WritersStay, StatusKept
<1>8. CASE \/ \E op, status, guild : Change(c, op, status, guild)
           \/ Shutdown(c) \/ \E guild : GuildRemoved(c, guild)
    <2>1. /\ entry.loaded /\ call[c].pc = "idle" /\ call'[c].pc = "hook" /\ UNCHANGED << plugin, entry, astray >>
        <3>1. ASSUME NEW op, NEW guild, Enter(c, op, guild, "hook")
              PROVE  call[c].pc = "idle" /\ call'[c].pc = "hook"
            BY <1>1, <3>1 DEF Enter
        <3>2. CASE \E op, status, guild : Change(c, op, status, guild)
            BY <3>1, <3>2 DEF Change, MayBecome
        <3>3. CASE Shutdown(c) \/ \E guild : GuildRemoved(c, guild)
            BY <3>1, <3>3 DEF Shutdown, GuildRemoved
        <3> QED
            BY <1>8, <3>2, <3>3
    <2>2. c \notin Writing /\ c \notin Writing'
        BY <2>1 DEF Writing
    <2>3. ~astray => Agreeing'
        BY <1>1, <2>1, <2>2, WritersStay DEF StatusInv
    <2> QED
        BY <1>1, <1>5, <2>1, <2>3 DEF StatusInv
<1> QED
    BY <1>2, <1>3, <1>4, <1>6, <1>7, <1>8

LEMMA StatusStep == StatusInv /\ [PluginNext]_pluginVars => StatusInv'
<1> SUFFICES ASSUME StatusInv, [PluginNext]_pluginVars
             PROVE  StatusInv'
    OBVIOUS
<1>1. PluginTypeOK'
    BY PluginStepTyped DEF StatusInv
<1>2. ASSUME NEW c \in Calls,
             \/ Install(c) \/ Create(c) \/ Register(c) \/ Update(c) \/ LoadNewVersion(c) \/ Shutdown(c)
             \/ \E guild \in Guilds \cup {Global} :
                    Change(c, "enable", "enabled", guild) \/ Change(c, "disable", "disabled", guild)
             \/ \E guild \in Guilds : GuildRemoved(c, guild)
             \/ Change(c, "remove", "removed", Global)
      PROVE  StatusInv'
    BY <1>1, <1>2, StartKeepsStatus
<1>3. ASSUME UNCHANGED << plugin, entry, astray, call >>
      PROVE  StatusInv'
    BY <1>1, <1>3 DEF StatusInv, AtRest, CallAt, Agreeing, Writing, Written
<1>4. ASSUME NEW c \in Calls, Subscribe(c) \/ HookEndsLate(c)
      PROVE  StatusInv'
    BY <1>3, <1>4 DEF Subscribe, HookEndsLate
<1>5. ASSUME NEW c \in Calls, HookReturns(c) \/ HookTimesOut(c)
      PROVE  StatusInv'
    BY <1>1, <1>5, HookKeepsStatus DEF HookReturns, HookTimesOut
<1>6. ASSUME NEW c \in Calls, WriteStatus(c) \/ Bury(c) \/ SetEnablement(c) \/ WriteFails(c)
      PROVE  StatusInv'
    BY <1>1, <1>6, WriteKeepsStatus
<1>7. ASSUME PluginCrash
      PROVE  StatusInv'
    <2>1. ~entry'.loaded /\ plugin' = plugin /\ \A d \in Calls : call'[d].pc \in {"idle", "done"}
        BY <1>7 DEF PluginCrash, NoEntry, CallAt, Gone
    <2> QED
        BY <1>1, <2>1 DEF StatusInv, AtRest, CallAt
<1>8. ASSUME UNCHANGED pluginVars
      PROVE  StatusInv'
    BY <1>3, <1>8 DEF pluginVars
<1> QED
    BY <1>2, <1>4, <1>5, <1>6, <1>7, <1>8 DEF PluginNext

\* StatusAgrees: for any number of calls, whatever hooks fail, time out or end
\* late: when no call is under way the table has the status the registry has,
\* because at most one status is on its way and it is the registry's, unless a
\* write failed or two writes crossed.
THEOREM PluginStatusAgrees == PluginSpec => []StatusAgrees
<1>1. PluginInit => StatusInv
    <2> SUFFICES ASSUME PluginInit
                 PROVE  StatusInv
        OBVIOUS
    <2>1. PluginTypeOK
        BY PluginInitTyped
    <2>2. \A c \in Calls : call[c].pc = "idle"
        BY DEF PluginInit
    <2>3. plugin.status = entry.status /\ (plugin.status = "none" => ~entry.loaded)
        <3>1. PICK status \in {"none", "installed"} :
                  /\ plugin = [status |-> status, deleted |-> FALSE]
                  /\ entry = [loaded |-> status = "installed", status |-> status, guilds |-> {}]
            BY DEF PluginInit
        <3> QED
            BY <3>1
    <2> QED
        BY <2>1, <2>2, <2>3 DEF StatusInv, AtRest, CallAt, Agreeing, Writing
<1>2. StatusInv => StatusAgrees
    BY DEF StatusInv, StatusAgrees, Agreeing, Writing
<1> QED
    BY <1>1, <1>2, StatusStep, PTL DEF PluginSpec

-----------------------------------------------------------------------------
(* What a claim of a member comes to. *)

\* A nonempty set of naturals has a least element.
LEMMA LeastDepth ==
    ASSUME NEW T \in SUBSET Nat, T # {}
    PROVE  \E m \in T : \A n \in T : m <= n
<1>1. PICK m \in T : \A n \in T : << n, m >> \notin OpToRel(<, Nat)
    BY NatLessThanWellFounded, WFMin, Zenon
<1>2. \A n \in T : ~(n < m)
    BY <1>1, Zenon DEF OpToRel
<1> QED
    BY <1>2

\* A nonempty set of claims has a greatest one.
LEMMA GreatestClaim ==
    ASSUME NEW T \in SUBSET (0 .. ClaimDepth), T # {}, ClaimDepth \in Nat
    PROVE  Max(T) \in T /\ \A n \in T : n <= Max(T)
<1> DEFINE Below == {ClaimDepth - n : n \in T}
<1>1. Below \in SUBSET Nat /\ Below # {}
    <2>1. PICK n \in T : TRUE
        OBVIOUS
    <2>2. ClaimDepth - n \in Below
        OBVIOUS
    <2>3. \A k \in T : ClaimDepth - k \in Nat
        OBVIOUS
    <2> QED
        BY <2>2, <2>3
<1>2. PICK d \in Below : \A e \in Below : d <= e
    BY <1>1, LeastDepth, Zenon
<1>3. PICK m \in T : d = ClaimDepth - m
    BY <1>2
<1>4. \A n \in T : ClaimDepth - m <= ClaimDepth - n
    BY <1>2, <1>3
<1>5. \A n \in T : m >= n
    BY <1>4
<1> QED
    BY <1>5 DEF Max

\* What is looked up among the groups by id is not found.
LEMMA NoIdIsAKey ==
    ASSUME NEW names, \A name \in names : \E g : name = Id(g)
    PROVE  Named(names) = {}
<1>1. \A g, x : Key(g) # Id(x)
    <2>1. \A g, x : Key(g).kind # Id(x).kind
        BY DEF Key, Id
    <2> QED
        BY <2>1
<1> QED
    BY <1>1 DEF Named

Effective == {Default} \cap groups

LEMMA FirstVisited == Named({Key(Default)} \cup RoleToGroups) = Effective
<1>1. \A g, x : Key(g) # Id(x)
    <2>1. \A g, x : Key(g).kind # Id(x).kind
        BY DEF Key, Id
    <2> QED
        BY <2>1
<1>2. \A g : Key(g) = Key(Default) <=> g = Default
    <2>1. \A g : Key(g).of = g
        BY DEF Key
    <2> QED
        BY <2>1
<1> QED
    BY <1>1, <1>2 DEF Named, RoleToGroups, Effective

LEMMA NoParentIsVisited == \A gs : Named(UNION {Parents(g) : g \in gs}) = {}
<1>1. ASSUME NEW gs
      PROVE  \A name \in UNION {Parents(g) : g \in gs} : \E g : name = Id(g)
    BY DEF Parents
<1> QED
    BY <1>1, NoIdIsAKey, Zenon

\* The walk visits the default group and no other: mappings and parents are
\* ids, and the groups are looked up by key.
LEMMA OnlyDefaultIsVisited == Visited = Effective
<1> DEFINE Depths == 0 .. Cardinality(Tiers)
           Round(w, depth) == IF depth = 0 THEN Named({Key(Default)} \cup RoleToGroups)
                             ELSE w[depth - 1] \cup Named(UNION {Parents(g) : g \in w[depth - 1]})
           IsWalk(w) == w = [depth \in Depths |-> Round(w, depth)]
<1>1. Cardinality(Tiers) \in Nat
    BY PermissionsAssumption, FS_CardinalityType
<1>2. IsWalk([depth \in Depths |-> Effective])
    <2> DEFINE w == [depth \in Depths |-> Effective]
    <2>1. ASSUME NEW depth \in Depths
          PROVE  Round(w, depth) = Effective
        <3>1. CASE depth = 0
            BY <3>1, FirstVisited
        <3>2. CASE depth # 0
            <4>1. depth - 1 \in Depths
                BY <1>1, <3>2
            <4>2. w[depth - 1] = Effective
                BY <4>1
            <4> QED
                BY <3>2, <4>2, NoParentIsVisited
        <3> QED
            BY <3>1, <3>2
    <2> QED
        BY <2>1
<1>3. Walk = CHOOSE w : IsWalk(w)
    BY DEF Walk
<1>4. IsWalk(Walk)
    <2> HIDE DEF IsWalk
    <2> QED
        BY <1>2, <1>3
<1>5. \A depth \in Depths : Walk[depth] = Round(Walk, depth)
    BY <1>4
<1> DEFINE Wrong == {depth \in Depths : Walk[depth] # Effective}
<1>6. Wrong = {}
    <2> SUFFICES ASSUME Wrong # {}
                 PROVE  FALSE
        OBVIOUS
    <2>1. Wrong \in SUBSET Nat
        BY <1>1
    <2>2. PICK m \in Wrong : \A n \in Wrong : m <= n
        <3> HIDE DEF Wrong
        <3> QED
            BY <2>1, LeastDepth, Zenon
    <2>3. m # 0
        BY <1>5, FirstVisited
    <2>4. m - 1 \in Depths /\ m - 1 \notin Wrong
        BY <1>1, <2>2, <2>3
    <2>5. Walk[m - 1] = Effective
        BY <2>4
    <2>6. Walk[m] = Effective
        BY <1>5, <2>3, <2>5, NoParentIsVisited
    <2> QED
        BY <2>6
<1> QED
    BY <1>1, <1>6 DEF Visited

\* The most specific match is among the claims of the default group.
LEMMA BestOfDefault ==
    ASSUME NEW effect
    PROVE  /\ Best(effect) \in 0 .. ClaimDepth
           /\ Best(effect) # 0 =>
                Default \in groups /\ Best(effect) \in Claims /\ grants[<< Default, Best(effect) >>] = effect
           /\ \A claim \in Claims :
                Default \in groups /\ grants[<< Default, claim >>] = effect => claim <= Best(effect)
<1> DEFINE Matches == {claim \in Claims : \E g \in Visited : grants[<< g, claim >>] = effect}
<1>1. Matches = {claim \in Claims : Default \in groups /\ grants[<< Default, claim >>] = effect}
    BY OnlyDefaultIsVisited DEF Effective
<1>2. ClaimDepth \in Nat /\ {0} \cup Matches \in SUBSET (0 .. ClaimDepth)
    BY PermissionsAssumption DEF Claims
<1>3. Best(effect) \in {0} \cup Matches /\ \A n \in {0} \cup Matches : n <= Best(effect)
    BY <1>2, GreatestClaim DEF Best
<1> QED
    BY <1>1, <1>2, <1>3

\* The types of the rows and of the seeding, step by step.
LEMMA PermissionsStepTyped == PermissionsTypeOK /\ [PermissionsNext]_permissionVars => PermissionsTypeOK'
<1> SUFFICES ASSUME PermissionsTypeOK, [PermissionsNext]_permissionVars
             PROVE  PermissionsTypeOK'
    OBVIOUS
<1> USE DEF PermissionsTypeOK
<1>1. Len(TierSteps) \in Nat /\ Len(TierSteps) # 0
    BY PermissionsAssumption
<1>2. CASE GuildCreated
    BY <1>1, <1>2 DEF GuildCreated
<1>3. CASE TierStep
    <2>1. seeding \in 1 .. Len(TierSteps)
        BY <1>1, <1>3 DEF TierStep
    <2>2. TierSteps[seeding] \in Tiers \X (0 .. ClaimDepth)
        BY <2>1, PermissionsAssumption
    <2>3. groups' \subseteq Tiers
        BY <1>3, <2>2 DEF TierStep
    <2>4. grants' \in [Tiers \X Claims -> Effects \cup {"none"}]
        BY <1>3, <2>2 DEF TierStep, Effects
    <2>5. seeding' \in 0 .. Len(TierSteps)
        BY <1>1, <1>3, <2>1 DEF TierStep
    <2> QED
        BY <1>3, <2>3, <2>4, <2>5 DEF TierStep
<1>4. CASE TierDefaultsFail
    BY <1>1, <1>4 DEF TierDefaultsFail
<1>5. ASSUME NEW g \in Tiers, NEW role \in MemberRoles, AssignGroup(role, g) \/ UnassignGroup(role, g)
      PROVE  PermissionsTypeOK'
    BY <1>5 DEF AssignGroup, UnassignGroup
<1>6. ASSUME NEW g \in Tiers, NEW claim \in Claims,
             RemoveClaimGrant(g, claim) \/ \E effect \in Effects : SetClaimGrant(g, claim, effect)
      PROVE  PermissionsTypeOK'
    BY <1>6 DEF RemoveClaimGrant, SetClaimGrant
<1>7. ASSUME NEW g \in Tiers, NEW parent \in Tiers, AddInheritance(g, parent)
      PROVE  PermissionsTypeOK'
    BY <1>7 DEF AddInheritance
<1>8. CASE UNCHANGED permissionVars
    BY <1>8 DEF permissionVars
<1> QED
    BY <1>2, <1>3, <1>4, <1>5, <1>6, <1>7, <1>8 DEF PermissionsNext

LEMMA PermissionsTyped == PermissionsSpec => []PermissionsTypeOK
<1>1. PermissionsInit => PermissionsTypeOK
    BY PermissionsAssumption DEF PermissionsInit, PermissionsTypeOK
<1> QED
    BY <1>1, PermissionsStepTyped, PTL DEF PermissionsSpec

\* MemberGroupDecides: for any tiers, roles, mappings, inheritance (cycles
\* too) and grants, however the rows came to be, the default group's grants
\* alone decide, the most specific one first and a DENY before a GRANT.
THEOREM MemberDecides == PermissionsSpec => []MemberGroupDecides
<1> DEFINE granted == Best("GRANT")  denied == Best("DENY")
<1>1. /\ granted \in 0 .. ClaimDepth
      /\ granted # 0 => Default \in groups /\ granted \in Claims /\ grants[<< Default, granted >>] = "GRANT"
      /\ \A claim \in Claims :
            Default \in groups /\ grants[<< Default, claim >>] = "GRANT" => claim <= granted
    BY BestOfDefault, Zenon
<1>2. /\ denied \in 0 .. ClaimDepth
      /\ denied # 0 => Default \in groups /\ denied \in Claims /\ grants[<< Default, denied >>] = "DENY"
      /\ \A claim \in Claims :
            Default \in groups /\ grants[<< Default, claim >>] = "DENY" => claim <= denied
    BY BestOfDefault, Zenon
<1>3. Allowed <=> granted > denied
    BY DEF Allowed
<1>4. MemberGroupDecides
    <2> HIDE DEF granted, denied
    <2> USE PermissionsAssumption DEF Claims
    <2>1. CASE granted > denied
        <3>1. \A other \in Claims : grants[<< Default, other >>] = "DENY" => other < granted
            BY <1>1, <1>2, <2>1
        <3>2. granted \in Claims /\ Default \in groups /\ grants[<< Default, granted >>] = "GRANT"
            BY <1>1, <1>2, <2>1
        <3> HIDE DEF Claims
        <3> QED
            BY <1>3, <2>1, <3>1, <3>2 DEF MemberGroupDecides
    <2>2. ASSUME NEW claim \in Claims, Default \in groups, grants[<< Default, claim >>] = "GRANT",
                 \A other \in Claims : grants[<< Default, other >>] = "DENY" => other < claim
          PROVE  granted > denied
        BY <1>1, <1>2, <2>2
    <2> QED
        BY <1>3, <2>1, <2>2 DEF MemberGroupDecides
<1> QED
    BY <1>4, PTL

-----------------------------------------------------------------------------
(* The services side by side. *)

LEMMA PluginTyped == PluginSpec => []PluginTypeOK
<1>1. PluginInit => PluginTypeOK
    BY PluginInitTyped
<1>2. PluginTypeOK /\ [PluginNext]_pluginVars => PluginTypeOK'
    BY PluginStepTyped
<1> QED
    BY <1>1, <1>2, PTL DEF PluginSpec

\* A behaviour of the services is one of each of them.
LEMMA ServicesAreEach ==
    ServicesSpec => /\ Spec /\ PluginSpec /\ NotificationsSpec /\ CacheSpec /\ PermissionsSpec
                    /\ TranslationsSpec /\ RegistrySpec /\ EndpointsSpec /\ SettingsSpec
<1>1. ServicesInit => /\ Init /\ PluginInit /\ NotificationsInit /\ CacheInit /\ PermissionsInit
                      /\ TranslationsInit /\ RegistryInit /\ EndpointsInit /\ SettingsInit
    BY DEF ServicesInit
<1>2. [ServicesNext]_servicesVars =>
          /\ [Next]_vars /\ [PluginNext]_pluginVars /\ [NotificationsNext]_noteVars /\ [CacheNext]_cacheVars
          /\ [PermissionsNext]_permissionVars /\ [TranslationsNext]_textVars /\ [RegistryNext]_registryVars
          /\ [EndpointsNext]_endpointVars /\ [SettingsNext]_settingsVars
    BY DEF ServicesNext, Others, servicesVars
<1> QED
    BY <1>1, <1>2, PTL DEF ServicesSpec, Spec, PluginSpec, NotificationsSpec, CacheSpec, PermissionsSpec,
                           TranslationsSpec, RegistrySpec, EndpointsSpec, SettingsSpec

\* The variables of the service a behaviour is about keep their types, for any
\* instance of every service.
THEOREM ServicesTyped == ServicesSpec => []ServicesTypeOK
<1>1. CacheInv => CacheTypeOK
    BY DEF CacheInv
<1>2. ReachInv => TranslationsTypeOK
    BY DEF ReachInv
<1>3. RegistryInv => RegistryTypeOK
    BY DEF RegistryInv
<1>4. SettingsInv => SettingsTypeOK
    BY DEF SettingsInv, SettingsTyped
<1>5. /\ TypeOK /\ PluginTypeOK /\ NotificationsTypeOK /\ CacheTypeOK /\ PermissionsTypeOK
      /\ TranslationsTypeOK /\ RegistryTypeOK /\ EndpointsTypeOK /\ SettingsTypeOK
      => ServicesTypeOK
    BY DEF ServicesTypeOK
<1> QED
    BY <1>1, <1>2, <1>3, <1>4, <1>5, ServicesAreEach, BusKeepsTypes, PluginTyped, NotesKeepTypes, CacheAlways,
       PermissionsTyped, TextsAlways, RegistryAlways, EndpointsKeepTypes, SettingsAlways, PTL

\* Every safety property of the services holds of them side by side.
THEOREM ServicesAreSafe ==
    ServicesSpec => []( /\ OutcomesAreTrue /\ KeyedRunsOnce /\ ReportedIsQueued
                        /\ QuietOnceDrained /\ StatusAgrees
                        /\ UnsettledHasJob /\ CancelledStaysUnsent /\ KeyNotifiesOnce
                        /\ NoCopyOutlives /\ MemberGroupDecides /\ EditReachesHandler
                        /\ PresentMeansMember /\ CachedRecordIsCurrent /\ AnsweredChangesStay )
    BY ServicesAreEach, OutcomesToldTruly, KeyRunsAsOneJob, ReportedIsOnItsWay, PluginStaysQuiet,
       PluginStatusAgrees, NothingFallsThrough, CancelIsFinal, DedupeHolds, NoCopySurvives, MemberDecides,
       EditsReachHandler, RegistryAgrees, EndpointsStayCurrent, ChangesStay, PTL
=============================================================================
