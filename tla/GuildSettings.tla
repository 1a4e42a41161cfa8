---------------------------- MODULE GuildSettings ----------------------------
(***************************************************************************)
(* The JSON column `settings` of a guild's configuration row.  Each module *)
(* owns one section of it and writes by reading the whole column, changing *)
(* its section and writing the whole column back; the audit section is     *)
(* also cached.  A section is the set of the changes it holds.             *)
(***************************************************************************)
EXTENDS Naturals

CONSTANTS
    AuditChanges,      \* calls of AuditConfigService.updateGuild
    SecurityChanges,   \* calls of SecurityConfigService.update
    MaxUpsets          \* bound: calls that throw, crashes, and entries that expire

ASSUME GuildSettingsAssumption == AuditChanges \cap SecurityChanges = {} /\ MaxUpsets \in Nat

Changes == AuditChanges \cup SecurityChanges
NotCached == [held |-> FALSE, changes |-> {}]

VARIABLES
    column,      \* the changes in the column
    change,      \* call -> [pc, own, view]: the section and the column it read
    retention,   \* cache: [held, changes] of the audit section
    loading,     \* loadGuildConfig: [held, changes] it read and has not stored
    exposed,     \* history: changes written, or evicted, while another call held an older read
    upsets

settingsVars == << column, change, retention, loading, exposed, upsets >>

SettingsInit ==
    /\ column = {}
    /\ change = [c \in Changes |-> [pc |-> "idle", own |-> {}, view |-> {}]]
    /\ retention = NotCached /\ loading = NotCached
    /\ exposed = {} /\ upsets = 0

Upset == upsets < MaxUpsets /\ upsets' = upsets + 1
ChangeAt(c, pc) == change[c].pc = pc
HoldsRead(c) == change[c].pc \in {"read", "write"}

-----------------------------------------------------------------------------
\* SecurityConfigService.update gets its section first ...
GetSection(c) ==
    /\ c \in SecurityChanges /\ ChangeAt(c, "idle")
    /\ change' = [change EXCEPT ![c] = [pc |-> "read", own |-> column \cap SecurityChanges, view |-> {}]]
    /\ UNCHANGED << column, retention, loading, exposed, upsets >>

\* ... and reads the column again.
ReadColumn(c) ==
    /\ ChangeAt(c, "read")
    /\ change' = [change EXCEPT ![c].pc = "write", ![c].view = column]
    /\ UNCHANGED << column, retention, loading, exposed, upsets >>

\* AuditConfigService.updateGuild reads once, the section with the column.
ReadSettings(c) ==
    /\ c \in AuditChanges /\ ChangeAt(c, "idle")
    /\ change' = [change EXCEPT ![c] = [pc |-> "write", own |-> column \cap AuditChanges, view |-> column]]
    /\ UNCHANGED << column, retention, loading, exposed, upsets >>

\* Mutant of Merged: the column is written with the section alone.
MergedAlone(c) == change[c].own \cup {c}

\* What is written: the sections of others as they were read, and the own one
\* with the change.
Merged(c) ==
    LET mine == IF c \in AuditChanges THEN AuditChanges ELSE SecurityChanges
    IN  (change[c].view \ mine) \cup change[c].own \cup {c}

WriteSettings(c) ==
    /\ ChangeAt(c, "write")
    /\ column' = Merged(c)
    /\ change' = [change EXCEPT ![c].pc = IF c \in AuditChanges THEN "evict" ELSE "done"]
    /\ exposed' = IF \E d \in Changes \ {c} : HoldsRead(d) THEN exposed \cup {c} ELSE exposed
    /\ UNCHANGED << retention, loading, upsets >>

\* invalidateGuild, and the call returns.
InvalidateGuild(c) ==
    /\ ChangeAt(c, "evict") /\ change' = [change EXCEPT ![c].pc = "done"]
    /\ retention' = NotCached
    /\ exposed' = IF loading.held /\ c \notin loading.changes THEN exposed \cup {c} ELSE exposed
    /\ UNCHANGED << column, loading, upsets >>

\* The row is missing, the patch is not valid, or the database throws.
ChangeFails(c) ==
    /\ HoldsRead(c) /\ Upset
    /\ change' = [change EXCEPT ![c].pc = "failed"]
    /\ UNCHANGED << column, retention, loading, exposed >>

-----------------------------------------------------------------------------
\* forGuild: a miss starts one load per process, which others wait for.
LoadGuildConfig ==
    /\ ~retention.held /\ ~loading.held
    /\ loading' = [held |-> TRUE, changes |-> column \cap AuditChanges]
    /\ UNCHANGED << column, change, retention, exposed, upsets >>

StoreGuildConfig ==
    /\ loading.held
    /\ retention' = loading /\ loading' = NotCached
    /\ UNCHANGED << column, change, exposed, upsets >>

ExpireGuildConfig ==
    /\ retention.held /\ Upset
    /\ retention' = NotCached
    /\ UNCHANGED << column, change, loading, exposed >>

\* The process dies; Redis keeps the cached section.
SettingsCrash ==
    /\ Upset
    /\ change' = [c \in Changes |-> IF HoldsRead(c) \/ ChangeAt(c, "evict")
                                   THEN [change[c] EXCEPT !.pc = "failed"] ELSE change[c]]
    /\ loading' = NotCached
    /\ UNCHANGED << column, retention, exposed >>

SettingsNext ==
    \/ \E c \in Changes :
        \/ GetSection(c) \/ ReadColumn(c) \/ ReadSettings(c)
        \/ WriteSettings(c) \/ InvalidateGuild(c) \/ ChangeFails(c)
    \/ LoadGuildConfig \/ StoreGuildConfig \/ ExpireGuildConfig \/ SettingsCrash

SettingsSpec == SettingsInit /\ [][SettingsNext]_settingsVars

-----------------------------------------------------------------------------
SettingsTypeOK ==
    /\ column \subseteq Changes /\ exposed \subseteq Changes /\ upsets \in Nat
    /\ change \in [Changes -> [pc : {"idle", "read", "write", "evict", "done", "failed"},
                               own : SUBSET Changes, view : SUBSET Changes]]
    /\ retention.changes \subseteq AuditChanges /\ loading.changes \subseteq AuditChanges

\* A change that was answered stays in the column, and in the audit section
\* that is served from the cache, whatever other modules write to the same
\* column, unless another call was between its read and its write when the
\* change was written, or a load overlapped its eviction.
AnsweredChangesStay ==
    \A c \in Changes \ exposed : ChangeAt(c, "done") =>
        /\ c \in column
        /\ c \in AuditChanges /\ retention.held => c \in retention.changes
=============================================================================
