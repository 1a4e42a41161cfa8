---------------------------- MODULE Translations ----------------------------
(***************************************************************************)
(* The override of one translation key, for everybody or for one guild,    *)
(* and the bundles that carry it: the translations table, the bundle in    *)
(* Redis and the one a process remembers for good.  Edits tell of their    *)
(* write by an event, which one process picks up and invalidates for.      *)
(* CacheService stands here as its Redis level (TwoLevelCache has both).   *)
(***************************************************************************)
EXTENDS Naturals, FiniteSets

CONSTANTS
    Bots,         \* processes of the bot
    TextGuilds,   \* guilds with overrides
    Shows,        \* process -> scopes whose texts it looks up
    Edits,        \* requests to the translations API; a row has its creator's name
    MaxSlips      \* bound: restarts, requests that die, Redis calls that fail

ASSUME TranslationsAssumption ==
    /\ "null" \notin TextGuilds
    /\ Shows \in [Bots -> SUBSET ({"null"} \cup TextGuilds)]
    /\ MaxSlips \in Nat

VARIABLES
    texts,        \* creator -> its row [scope, value, live], value is the last writer
    remembered,   \* process -> scope -> bundle in memoryBundleCache
    bundles,      \* scope -> bundle in Redis
    lookup,       \* process -> its getBundle under way: [pc, scope, bundle]
    edit,         \* request -> [pc, scope, row, by]
    latest,       \* history: request that wrote the global text last
    alone,        \* history: requests no lookup of the global bundle overlapped
    slips

textVars == << texts, remembered, bundles, lookup, edit, latest, alone, slips >>

AllGuilds == "null"    \* guildId of a global override
Scopes == {AllGuilds} \cup TextGuilds
NoRow == "none"
NoBundle == "none"
FileText == "file"     \* what the file of the locale says, if anything
Values == {FileText} \cup Edits
Absent == [scope |-> AllGuilds, value |-> FileText, live |-> FALSE]
Unused == [pc |-> "idle", scope |-> AllGuilds, row |-> NoRow, by |-> {}]
Quiet == [pc |-> "idle", scope |-> AllGuilds, bundle |-> NoBundle]

TranslationsInit ==
    /\ texts = [e \in {} |-> Absent]
    /\ remembered = [b \in Bots |-> [s \in Scopes |-> NoBundle]]
    /\ bundles = [s \in Scopes |-> NoBundle]
    /\ lookup = [b \in Bots |-> Quiet]
    /\ edit = [e \in Edits |-> Unused]
    /\ latest = {} /\ alone = {} /\ slips = 0

Slip == slips < MaxSlips /\ slips' = slips + 1
Rows(s) == {r \in DOMAIN texts : texts[r].scope = s}
Live(s) == {r \in Rows(s) : texts[r].live}
Now(s) == {texts[r].value : r \in Live(s)}

\* load: the guild's override, else the global one, else the file.  Of several
\* live rows of a key any may come last and win.
Compiled(s) ==
    IF s # AllGuilds /\ Live(s) # {} THEN Now(s)
    ELSE IF Live(AllGuilds) # {} THEN Now(AllGuilds) ELSE {FileText}

-----------------------------------------------------------------------------
(* getBundle: a remembered bundle is the answer, and nothing changes.      *)
(* A process does one lookup at a time (those of one bundle share a loader *)
(* through inflight).                                                      *)

LookupOn(b, pc, scope, bundle) ==
    lookup' = [lookup EXCEPT ![b] = [pc |-> pc, scope |-> scope, bundle |-> bundle]]
LookupEnds(b) == lookup' = [lookup EXCEPT ![b] = Quiet]

AskRedis(b, s) ==
    /\ lookup[b] = Quiet /\ remembered[b][s] = NoBundle
    /\ alone' = IF s = AllGuilds THEN {e \in alone : edit[e].pc = "over"} ELSE alone
    /\ \/ bundles[s] # NoBundle /\ LookupOn(b, "remember", s, bundles[s]) /\ slips' = slips
       \/ bundles[s] = NoBundle /\ LookupOn(b, "load", s, NoBundle) /\ slips' = slips
       \/ bundles[s] # NoBundle /\ Slip /\ LookupOn(b, "load", s, NoBundle)
    /\ UNCHANGED << texts, remembered, bundles, edit, latest >>

Load(b) ==
    /\ lookup[b].pc = "load"
    /\ \E bundle \in Compiled(lookup[b].scope) : LookupOn(b, "fill", lookup[b].scope, bundle)
    /\ UNCHANGED << texts, remembered, bundles, edit, latest, alone, slips >>

FillBundle(b) ==
    /\ lookup[b].pc = "fill" /\ lookup' = [lookup EXCEPT ![b].pc = "remember"]
    /\ \/ bundles' = [bundles EXCEPT ![lookup[b].scope] = lookup[b].bundle] /\ slips' = slips
       \/ Slip /\ bundles' = bundles
    /\ UNCHANGED << texts, remembered, edit, latest, alone >>

Remember(b) ==
    /\ lookup[b].pc = "remember" /\ LookupEnds(b)
    /\ remembered' = [remembered EXCEPT ![b][lookup[b].scope] = lookup[b].bundle]
    /\ UNCHANGED << texts, bundles, edit, latest, alone, slips >>

\* Redis forgets a bundle after its time to live; a process never does.
ExpireBundle(s) ==
    /\ bundles[s] # NoBundle /\ bundles' = [bundles EXCEPT ![s] = NoBundle]
    /\ UNCHANGED << texts, remembered, lookup, edit, latest, alone, slips >>

-----------------------------------------------------------------------------
(* The API: upsert and remove look for a live row and write it by its id. *)

EditAt(e, pc) == edit[e].pc = pc
EditTo(e, pc) == edit' = [edit EXCEPT ![e].pc = pc]
Looking == \E b \in Bots : lookup[b] # Quiet /\ lookup[b].scope = AllGuilds

FindText(e, s) ==
    /\ EditAt(e, "idle")
    /\ \/ \E r \in Live(s), pc \in {"update", "remove"} :
              edit' = [edit EXCEPT ![e] = [Unused EXCEPT !.pc = pc, !.scope = s, !.row = r]]
       \/ /\ Live(s) = {}
          /\ edit' = [edit EXCEPT ![e] = [Unused EXCEPT !.pc = "create", !.scope = s]]
    /\ UNCHANGED << texts, remembered, bundles, lookup, latest, alone, slips >>

\* A write of the global text, seen by the histories.
Wrote(e) ==
    /\ EditTo(e, "told")
    /\ latest' = IF edit[e].scope = AllGuilds THEN {e} ELSE latest
    /\ alone' = IF Looking THEN alone ELSE alone \cup {e}
    /\ UNCHANGED << remembered, bundles, lookup, slips >>

\* An update brings a row back that was removed after it was found.
UpdateText(e) ==
    /\ EditAt(e, "update") /\ Wrote(e)
    /\ texts' = [texts EXCEPT ![edit[e].row].value = e, ![edit[e].row].live = TRUE]

\* The unique index covers removed rows, and holds two NULL guilds for distinct.
CreateText(e) ==
    /\ EditAt(e, "create")
    /\ edit[e].scope = AllGuilds \/ Rows(edit[e].scope) = {}
    /\ Wrote(e)
    /\ texts' = [r \in DOMAIN texts \cup {e} |->
           IF r = e THEN [scope |-> edit[e].scope, value |-> e, live |-> TRUE] ELSE texts[r]]

CreateRefused(e) ==
    /\ EditAt(e, "create") /\ edit[e].scope # AllGuilds /\ Rows(edit[e].scope) # {}
    /\ EditTo(e, "failed")
    /\ UNCHANGED << texts, remembered, bundles, lookup, latest, alone, slips >>

RemoveText(e) ==
    /\ EditAt(e, "remove") /\ Wrote(e)
    /\ texts' = [texts EXCEPT ![edit[e].row].live = FALSE]

\* guild.deleted removes the guild's overrides and invalidates nothing.
GuildDeleted(g) ==
    /\ Live(g) # {}
    /\ texts' = [r \in DOMAIN texts |-> [texts[r] EXCEPT !.live = @ /\ texts[r].scope # g]]
    /\ UNCHANGED << remembered, bundles, lookup, edit, latest, alone, slips >>

-----------------------------------------------------------------------------
(* The event is a job, so one process runs the handlers: invalidate drops  *)
(* the global bundle, whichever guild the edit was for.                    *)

\* Mutant of InvalidateBundle: the remembered bundle stays.
InvalidateRedisOnly(b, e) ==
    /\ EditAt(e, "told")
    /\ edit' = [edit EXCEPT ![e].pc = "dropping", ![e].by = {b}]
    /\ remembered' = remembered
    /\ UNCHANGED << texts, bundles, lookup, latest, alone, slips >>

InvalidateBundle(b, e) ==
    /\ EditAt(e, "told")
    /\ edit' = [edit EXCEPT ![e].pc = "dropping", ![e].by = {b}]
    /\ remembered' = [remembered EXCEPT ![b][AllGuilds] = NoBundle]
    /\ UNCHANGED << texts, bundles, lookup, latest, alone, slips >>

DropBundle(e) ==
    /\ EditAt(e, "dropping")
    /\ \/ bundles' = [bundles EXCEPT ![AllGuilds] = NoBundle] /\ EditTo(e, "over") /\ slips' = slips
       \/ Slip /\ EditTo(e, "failed") /\ bundles' = bundles
    /\ UNCHANGED << texts, remembered, lookup, latest, alone >>

-----------------------------------------------------------------------------
\* A process restarts: what it remembered, looked up and was dropping is gone.
RestartBot(b) ==
    /\ Slip
    /\ remembered' = [remembered EXCEPT ![b] = [s \in Scopes |-> NoBundle]]
    /\ LookupEnds(b)
    /\ edit' = [e \in Edits |->
           IF EditAt(e, "dropping") /\ edit[e].by = {b} THEN [edit[e] EXCEPT !.pc = "failed"] ELSE edit[e]]
    /\ UNCHANGED << texts, bundles, latest, alone >>

\* A request dies, or its publish throws: nobody hears of its write.
EditDies(e) ==
    /\ Slip /\ edit[e].pc \in {"update", "remove", "create", "told"} /\ EditTo(e, "failed")
    /\ UNCHANGED << texts, remembered, bundles, lookup, latest, alone >>

TranslationsNext ==
    \/ \E b \in Bots : Load(b) \/ FillBundle(b) \/ Remember(b) \/ \E s \in Shows[b] : AskRedis(b, s)
    \/ \E e \in Edits, s \in Scopes : FindText(e, s)
    \/ \E e \in Edits :
        UpdateText(e) \/ CreateText(e) \/ CreateRefused(e) \/ RemoveText(e)
            \/ DropBundle(e) \/ EditDies(e)
    \/ \E b \in Bots, e \in Edits : InvalidateBundle(b, e)
    \/ \E b \in Bots : RestartBot(b)
    \/ \E s \in Scopes : ExpireBundle(s)
    \/ \E g \in TextGuilds : GuildDeleted(g)

TranslationsSpec == TranslationsInit /\ [][TranslationsNext]_textVars

-----------------------------------------------------------------------------
TranslationsTypeOK ==
    /\ texts \in [DOMAIN texts -> [scope : Scopes, value : Values, live : BOOLEAN]]
    /\ DOMAIN texts \subseteq Edits
    /\ remembered \in [Bots -> [Scopes -> {NoBundle} \cup Values]]
    /\ bundles \in [Scopes -> {NoBundle} \cup Values]
    /\ lookup \in [Bots ->
           [pc : {"idle", "load", "fill", "remember"}, scope : Scopes, bundle : {NoBundle} \cup Values]]
    /\ edit \in [Edits -> [pc : {"idle", "update", "remove", "create", "told", "dropping", "over", "failed"},
           scope : Scopes, row : {NoRow} \cup Edits, by : SUBSET Bots]]
    /\ latest \subseteq Edits /\ alone \subseteq Edits /\ slips \in Nat

\* Once the event of the latest global edit was handled, and no lookup of that
\* bundle overlapped it, neither Redis nor the process that handled it has an
\* older text, whatever is looked up, edited or restarted afterwards.
\* (The bundles of guilds and of other processes stay as they were.)
EditReachesHandler ==
    \A e \in latest \cap alone : EditAt(e, "over") =>
        \A b \in edit[e].by :
            {remembered[b][AllGuilds], bundles[AllGuilds]} \subseteq {NoBundle} \cup Compiled(AllGuilds)
=============================================================================
