----------------------------- MODULE MCServices -----------------------------
(* Instances of the services for TLC.  Events: a keyed one delivered both  *)
(* ways and an async one without a key, two async handlers of which one is *)
(* also sync.  Cache: two reads and a write in one process, a write in     *)
(* another.  Permissions: two tiers, of which one grants everything.       *)
(* Translations: one process answers for a guild, one for everybody.       *)
EXTENDS Services, TLC

CONSTANTS
    banned, noted, w1, audit, cache,
    dm, mail, slot,
    bot1, bot2, r1, r2, cw1, cw2,
    moderator,
    shard1, shard2, fix, reword,
    hook1, hook2, admin1, admin2

BothAndAsync == [e \in Events |-> IF e = banned THEN "both" ELSE "async"]
OneSync == << audit >>
TwoAsync == << audit, cache >>

TwoProcesses == (r1 :> bot1) @@ (r2 :> bot1) @@ (cw1 :> bot1) @@ (cw2 :> bot2)

OwnerAndMember == << << "owner", 0 >>, << "member", 0 >>, << "owner", 1 >>, << "member", 2 >> >>

GuildAndGlobal == (shard1 :> TextGuilds) @@ (shard2 :> {AllGuilds})
=============================================================================
