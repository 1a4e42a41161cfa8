----------------------------- MODULE Permissions -----------------------------
(***************************************************************************)
(* A guild's permission groups, their grants, the role mappings and the    *)
(* inheritance between groups, and what PermissionResolver decides from    *)
(* them for one claim of one member.                                       *)
(***************************************************************************)
EXTENDS Naturals, Sequences, FiniteSets, FiniteSetsExt

CONSTANTS
    Tiers,       \* built-in groups
    MemberRoles, \* Discord roles of the member
    ClaimDepth,  \* claims that cover the required one, "*" first, itself last
    TierSteps    \* the upserts of createTierDefaults in order: <<tier, claim>>, claim 0 for the tier itself

Default == "member"
Claims == 1 .. ClaimDepth    \* a claim's number orders it by specificity()
Effects == {"GRANT", "DENY"}

ASSUME PermissionsAssumption ==
    /\ Default \in Tiers /\ IsFiniteSet(Tiers) /\ ClaimDepth \in Nat
    /\ TierSteps \in Seq(Tiers \X (0 .. ClaimDepth)) /\ TierSteps # << >>

VARIABLES
    groups,    \* permission_groups: the tiers that exist
    grants,    \* claim_grants: <<tier, claim>> -> effect or "none"
    mappings,  \* role_group_mappings: <<role, tier>>
    inherits,  \* group_inheritance: <<child, parent>>
    seeding    \* step of createTierDefaults to do next, 0 when none runs

permissionVars == << groups, grants, mappings, inherits, seeding >>

PermissionsInit ==
    /\ groups = {} /\ mappings = {} /\ inherits = {} /\ seeding = 0
    /\ grants = [gc \in Tiers \X Claims |-> "none"]

\* A row has an id (cuid) beside its key.
Key(g) == [kind |-> "key", of |-> g]
Id(g) == [kind |-> "id", of |-> g]

-----------------------------------------------------------------------------
\* guild.created: the handler runs createTierDefaults and waits for nothing.
GuildCreated ==
    /\ seeding = 0 /\ seeding' = 1
    /\ UNCHANGED << groups, grants, mappings, inherits >>

\* One upsert, which changes nothing in a row that is there.
TierStep ==
    /\ seeding # 0
    /\ LET g == TierSteps[seeding][1]  claim == TierSteps[seeding][2] IN
        /\ groups' = IF claim = 0 THEN groups \cup {g} ELSE groups
        /\ grants' = IF claim # 0 /\ grants[<< g, claim >>] = "none"
                     THEN [grants EXCEPT ![<< g, claim >>] = "GRANT"] ELSE grants
    /\ seeding' = IF seeding = Len(TierSteps) THEN 0 ELSE seeding + 1
    /\ UNCHANGED << mappings, inherits >>

\* It throws, or the process dies.
TierDefaultsFail ==
    /\ seeding # 0 /\ seeding' = 0
    /\ UNCHANGED << groups, grants, mappings, inherits >>

AssignGroup(role, g) ==
    /\ g \in groups /\ mappings' = mappings \cup {<< role, g >>}
    /\ UNCHANGED << groups, grants, inherits, seeding >>

UnassignGroup(role, g) ==
    /\ g \in groups /\ mappings' = mappings \ {<< role, g >>}
    /\ UNCHANGED << groups, grants, inherits, seeding >>

SetClaimGrant(g, claim, effect) ==
    /\ g \in groups /\ grants' = [grants EXCEPT ![<< g, claim >>] = effect]
    /\ UNCHANGED << groups, mappings, inherits, seeding >>

RemoveClaimGrant(g, claim) ==
    /\ g \in groups /\ grants' = [grants EXCEPT ![<< g, claim >>] = "none"]
    /\ UNCHANGED << groups, mappings, inherits, seeding >>

\* GroupInheritanceRepository.addInheritance; nothing keeps a cycle out.
AddInheritance(child, parent) ==
    /\ {child, parent} \subseteq groups /\ inherits' = inherits \cup {<< child, parent >>}
    /\ UNCHANGED << groups, grants, mappings, seeding >>

PermissionsNext ==
    \/ GuildCreated \/ TierStep \/ TierDefaultsFail
    \/ \E g \in Tiers :
        \/ \E role \in MemberRoles : AssignGroup(role, g) \/ UnassignGroup(role, g)
        \/ \E claim \in Claims : RemoveClaimGrant(g, claim) \/ \E effect \in Effects : SetClaimGrant(g, claim, effect)
        \/ \E parent \in Tiers : AddInheritance(g, parent)

PermissionsSpec == PermissionsInit /\ [][PermissionsNext]_permissionVars

-----------------------------------------------------------------------------
(* PermissionResolver.resolve for a member who owns neither guild nor bot. *)

\* Mutant of RoleToGroups: the map holds the groups' keys.
RoleToGroupKeys == {Key(m[2]) : m \in mappings}

\* buildRoleToGroupsMap, for the member's roles.
RoleToGroups == {Id(m[2]) : m \in mappings}

\* The snapshot's groups are looked up by key.
Named(names) == {g \in groups : Key(g) \in names}

Parents(g) == {Id(e[2]) : e \in {f \in inherits : f[1] = g}}

\* walkGroup: the groups visited up to a depth, from the effective ones.
Walk[depth \in 0 .. Cardinality(Tiers)] ==
    IF depth = 0 THEN Named({Key(Default)} \cup RoleToGroups)
    ELSE Walk[depth - 1] \cup Named(UNION {Parents(g) : g \in Walk[depth - 1]})

Visited == Walk[Cardinality(Tiers)]

\* The most specific match of an effect, 0 when there is none.
Best(effect) == Max({0} \cup {claim \in Claims : \E g \in Visited : grants[<< g, claim >>] = effect})

Allowed == Best("GRANT") > Best("DENY")

-----------------------------------------------------------------------------
PermissionsTypeOK ==
    /\ groups \subseteq Tiers
    /\ grants \in [Tiers \X Claims -> Effects \cup {"none"}]
    /\ mappings \subseteq MemberRoles \X Tiers /\ inherits \subseteq Tiers \X Tiers
    /\ seeding \in 0 .. Len(TierSteps)

\* What the resolver in fact decides, whatever roles are mapped and groups
\* inherit: the member group alone counts, because mappings and parents are
\* ids looked up among keys; and in it a GRANT wins exactly when it is more
\* specific than every DENY.
MemberGroupDecides ==
    Allowed <=>
        \E claim \in Claims :
            /\ Default \in groups /\ grants[<< Default, claim >>] = "GRANT"
            /\ \A other \in Claims : grants[<< Default, other >>] = "DENY" => other < claim

\* A grant of a group mapped to one of the member's roles counts, when nothing
\* is denied: docs/architecture/05-permissions.md says that a member's
\* effective groups include the groups mapped to the member's roles.
MappedGroupsCount ==
    \A m \in mappings, claim \in Claims :
        /\ grants[<< m[2], claim >>] = "GRANT"
        /\ \A gc \in Tiers \X Claims : grants[gc] # "DENY"
        => Allowed
=============================================================================
