------------------------------ MODULE Accounts ------------------------------
(***************************************************************************)
(* Accounts, groups, roles and sessions: api/routers/admin.py, groups.py   *)
(* (services/group_service.py), scim.py, auth.py and sso.py over           *)
(* services/role_service.py, and the ownership of templates that follows   *)
(* an account (services/template_share_service.py).  Administrators, the   *)
(* identity provider's SCIM client and people signing in change the same   *)
(* tables.  A request changes them in one transaction whose first flush    *)
(* takes SQLite's write lock, and from there on it is alone.  Two requests *)
(* look for what they change before that flush, and are two steps each: an *)
(* administrator closing an account, who looks for its templates, and one  *)
(* handing a template over, who looks whether the new owner may have it.   *)
(* A request that is refused, or fails on a constraint, is rolled back.    *)
(***************************************************************************)
EXTENDS Integers, FiniteSetsExt

CONSTANTS
  MaxUser,      \* a bound on the account ids in use
  Group,        \* ids of groups
  None, Gone,   \* no value; no row
  DefaultRole,  \* idp_default_role, what an account provisioned here gets
  AccessTTL,    \* ticks that an access token is good for
  MaxEdits      \* a bound on the requests that change the tables

User == 1..MaxUser
Role == {"user", "admin"}

ASSUME BoundsAssumption == /\ MaxUser \in Nat \ {0}
                           /\ {AccessTTL, MaxEdits} \subseteq Nat
ASSUME RoleAssumption   == DefaultRole \in Role
ASSUME NoneAssumption   == {None, Gone} \cap User = {} /\ None \notin Role \cup {Gone}

VARIABLES
  account,   \* users: role, active, and whether the name is "admin"
  group,     \* user_groups: mapped_role and source
  member,    \* user_group_members: how each account came into each group
  entitled,  \* users and groups with a grant on the tenant
  session,   \* what each account's browser holds: an access token's role and
             \* age, the role in its refresh token
  owner,     \* owner_user_id of the template; None without, Gone when absent
  handover,  \* the owner that an admin's PATCH has checked and not yet written
  closing,   \* an account that an admin closes, and whether the template was
             \* its own when the request looked; None while there is no request
  server,    \* "up", or "failed" when start-up raised
  late,      \* history: whether the owner's account was closed, or about to be,
             \* when the template became its
  since,     \* history: ticks since the account could last be an admin
  edits      \* requests so far

tables == <<account, group, member, entitled>>
begun  == <<handover, closing>>
vars   == <<account, group, member, entitled, session, owner, handover,
            closing, server, late, since, edits>>

Row      == [role : Role, active : BOOLEAN, seeded : BOOLEAN]
GroupRow == [role : Role \cup {None}, scim : BOOLEAN]
Closing  == [user : User, deletes : BOOLEAN, owned : BOOLEAN]
ASSUME RowAssumption == None \notin Row \cup GroupRow \cup Closing
Session  == [access : Role \cup {None}, age : 0..AccessTTL,
             refresh : Role \cup {None}]
SignedOut == [access |-> None, age |-> 0, refresh |-> None]

Exists(u)  == account[u] # None
Active(u)  == Exists(u) /\ account[u].active
Users      == {u \in User : Exists(u)}
Groups     == {g \in Group : group[g] # None}
In(g)      == {u \in User : member[g][u] # "no"}
GroupsOf(u) == {g \in Groups : u \in In(g)}

(***************************************************************************)
(* services/role_service.py                                                *)
(***************************************************************************)

available_roles(u) ==
  ({account[u].role} \cup {group[g].role : g \in GroupsOf(u)}) \ {None}

(* Who can administer the install: by the account's own role or a group's. *)
admins == {u \in User : Active(u) /\ "admin" \in available_roles(u)}

resolve_active(roles, requested) ==
  IF requested \in roles THEN requested
  ELSE IF "user" \in roles THEN "user" ELSE "admin"

(* What a check of the change just flushed allows it to commit.            *)
AdminRemains == admins' # {}

(***************************************************************************)
(* Requests.                                                               *)
(***************************************************************************)

(* A request of the session of c, which holds role r and has not expired.  *)
(* Only the token is looked at, never the account.                         *)
Holds(c, r) == session[c].access = r /\ session[c].age < AccessTTL

Edits == server = "up" /\ edits < MaxEdits /\ edits' = edits + 1

(* SQLite gives a new row the largest id plus one.                         *)
NewUser == IF Users = {} THEN 1 ELSE Max(Users) + 1
Insert(u, r, a, named) ==
  /\ u = NewUser /\ u \in User
  /\ account' = [account EXCEPT ![u] = [role |-> r, active |-> a,
                                        seeded |-> named]]
NameTaken == \E u \in Users : account[u].seeded

(* disown_templates                                                        *)
Disown(u) == owner' = IF owner = u THEN None ELSE owner

AdminCreates(r, named) ==
  /\ named => ~NameTaken
  /\ Insert(NewUser, r, TRUE, named)
  /\ UNCHANGED <<group, member, entitled, owner>>

(* With a new role, which is flushed before the templates are looked for.  *)
AdminUpdates(c, u, r, a) ==
  /\ Exists(u) /\ <<r, a>> # <<account[u].role, account[u].active>>
  /\ c = u => /\ r \in {account[u].role, "admin"}
              /\ Active(u) => a
  /\ Active(u) /\ ~a => r # account[u].role
  /\ account' = [account EXCEPT ![u].role = r, ![u].active = a]
  /\ IF Active(u) /\ ~a THEN Disown(u) ELSE UNCHANGED owner
  /\ UNCHANGED <<group, member, entitled>>
  /\ AdminRemains

(* A deactivation and nothing else, or a deletion: the templates are       *)
(* looked for with nothing to flush.  The rows that refer to a deleted     *)
(* account get a null in a column that does not take one, so only one      *)
(* without such rows can be deleted.                                       *)
ClosingLooks(c, u, deletes) ==
  /\ closing = None
  /\ Exists(u) /\ u # c
  /\ IF deletes THEN GroupsOf(u) = {} /\ u \notin entitled ELSE Active(u)
  /\ closing' = [user |-> u, deletes |-> deletes, owned |-> owner = u]
  /\ UNCHANGED <<tables, owner>>

(* The flush.  A row that is gone by then is an error.                     *)
ClosingWrites ==
  /\ closing # None /\ Exists(closing.user)
  /\ account' = IF closing.deletes
                  THEN [account EXCEPT ![closing.user] = None]
                  ELSE [account EXCEPT ![closing.user].active = FALSE]
  /\ IF closing.owned THEN owner # Gone /\ owner' = None ELSE UNCHANGED owner
  /\ closing' = None
  /\ UNCHANGED <<group, member, entitled>>
  /\ AdminRemains

ClosingFails ==
  /\ closing # None /\ closing' = None
  /\ UNCHANGED <<tables, owner>>

SetsMember(g, ms) == member' = [member EXCEPT ![g] = ms]
Nobody == [u \in User |-> "no"]
Added(ms, us, source) ==
  [u \in User |-> IF u \in us \cap Users /\ ms[u] = "no" THEN source
                  ELSE ms[u]]
Removed(ms, us) == [u \in User |-> IF u \in us THEN "no" ELSE ms[u]]
Provisioned(g) == {u \in User : member[g][u] = "scim"}

create_group(g, r) ==
  /\ g \notin Groups
  /\ group' = [group EXCEPT ![g] = [role |-> r, scim |-> FALSE]]
  /\ UNCHANGED <<account, member, entitled, owner>>

update_group(g, r) ==
  /\ g \in Groups /\ r # group[g].role
  /\ group' = [group EXCEPT ![g].role = r]
  /\ UNCHANGED <<account, member, entitled, owner>>
  /\ AdminRemains

delete_group(g) ==
  /\ g \in Groups /\ ~group[g].scim
  /\ group' = [group EXCEPT ![g] = None]
  /\ SetsMember(g, Nobody)
  /\ entitled' = entitled \ {g}
  /\ UNCHANGED <<account, owner>>
  /\ AdminRemains

add_members(g, us) ==
  /\ g \in Groups /\ us # {} /\ us \subseteq Users
  /\ SetsMember(g, Added(member[g], us, "local"))
  /\ UNCHANGED <<account, group, entitled, owner>>

remove_member(g, u) ==
  /\ g \in Groups /\ member[g][u] = "local"
  /\ SetsMember(g, Removed(member[g], {u}))
  /\ UNCHANGED <<account, group, entitled, owner>>
  /\ AdminRemains

(* create_entitlement and grant_tenants; delete_entitlement, revoke_tenant *)
Entitles(x) ==
  /\ entitled' = IF x \in entitled THEN entitled \ {x} ELSE entitled \cup {x}
  /\ UNCHANGED <<account, group, member, owner>>

AdminRequest(c) ==
  \/ \E r \in Role, named \in BOOLEAN : AdminCreates(r, named)
  \/ \E u \in User, r \in Role, a \in BOOLEAN : AdminUpdates(c, u, r, a)
  \/ \E g \in Group, r \in Role \cup {None} : create_group(g, r)
  \/ \E g \in Group, r \in Role \cup {None} : update_group(g, r)
  \/ \E g \in Group : delete_group(g)
  \/ \E g \in Group, us \in SUBSET User : add_members(g, us)
  \/ \E g \in Group, u \in User : remove_member(g, u)
  \/ \E x \in Users \cup Groups \cup entitled : Entitles(x)

Administers ==
  /\ Edits
  /\ \E c \in User :
       /\ Holds(c, "admin")
       /\ \/ AdminRequest(c) /\ UNCHANGED closing
          \/ \E u \in User, deletes \in BOOLEAN : ClosingLooks(c, u, deletes)
  /\ UNCHANGED <<session, handover, server>>

AdminCloses ==
  /\ server = "up"
  /\ ClosingWrites \/ ClosingFails
  /\ UNCHANGED <<session, handover, server, edits>>

(***************************************************************************)
(* SCIM: the identity provider's own client.                               *)
(***************************************************************************)

ScimCreatesUser(a) ==
  /\ Insert(NewUser, DefaultRole, a, FALSE)
  /\ UNCHANGED <<group, member, entitled, owner>>

(* A POST of a deprovisioned name.                                         *)
ScimReactivates(u) ==
  /\ Exists(u) /\ ~account[u].active
  /\ account' = [account EXCEPT ![u].active = TRUE]
  /\ UNCHANGED <<group, member, entitled, owner>>

(* Mutant: a soft delete leaves the templates alone.                       *)
ScimSets_Keeps(u, a) ==
  /\ Exists(u) /\ a # account[u].active
  /\ account' = [account EXCEPT ![u].active = a]
  /\ UNCHANGED <<group, member, entitled, owner>>
  /\ AdminRemains

(* The net effect of a PUT, a PATCH or a DELETE.                           *)
ScimSets(u, a) ==
  /\ Exists(u) /\ a # account[u].active
  /\ account' = [account EXCEPT ![u].active = a]
  /\ IF a THEN UNCHANGED owner ELSE Disown(u)
  /\ UNCHANGED <<group, member, entitled>>
  /\ AdminRemains

(* A new group, or a local one of the same name adopted.                   *)
ScimCreatesGroup(g, us) ==
  /\ g \in Groups => ~group[g].scim
  /\ group' = [group EXCEPT ![g] =
                 [role |-> IF g \in Groups THEN @.role ELSE None,
                  scim |-> TRUE]]
  /\ SetsMember(g, Added(member[g], us, "scim"))
  /\ UNCHANGED <<account, entitled, owner>>

(* Mutant: a replace clears the whole group.                               *)
_set_members_All(g, us, replace) ==
  Added(IF replace THEN Nobody ELSE member[g], us, "scim")

(* _set_members: a PATCH that adds, or a PUT or PATCH that replaces.       *)
_set_members(g, us, replace) ==
  Added(IF replace THEN Removed(member[g], Provisioned(g)) ELSE member[g],
        us, "scim")

ScimSetsMembers(g, us, replace) ==
  /\ g \in Groups
  /\ SetsMember(g, _set_members(g, us, replace))
  /\ UNCHANGED <<account, group, entitled, owner>>
  /\ AdminRemains

(* Mutant: the removal of members is not followed by the count.            *)
ScimRemovesMembers_Unchecked(g, us) ==
  /\ g \in Groups
  /\ SetsMember(g, Removed(member[g], IF us = {} THEN Provisioned(g) ELSE us))
  /\ UNCHANGED <<account, group, entitled, owner>>

(* _remove_members: those that it names, or all that SCIM put there.       *)
ScimRemovesMembers(g, us) ==
  /\ g \in Groups
  /\ SetsMember(g, Removed(member[g], IF us = {} THEN Provisioned(g) ELSE us))
  /\ UNCHANGED <<account, group, entitled, owner>>
  /\ AdminRemains

(* The grants of the group refer to it: while it has one, this fails.      *)
ScimDeletesGroup(g) ==
  /\ g \in Groups /\ g \notin entitled
  /\ group' = [group EXCEPT ![g] = None]
  /\ SetsMember(g, Nobody)
  /\ UNCHANGED <<account, entitled, owner>>
  /\ AdminRemains

Provisions ==
  /\ Edits
  /\ \/ \E a \in BOOLEAN : ScimCreatesUser(a)
     \/ \E u \in User : ScimReactivates(u)
     \/ \E u \in User, a \in BOOLEAN : ScimSets(u, a)
     \/ \E g \in Group, us \in SUBSET User : ScimCreatesGroup(g, us)
     \/ \E g \in Group, us \in SUBSET User, replace \in BOOLEAN :
          ScimSetsMembers(g, us, replace)
     \/ \E g \in Group, us \in SUBSET User : ScimRemovesMembers(g, us)
     \/ \E g \in Group : ScimDeletesGroup(g)
  /\ UNCHANGED <<session, begun, server>>

(***************************************************************************)
(* Sessions.  The moment between the read of an account's roles and the    *)
(* signing of a token is short beside a tick, and is not told apart.       *)
(***************************************************************************)

Issue(u, r) ==
  session' = [session EXCEPT ![u] =
                [access |-> r, age |-> 0, refresh |-> r]]

login(u) ==
  /\ Active(u)
  /\ Issue(u, resolve_active(available_roles(u), None))
  /\ UNCHANGED <<tables, owner, begun, server, edits>>

(* Mutant: a refresh honours the role in the refresh token.                *)
refresh_token_Claimed(u) ==
  /\ session[u].refresh # None /\ Active(u)
  /\ session' = [session EXCEPT ![u].access = session[u].refresh,
                                ![u].age = 0]
  /\ UNCHANGED <<tables, owner, begun, server, edits>>

refresh_token(u) ==
  /\ session[u].refresh # None /\ Active(u)
  /\ session' = [session EXCEPT ![u] =
       [access |-> resolve_active(available_roles(u), @.refresh),
        age |-> 0, refresh |-> @.refresh]]
  /\ UNCHANGED <<tables, owner, begun, server, edits>>

assume_role(u, r) ==
  /\ \E held \in Role : Holds(u, held)
  /\ Active(u) /\ r \in available_roles(u)
  /\ Issue(u, r)
  /\ UNCHANGED <<tables, owner, begun, server, edits>>

change_password(u) ==
  /\ \E held \in Role : Holds(u, held)
  /\ Active(u)
  /\ Issue(u, resolve_active(available_roles(u), session[u].access))
  /\ UNCHANGED <<tables, owner, begun, server, edits>>

(* Logging out, or a refresh token of its own age.                         *)
SessionEnds(u) ==
  /\ session[u] # SignedOut
  /\ session' = [session EXCEPT ![u] = SignedOut]
  /\ UNCHANGED <<tables, owner, begun, server, edits>>

(* The highest role that a group among those the provider names maps to.   *)
role_for_groups(gs, default) ==
  LET roles == {group[g].role : g \in gs \cap Groups}
  IN IF "admin" \in roles THEN "admin"
     ELSE IF "user" \in roles THEN "user" ELSE default

(* resolve_user and _complete_login, for an account that exists: the       *)
(* provider's groups write its own role, and nothing counts who is left.   *)
SsoLogin(u, gs) ==
  /\ Edits /\ Active(u)
  /\ account' = [account EXCEPT ![u].role = role_for_groups(gs, @)]
  /\ UNCHANGED <<group, member, entitled, owner, begun, server>>
  /\ Issue(u, resolve_active(available_roles(u)', None))

(* With auto-provisioning, for one that does not.                          *)
SsoProvisions(gs) ==
  /\ Edits
  /\ Insert(NewUser, role_for_groups(gs, DefaultRole), TRUE, FALSE)
  /\ Issue(NewUser, account'[NewUser].role)
  /\ UNCHANGED <<group, member, entitled, owner, begun, server>>

SignsIn ==
  /\ server = "up"
  /\ \/ \E u \in User : \/ login(u)
                        \/ refresh_token(u)
                        \/ \E r \in Role : assume_role(u, r)
                        \/ change_password(u)
                        \/ SessionEnds(u)
     \/ \E u \in User, gs \in SUBSET Group : SsoLogin(u, gs)
     \/ \E gs \in SUBSET Group : SsoProvisions(gs)

(***************************************************************************)
(* A template and its owner.                                               *)
(***************************************************************************)

(* effective_tenant_ids, for the one tenant.                               *)
Reaches(u) == u \in entitled \/ GroupsOf(u) \cap entitled # {}

create_template(u) ==
  /\ owner = Gone /\ Holds(u, "user") /\ Reaches(u)
  /\ owner' = u
  /\ UNCHANGED handover

(* can_manage: the owner's, or an admin's while there is none.             *)
delete_template(u) ==
  /\ \/ Holds(u, "user") /\ owner = u
     \/ Holds(u, "admin") /\ owner = None
  /\ owner' = Gone
  /\ UNCHANGED handover

(* update_template by an admin: the checks, and then the write.            *)
ChecksOwner(c, u) ==
  /\ Holds(c, "admin") /\ handover = None /\ owner = None
  /\ Active(u) /\ "user" \in available_roles(u)
  /\ handover' = u
  /\ UNCHANGED owner

WritesOwner ==
  /\ handover # None
  /\ owner' = IF owner = Gone THEN Gone ELSE handover
  /\ handover' = None

Templates ==
  /\ server = "up"
  /\ \/ \E u \in User : create_template(u) \/ delete_template(u)
     \/ \E c \in User, u \in User : ChecksOwner(c, u)
     \/ WritesOwner
  /\ UNCHANGED <<tables, session, closing, server, edits>>

(***************************************************************************)
(* Time, and the server's start.                                           *)
(***************************************************************************)

Capped(n) == IF n < AccessTTL THEN n ELSE AccessTTL

Tick ==
  /\ server = "up"
  /\ \E u \in User : Holds(u, "user") \/ Holds(u, "admin")
  /\ session' = [u \in User |-> [session[u] EXCEPT !.age =
                   IF session[u].access = None THEN 0 ELSE Capped(@ + 1)]]
  /\ UNCHANGED <<tables, owner, begun, server, edits>>

(* seed_admin_if_needed: only an own role counts, and the name may be      *)
(* taken, which fails the start.  A new start voids every token.           *)
Restart ==
  /\ Edits
  /\ session' = [u \in User |-> SignedOut]
  /\ handover' = None /\ closing' = None
  /\ IF \E u \in Users : Active(u) /\ account[u].role = "admin"
       THEN UNCHANGED <<account, server>>
     ELSE IF NameTaken
       THEN server' = "failed" /\ UNCHANGED account
     ELSE /\ Insert(NewUser, "admin", TRUE, TRUE)
          /\ UNCHANGED server
  /\ UNCHANGED <<group, member, entitled, owner>>

(* The first start seeds the first account.                                *)
Init ==
  /\ account = [u \in User |-> IF u = 1 THEN
                  [role |-> "admin", active |-> TRUE, seeded |-> TRUE]
                ELSE None]
  /\ group = [g \in Group |-> None]
  /\ member = [g \in Group |-> Nobody]
  /\ entitled = {}
  /\ session = [u \in User |-> SignedOut]
  /\ owner = Gone /\ handover = None /\ closing = None
  /\ server = "up"
  /\ late = FALSE
  /\ since = [u \in User |-> 0]
  /\ edits = 0

(* Whether an account is closed, or a request is about to close it.        *)
Leaving(u) == ~Active(u) \/ (closing # None /\ closing.user = u)

Next ==
  \/ /\ \/ Administers \/ AdminCloses \/ Provisions \/ SignsIn
        \/ Templates \/ Restart
     /\ since' = [u \in User |-> IF u \in admins' THEN 0 ELSE since[u]]
     /\ late' = IF owner' = owner THEN late
                ELSE owner' \in User /\ Leaving(owner')
  \/ /\ Tick
     /\ since' = [u \in User |-> IF u \in admins THEN 0
                                 ELSE Capped(since[u] + 1)]
     /\ UNCHANGED late

Spec == Init /\ [][Next]_vars

(***************************************************************************)
(* Properties.                                                             *)
(***************************************************************************)

(* Every table holds rows of its columns, no group that is gone has        *)
(* members, and one account at most has the name that the seed takes.      *)
TypeOK ==
  /\ account \in [User -> Row \cup {None}]
  /\ group \in [Group -> GroupRow \cup {None}]
  /\ member \in [Group -> [User -> {"no", "local", "scim"}]]
  /\ \A g \in Group : In(g) # {} => g \in Groups
  /\ entitled \subseteq User \cup Groups
  /\ session \in [User -> Session]
  /\ owner \in User \cup {None, Gone}
  /\ handover \in User \cup {None} /\ closing \in Closing \cup {None}
  /\ server \in {"up", "failed"}
  /\ late \in BOOLEAN /\ since \in [User -> 0..AccessTTL]
  /\ edits \in 0..MaxEdits
  /\ Cardinality({u \in Users : account[u].seeded}) <= 1

(* The assertion after the flush of every request that can take an         *)
(* administrator away, by an account's role, a group's or a membership:    *)
(* among all interleavings of administrators, the provisioning client and  *)
(* sessions with tokens that outlive a revocation, nothing but a sign-in   *)
(* through the identity provider leaves the install without one.           *)
AdminsLostOnlyBySso ==
  [][admins # {} /\ admins' = {}
       => \E u \in User, gs \in SUBSET Group : SsoLogin(u, gs)]_vars

(* A token that still acts as admin belongs to an account that could be an *)
(* admin when it was signed: a role taken away, by any of the ways there   *)
(* are, is exercised no longer than one access token lives, however often  *)
(* the session is refreshed in between.                                    *)
RevokedRolesExpire ==
  \A u \in User : Holds(u, "admin") => since[u] <= session[u].age

(* A membership that an administrator added by hand outlives every sync:   *)
(* it goes by hand, with its group, or when the identity provider names    *)
(* that very member (scim.py, _set_members and _remove_members).           *)
HandAddedStay ==
  [][\A g \in Group, u \in User :
       member[g][u] = "local" /\ member'[g][u] # "local"
         => \/ g \notin Groups'
            \/ remove_member(g, u)
            \/ \E us \in SUBSET User : u \in us /\ ScimRemovesMembers(g, us)]_vars

(* A template that nobody can manage, because its owner's account is       *)
(* closed, was given to that account when it was closed already or a       *)
(* request was about to close it: by a session or a hand-over that         *)
(* outlives the account, or between a closing's look for templates and its *)
(* flush.  What the account had before goes with it, whichever of admin.py *)
(* and scim.py closes it, in whatever order requests overlap, and however  *)
(* often it is closed, reopened, deleted and its id used again.            *)
ClosedOwnNothing == owner \in User /\ ~Active(owner) => late
=============================================================================
