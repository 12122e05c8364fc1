--------------------------- MODULE AccountsProofs ---------------------------
(***************************************************************************)
(* Proofs about Accounts, for any number of accounts, groups and requests  *)
(* and any life of a token: roles that were taken away expire, memberships *)
(* added by hand stay, a closed account owns nothing of what it had before *)
(* it was closed, and nothing but a sign-in through the identity provider  *)
(* takes the last administrator.                                           *)
(***************************************************************************)
EXTENDS Accounts, WellFoundedInduction, TLAPS

\* What the proofs need of the type invariant.
Typed ==
  /\ account \in [User -> Row \cup {None}]
  /\ group \in [Group -> GroupRow \cup {None}]
  /\ member \in [Group -> [User -> {"no", "local", "scim"}]]
  /\ session \in [User -> Session]
  /\ since \in [User -> 0..AccessTTL]

\* The template's owner and the requests that would change it.
OwnersTyped ==
  /\ owner \in User \cup {None, Gone}
  /\ handover \in User \cup {None}
  /\ closing \in Closing \cup {None}
  /\ late \in BOOLEAN

\* Of a token for an administrator: the account could be one when the token
\* was signed, and has not been for longer than that since.
Signed == \A u \in User : session[u].access = "admin" => since[u] <= session[u].age

AInv == Typed /\ OwnersTyped /\ Signed

-----------------------------------------------------------------------------
\* A set of naturals has a least element.
LEMMA LeastNat ==
  ASSUME NEW T \in SUBSET Nat, T # {}
  PROVE  \E x \in T : \A y \in T : x <= y
<1> DEFINE R == {p \in Nat \X Nat : p[1] < p[2]}
<1>1. IsWellFoundedOn(R, Nat)
  BY NatLessThanWellFounded DEF OpToRel
<1>2. \E x \in T : \A y \in T : ~(<<y, x>> \in R)
  BY <1>1, WFMin
<1>3. PICK x \in T : \A y \in T : ~(<<y, x>> \in R)
  BY <1>2
<1>4. \A y \in T : x <= y
  <2> TAKE y \in T
  <2>1. x \in Nat /\ y \in Nat
    OBVIOUS
  <2>2. <<y, x>> \notin R
    BY <1>3
  <2> QED
    BY <2>1, <2>2
<1> QED
  BY <1>4

\* The id that an insert takes is no account's.
LEMMA NewUserIsNew == NewUser \notin Users
<1> SUFFICES ASSUME Users # {} PROVE Max(Users) + 1 \notin Users
  BY DEF NewUser
<1> DEFINE T == {MaxUser - u : u \in Users}
<1>1. Users \subseteq 1..MaxUser /\ MaxUser \in Nat
  BY BoundsAssumption DEF Users, User
<1>2. T \in SUBSET Nat /\ T # {}
  <2>1. \A u \in Users : MaxUser - u \in Nat
    BY <1>1
  <2>2. T # {}
    OBVIOUS
  <2> QED
    BY <2>1, <2>2
<1>3. PICK t \in T : \A y \in T : t <= y
  BY <1>2, LeastNat
<1>4. PICK m \in Users : t = MaxUser - m
  OBVIOUS
<1>5. \A u \in Users : m >= u
  <2> TAKE u \in Users
  <2>1. MaxUser - m <= MaxUser - u
    BY <1>3, <1>4
  <2> QED
    BY <1>1, <2>1
<1>6. /\ Max(Users) \in Users
      /\ \A u \in Users : Max(Users) >= u
  BY <1>5 DEF Max
<1>7. ASSUME NEW n \in Users, \A u \in Users : n >= u
      PROVE  n + 1 \notin Users
  <2>1. n \in Nat
    BY <1>1
  <2> SUFFICES ASSUME n + 1 \in Users PROVE FALSE
    OBVIOUS
  <2>2. n >= n + 1
    BY <1>7
  <2> QED
    BY <2>1, <2>2
<1> QED
  BY <1>6, <1>7

\* What resolve_active answers is a role, and "admin" only if that is held.
LEMMA Resolved ==
  ASSUME NEW roles, roles \subseteq Role, roles # {},
         NEW r \in Role \cup {None}
  PROVE  /\ resolve_active(roles, r) \in Role
         /\ resolve_active(roles, r) = "admin" => "admin" \in roles
<1>1. None \notin roles
  BY NoneAssumption
<1>2. CASE r \in roles
  BY <1>2 DEF resolve_active
<1>3. CASE r \notin roles
  <2>1. CASE "user" \in roles
    BY <1>3, <2>1 DEF resolve_active, Role
  <2>2. CASE "user" \notin roles
    <3>1. "admin" \in roles
      BY <2>2 DEF Role
    <3> QED
      BY <1>3, <2>2, <3>1 DEF resolve_active, Role
  <2> QED
    BY <2>1, <2>2
<1> QED
  BY <1>2, <1>3

\* An active account holds some role.
LEMMA Available ==
  ASSUME Typed, NEW u \in User, Exists(u)
  PROVE  available_roles(u) \subseteq Role /\ available_roles(u) # {}
<1>1. account[u] \in Row
  BY DEF Typed, Exists
<1>2. account[u].role \in available_roles(u)
  BY <1>1, NoneAssumption DEF available_roles, Row
<1>3. \A g \in GroupsOf(u) : group[g] \in GroupRow
  BY DEF GroupsOf, Groups, Typed
<1>4. \A g \in GroupsOf(u) : group[g].role \in Role \cup {None}
  BY <1>3 DEF GroupRow
<1>5. account[u].role \in Role
  BY <1>1 DEF Row
<1> QED
  BY <1>2, <1>4, <1>5 DEF available_roles

LEMMA RoleOfGroups ==
  ASSUME NEW gs, NEW default \in Role
  PROVE  role_for_groups(gs, default) \in Role
BY DEF role_for_groups, Role

LEMMA CappedType ==
  ASSUME NEW n \in 0..AccessTTL
  PROVE  Capped(n + 1) \in 0..AccessTTL
BY BoundsAssumption DEF Capped

-----------------------------------------------------------------------------
\* Insert keeps the table well formed.
LEMMA InsertTyped ==
  ASSUME Typed, NEW u, NEW r \in Role, NEW a \in BOOLEAN,
         NEW named \in BOOLEAN, Insert(u, r, a, named)
  PROVE  account' \in [User -> Row \cup {None}]
<1>1. [role |-> r, active |-> a, seeded |-> named] \in Row
  BY DEF Row
<1> QED
  BY <1>1 DEF Insert, Typed

LEMMA AddedTyped ==
  ASSUME NEW ms \in [User -> {"no", "local", "scim"}], NEW us,
         NEW source \in {"local", "scim"}
  PROVE  Added(ms, us, source) \in [User -> {"no", "local", "scim"}]
BY DEF Added

LEMMA RemovedTyped ==
  ASSUME NEW ms \in [User -> {"no", "local", "scim"}], NEW us
  PROVE  Removed(ms, us) \in [User -> {"no", "local", "scim"}]
BY DEF Removed

LEMMA SetsTyped ==
  ASSUME Typed, NEW g \in Group, NEW ms \in [User -> {"no", "local", "scim"}],
         SetsMember(g, ms)
  PROVE  member' \in [Group -> [User -> {"no", "local", "scim"}]]
BY DEF SetsMember, Typed

LEMMA NobodyTyped == Nobody \in [User -> {"no", "local", "scim"}]
BY DEF Nobody

\* What the tables' requests leave of them.
TablesTyped ==
  /\ account \in [User -> Row \cup {None}]
  /\ group \in [Group -> GroupRow \cup {None}]
  /\ member \in [Group -> [User -> {"no", "local", "scim"}]]

LEMMA AdminRequestTyped ==
  ASSUME Typed, NEW c \in User, AdminRequest(c)
  PROVE  TablesTyped'
<1> USE DEF TablesTyped
<1>1. ASSUME NEW r \in Role, NEW named \in BOOLEAN, AdminCreates(r, named)
      PROVE  TablesTyped'
  BY <1>1, InsertTyped DEF AdminCreates, Typed
<1>2. ASSUME NEW u \in User, NEW r \in Role, NEW a \in BOOLEAN,
             AdminUpdates(c, u, r, a)
      PROVE  TablesTyped'
  <2>1. account[u] \in Row
    BY <1>2 DEF AdminUpdates, Exists, Typed
  <2>2. [account[u] EXCEPT !.role = r, !.active = a] \in Row
    BY <2>1 DEF Row
  <2>3. account' = [account EXCEPT ![u] = [account[u] EXCEPT !.role = r, !.active = a]]
    BY <1>2, <2>1 DEF AdminUpdates, Typed, Row
  <2> QED
    BY <1>2, <2>2, <2>3 DEF AdminUpdates, Typed
<1>4. ASSUME NEW g \in Group, NEW r \in Role \cup {None}, create_group(g, r)
      PROVE  TablesTyped'
  <2>1. [role |-> r, scim |-> FALSE] \in GroupRow
    BY DEF GroupRow
  <2> QED
    BY <1>4, <2>1 DEF create_group, Typed
<1>5. ASSUME NEW g \in Group, NEW r \in Role \cup {None}, update_group(g, r)
      PROVE  TablesTyped'
  <2>1. group[g] \in GroupRow
    BY <1>5 DEF update_group, Groups, Typed
  <2>2. [group[g] EXCEPT !.role = r] \in GroupRow
    BY <2>1 DEF GroupRow
  <2> QED
    BY <1>5, <2>2 DEF update_group, Typed
<1>6. ASSUME NEW g \in Group, delete_group(g)
      PROVE  TablesTyped'
  BY <1>6, SetsTyped, NobodyTyped DEF delete_group, Typed
<1>7. ASSUME NEW g \in Group, NEW us \in SUBSET User, add_members(g, us)
      PROVE  TablesTyped'
  <2>1. Added(member[g], us, "local") \in [User -> {"no", "local", "scim"}]
    BY AddedTyped DEF Typed
  <2> QED
    BY <1>7, <2>1, SetsTyped DEF add_members, Typed
<1>8. ASSUME NEW g \in Group, NEW u \in User, remove_member(g, u)
      PROVE  TablesTyped'
  <2>1. Removed(member[g], {u}) \in [User -> {"no", "local", "scim"}]
    BY RemovedTyped DEF Typed
  <2> QED
    BY <1>8, <2>1, SetsTyped DEF remove_member, Typed
<1>9. ASSUME NEW x, Entitles(x)
      PROVE  TablesTyped'
  BY <1>9 DEF Entitles, Typed
<1> QED
  BY <1>1, <1>2, <1>4, <1>5, <1>6, <1>7, <1>8, <1>9 DEF AdminRequest

LEMMA AdminClosesTyped ==
  ASSUME Typed, OwnersTyped, AdminCloses
  PROVE  TablesTyped'
<1> USE DEF TablesTyped
<1>1. CASE ClosingWrites
  <2>1. account[closing.user] \in Row
    BY <1>1 DEF ClosingWrites, Exists, Typed, OwnersTyped, Closing
  <2>2. [account[closing.user] EXCEPT !.active = FALSE] \in Row
    BY <2>1 DEF Row
  <2> QED
    BY <1>1, <2>2 DEF ClosingWrites, Typed
<1>2. CASE ClosingFails
  BY <1>2 DEF ClosingFails, tables, Typed
<1> QED
  BY <1>1, <1>2 DEF AdminCloses

LEMMA ProvisionsTyped ==
  ASSUME Typed, Provisions
  PROVE  TablesTyped'
<1> USE DEF TablesTyped
<1>1. ASSUME NEW a \in BOOLEAN, ScimCreatesUser(a)
      PROVE  TablesTyped'
  BY <1>1, InsertTyped, RoleAssumption DEF ScimCreatesUser, Typed
<1>2. ASSUME NEW u \in User, NEW a \in BOOLEAN, Exists(u),
             account' = [account EXCEPT ![u].active = a],
             UNCHANGED <<group, member>>
      PROVE  TablesTyped'
  <2>1. account[u] \in Row
    BY <1>2 DEF Exists, Typed
  <2>2. [account[u] EXCEPT !.active = a] \in Row
    BY <2>1 DEF Row
  <2> QED
    BY <1>2, <2>2 DEF Typed
<1>3. ASSUME NEW u \in User, ScimReactivates(u)
      PROVE  TablesTyped'
  BY <1>2, <1>3 DEF ScimReactivates
<1>4. ASSUME NEW u \in User, NEW a \in BOOLEAN, ScimSets(u, a)
      PROVE  TablesTyped'
  BY <1>2, <1>4 DEF ScimSets
<1>5. ASSUME NEW g \in Group, NEW us \in SUBSET User, ScimCreatesGroup(g, us)
      PROVE  TablesTyped'
  <2>1. [role |-> IF g \in Groups THEN group[g].role ELSE None,
         scim |-> TRUE] \in GroupRow
    BY DEF GroupRow, Groups, Typed
  <2>2. group' \in [Group -> GroupRow \cup {None}]
    BY <1>5, <2>1 DEF ScimCreatesGroup, Typed
  <2>3. Added(member[g], us, "scim") \in [User -> {"no", "local", "scim"}]
    BY AddedTyped DEF Typed
  <2> QED
    BY <1>5, <2>2, <2>3, SetsTyped DEF ScimCreatesGroup, Typed
<1>6. ASSUME NEW g \in Group, NEW us \in SUBSET User, NEW replace \in BOOLEAN,
             ScimSetsMembers(g, us, replace)
      PROVE  TablesTyped'
  <2>1. Removed(member[g], Provisioned(g)) \in [User -> {"no", "local", "scim"}]
    BY RemovedTyped DEF Typed
  <2>2. _set_members(g, us, replace) \in [User -> {"no", "local", "scim"}]
    BY <2>1, AddedTyped DEF _set_members, Typed
  <2> QED
    BY <1>6, <2>2, SetsTyped DEF ScimSetsMembers, Typed
<1>7. ASSUME NEW g \in Group, NEW us \in SUBSET User, ScimRemovesMembers(g, us)
      PROVE  TablesTyped'
  <2>1. \A some : Removed(member[g], some) \in [User -> {"no", "local", "scim"}]
    BY RemovedTyped DEF Typed
  <2> QED
    BY <1>7, <2>1, SetsTyped DEF ScimRemovesMembers, Typed
<1>8. ASSUME NEW g \in Group, ScimDeletesGroup(g)
      PROVE  TablesTyped'
  BY <1>8, SetsTyped, NobodyTyped DEF ScimDeletesGroup, Typed
<1> QED
  BY <1>1, <1>3, <1>4, <1>5, <1>6, <1>7, <1>8 DEF Provisions

-----------------------------------------------------------------------------
\* A sign-in leaves sessions well formed, and a token for an administrator
\* is signed only for one.
SessionsHold ==
  /\ session' \in [User -> Session]
  /\ \A u \in User :
       \/ session'[u] = session[u]
       \/ session'[u] = SignedOut
       \/ session'[u].access = "admin" => u \in admins'

LEMMA SignedOutTyped == SignedOut \in Session
BY BoundsAssumption DEF SignedOut, Session

LEMMA IssueHolds ==
  ASSUME Typed, NEW u \in User, NEW r \in Role, Issue(u, r),
         r = "admin" => u \in admins'
  PROVE  SessionsHold
<1>1. [access |-> r, age |-> 0, refresh |-> r] \in Session
  BY BoundsAssumption DEF Session
<1>2. session' \in [User -> Session]
  BY <1>1 DEF Issue, Typed
<1>3. \A v \in User \ {u} : session'[v] = session[v]
  BY DEF Issue, Typed
<1>4. session'[u].access = r
  BY DEF Issue, Typed
<1> QED
  BY <1>2, <1>3, <1>4 DEF SessionsHold

\* Who holds the role in tables that do not change is an administrator.
LEMMA HolderStays ==
  ASSUME NEW u \in User, Active(u), "admin" \in available_roles(u),
         UNCHANGED tables
  PROVE  u \in admins'
<1>1. u \in admins
  BY DEF admins
<1>2. admins' = admins
  BY DEF tables, admins, Active, Exists, available_roles, GroupsOf, Groups, In
<1> QED
  BY <1>1, <1>2

\* The requests of auth.py.
AuthRequest(u) ==
  \/ login(u)
  \/ refresh_token(u)
  \/ \E r \in Role : assume_role(u, r)
  \/ change_password(u)
  \/ SessionEnds(u)

LEMMA AuthHolds ==
  ASSUME Typed, NEW u \in User, AuthRequest(u)
  PROVE  SessionsHold /\ UNCHANGED tables
<1>1. session[u] \in Session
  BY DEF Typed
<1>2. Active(u) => available_roles(u) \subseteq Role /\ available_roles(u) # {}
  BY Available DEF Active
<1>3. CASE login(u)
  BY <1>2, <1>3, Resolved, IssueHolds, HolderStays DEF login
<1>4. CASE refresh_token(u)
  <2> DEFINE r == resolve_active(available_roles(u), session[u].refresh)
  <2>1. r \in Role /\ (r = "admin" => u \in admins')
    BY <1>1, <1>2, <1>4, Resolved, HolderStays DEF refresh_token, Session
  <2> HIDE DEF r
  <2> DEFINE new == [access |-> r, age |-> 0, refresh |-> session[u].refresh]
  <2>3. session' = [session EXCEPT ![u] = new]
    BY <1>4 DEF refresh_token, r
  <2>4. new \in Session /\ session'[u] = new /\ session'[u].access = r
    BY <1>1, <2>1, <2>3, BoundsAssumption DEF Typed, Session
  <2>5. session' \in [User -> Session]
    BY <2>3, <2>4 DEF Typed
  <2>6. \A v \in User \ {u} : session'[v] = session[v]
    BY <2>3 DEF Typed
  <2> QED
    BY <1>4, <2>1, <2>4, <2>5, <2>6 DEF refresh_token, SessionsHold
<1>5. ASSUME NEW r \in Role, assume_role(u, r)
      PROVE  SessionsHold /\ UNCHANGED tables
  BY <1>5, IssueHolds, HolderStays DEF assume_role
<1>6. CASE change_password(u)
  <2>1. session[u].access \in Role \cup {None}
    BY <1>1 DEF Session
  <2> QED
    BY <1>2, <1>6, <2>1, Resolved, IssueHolds, HolderStays DEF change_password
<1>7. CASE SessionEnds(u)
  BY <1>7, SignedOutTyped DEF SessionEnds, SessionsHold, Typed
<1> QED
  BY <1>3, <1>4, <1>5, <1>6, <1>7 DEF AuthRequest

LEMMA SsoLoginHolds ==
  ASSUME Typed, NEW u \in User, NEW gs \in SUBSET Group, SsoLogin(u, gs)
  PROVE  TablesTyped' /\ SessionsHold
<1> DEFINE own == role_for_groups(gs, account[u].role)
           roles == available_roles(u)'
<1>1. account[u] \in Row /\ account[u].active
  BY DEF SsoLogin, Active, Exists, Typed
<1>2. own \in Role
  BY <1>1, RoleOfGroups DEF Row
<1> HIDE DEF own
<1>3. account' = [account EXCEPT ![u].role = own] /\ UNCHANGED <<group, member>>
  BY DEF SsoLogin, own
<1>4. [account[u] EXCEPT !.role = own] \in Row
  BY <1>1, <1>2 DEF Row
<1>5. TablesTyped'
  BY <1>3, <1>4 DEF TablesTyped, Typed
<1>6. account'[u] \in Row /\ account'[u].role = own /\ account'[u].active
  BY <1>1, <1>2, <1>3 DEF Typed, Row
<1>7. own \in roles
  BY <1>2, <1>6, NoneAssumption DEF available_roles
<1>8. roles \subseteq Role
  <2>1. \A g \in Group : group[g] # None => group[g].role \in Role \cup {None}
    BY DEF Typed, GroupRow
  <2> QED
    BY <1>2, <1>3, <1>6, <2>1 DEF available_roles, GroupsOf, Groups
<1>9. Active(u)'
  BY <1>6, RowAssumption DEF Active, Exists
<1>10. "admin" \in roles => u \in admins'
  BY <1>9 DEF admins
<1> HIDE DEF roles
<1>11. Issue(u, resolve_active(roles, None))
  BY DEF SsoLogin, roles
<1>12. SessionsHold
  BY <1>7, <1>8, <1>10, <1>11, Resolved, IssueHolds
<1> QED
  BY <1>5, <1>12

LEMMA SsoProvisionsHolds ==
  ASSUME Typed, NEW gs \in SUBSET Group, SsoProvisions(gs)
  PROVE  TablesTyped' /\ SessionsHold
<1> DEFINE own == role_for_groups(gs, DefaultRole)
<1>1. own \in Role
  BY RoleOfGroups, RoleAssumption
<1> HIDE DEF own
<1>2. PICK u \in User : /\ Insert(u, own, TRUE, FALSE)
                        /\ Issue(u, account'[u].role)
                        /\ UNCHANGED <<group, member>>
  BY DEF SsoProvisions, own, Insert
<1>3. account'[u] = [role |-> own, active |-> TRUE, seeded |-> FALSE]
  BY <1>2 DEF Insert, Typed
<1>4. TablesTyped'
  BY <1>1, <1>2, InsertTyped DEF TablesTyped, Typed
<1>5. account'[u] \in Row
  BY <1>1, <1>3 DEF Row
<1>6. Active(u)' /\ own \in available_roles(u)'
  <2>1. account'[u].role = own /\ account'[u].active
    BY <1>3
  <2>2. account'[u] # None /\ own # None
    BY <1>1, <1>5, RowAssumption, NoneAssumption
  <2> QED
    BY <2>1, <2>2 DEF Active, Exists, available_roles
<1>7. own = "admin" => u \in admins'
  BY <1>6 DEF admins
<1>8. SessionsHold
  BY <1>1, <1>2, <1>3, <1>7, IssueHolds
<1> QED
  BY <1>4, <1>8

LEMMA RestartHolds ==
  ASSUME Typed, Restart
  PROVE  TablesTyped' /\ SessionsHold
<1>1. SessionsHold
  BY SignedOutTyped DEF Restart, SessionsHold
<1>2. account' = account \/ Insert(NewUser, "admin", TRUE, TRUE)
  BY DEF Restart
<1>3. account' \in [User -> Row \cup {None}]
  BY <1>2, InsertTyped DEF Typed, Role
<1> QED
  BY <1>1, <1>3 DEF Restart, TablesTyped, Typed

\* What every step but the passing of time does to a session.
LEMMA StepHolds ==
  ASSUME Typed, OwnersTyped,
         \/ Administers \/ AdminCloses \/ Provisions \/ SignsIn
         \/ Templates \/ Restart
  PROVE  TablesTyped' /\ SessionsHold
<1>0. UNCHANGED session => SessionsHold
  BY DEF SessionsHold, Typed
<1>3. UNCHANGED tables => TablesTyped'
  BY DEF tables, TablesTyped, Typed
<1>1. CASE Administers
  BY <1>0, <1>1, <1>3, AdminRequestTyped DEF Administers, ClosingLooks
<1>2. CASE Provisions
  BY <1>0, <1>2, ProvisionsTyped DEF Provisions
<1>7. CASE AdminCloses
  BY <1>0, <1>7, AdminClosesTyped DEF AdminCloses
<1>4. CASE SignsIn
  <2>1. ASSUME NEW u \in User, AuthRequest(u)
        PROVE  TablesTyped' /\ SessionsHold
    BY <1>3, <2>1, AuthHolds
  <2> QED
    BY <1>4, <2>1, SsoLoginHolds, SsoProvisionsHolds DEF SignsIn, AuthRequest
<1>5. CASE Templates
  BY <1>0, <1>3, <1>5 DEF Templates
<1>6. CASE Restart
  BY <1>6, RestartHolds
<1> QED
  BY <1>1, <1>2, <1>4, <1>5, <1>6, <1>7

-----------------------------------------------------------------------------
\* What a step does to the owner: requests that close accounts take it away,
\* and those about templates change it and nothing else.
Moves ==
  /\ owner' \in {owner, None} \/ (Templates /\ owner' \in User \cup {Gone})
  /\ handover' \in User \cup {None}
  /\ \/ closing' \in {closing, None}
     \/ \E c, u \in User, deletes \in BOOLEAN : ClosingLooks(c, u, deletes)

LEMMA AdministersMoves ==
  ASSUME OwnersTyped, Administers PROVE Moves
<1>1. \/ UNCHANGED closing
      \/ \E c, u \in User, deletes \in BOOLEAN : ClosingLooks(c, u, deletes)
  BY DEF Administers
<1>2. ASSUME NEW c \in User, AdminRequest(c)
      PROVE  owner' \in {owner, None}
  BY <1>2 DEF AdminRequest, AdminCreates, AdminUpdates, Disown, create_group,
              update_group, delete_group, add_members, remove_member, Entitles
<1>3. owner' \in {owner, None}
  BY <1>2 DEF Administers, ClosingLooks
<1> QED
  BY <1>1, <1>3 DEF Administers, Moves, OwnersTyped

LEMMA SignsInMoves ==
  ASSUME OwnersTyped, SignsIn PROVE Moves
<1>1. UNCHANGED <<owner, begun>>
  BY DEF SignsIn, login, refresh_token, assume_role, change_password, SessionEnds,
         SsoLogin, SsoProvisions
<1> QED
  BY <1>1 DEF begun, Moves, OwnersTyped

LEMMA TemplatesMoves ==
  ASSUME OwnersTyped, Templates PROVE Moves
<1>1. owner' \in User \cup {Gone, owner} /\ handover' \in User \cup {None}
  BY DEF Templates, create_template, delete_template, ChecksOwner, WritesOwner,
         OwnersTyped
<1> QED
  BY <1>1 DEF Templates, Moves

LEMMA OthersMove ==
  ASSUME OwnersTyped, AdminCloses \/ Provisions \/ Restart \/ Tick PROVE Moves
<1>1. CASE Provisions
  <2>1. owner' \in {owner, None}
    BY <1>1 DEF Provisions, ScimCreatesUser, ScimReactivates, ScimSets, Disown,
                ScimCreatesGroup, ScimSetsMembers, ScimRemovesMembers,
                ScimDeletesGroup
  <2> QED
    BY <1>1, <2>1 DEF Provisions, begun, Moves, OwnersTyped
<1>2. CASE AdminCloses \/ Restart \/ Tick
  BY <1>2 DEF AdminCloses, ClosingWrites, ClosingFails, Restart, Tick, begun,
              Moves, OwnersTyped
<1> QED
  BY <1>1, <1>2

LEMMA NextMoves ==
  ASSUME OwnersTyped, Next PROVE Moves
BY AdministersMoves, SignsInMoves, TemplatesMoves, OthersMove DEF Next

LEMMA OwnersKeep ==
  ASSUME OwnersTyped, [Next]_vars PROVE OwnersTyped'
<1>1. CASE Next
  <2>1. Moves
    BY <1>1, NextMoves
  <2>2. owner' \in User \cup {None, Gone} /\ handover' \in User \cup {None}
    BY <2>1 DEF Moves, OwnersTyped
  <2>3. ASSUME NEW c \in User, NEW u \in User, NEW deletes \in BOOLEAN,
               ClosingLooks(c, u, deletes)
        PROVE  closing' \in Closing
    <3>1. (owner = u) \in BOOLEAN
      OBVIOUS
    <3> QED
      BY <2>3, <3>1 DEF ClosingLooks, Closing
  <2>4. closing' \in Closing \cup {None}
    BY <2>1, <2>3 DEF Moves, OwnersTyped
  <2>5. late' \in BOOLEAN
    <3>1. (owner' \in User /\ Leaving(owner')) \in BOOLEAN
      OBVIOUS
    <3> QED
      BY <1>1, <3>1 DEF Next, OwnersTyped
  <2> QED
    BY <2>2, <2>4, <2>5 DEF OwnersTyped
<1>2. CASE UNCHANGED vars
  BY <1>2 DEF vars, OwnersTyped
<1> QED
  BY <1>1, <1>2

-----------------------------------------------------------------------------
\* The invariant holds at first and is kept.
LEMMA InitInv == Init => AInv
<1> SUFFICES ASSUME Init PROVE AInv
  OBVIOUS
<1>1. [role |-> "admin", active |-> TRUE, seeded |-> TRUE] \in Row
  BY DEF Row, Role
<1>2. account \in [User -> Row \cup {None}]
  BY <1>1 DEF Init
<1>3. Typed
  BY <1>2, NobodyTyped, SignedOutTyped, BoundsAssumption DEF Init, Typed
<1>4. Signed
  BY NoneAssumption DEF Init, Signed, SignedOut, Role
<1>5. OwnersTyped
  BY DEF Init, OwnersTyped
<1> QED
  BY <1>3, <1>4, <1>5 DEF AInv

LEMMA NextInv == AInv /\ [Next]_vars => AInv'
<1> SUFFICES ASSUME AInv, [Next]_vars PROVE AInv'
  OBVIOUS
<1> USE DEF AInv
<1>0. OwnersTyped'
  BY OwnersKeep
<1>1. CASE /\ \/ Administers \/ AdminCloses \/ Provisions \/ SignsIn
              \/ Templates \/ Restart
           /\ since' = [u \in User |-> IF u \in admins' THEN 0 ELSE since[u]]
  <2>1. TablesTyped' /\ SessionsHold
    BY <1>1, StepHolds
  <2>2. Typed'
    BY <1>1, <2>1, BoundsAssumption DEF Typed, TablesTyped, SessionsHold
  <2>3. ASSUME NEW u \in User, session'[u].access = "admin"
        PROVE  since'[u] <= session'[u].age
    <3>1. session'[u].age \in 0..AccessTTL /\ since[u] \in 0..AccessTTL
      BY <2>2 DEF Typed, Session
    <3>2. since'[u] = 0 \/ since'[u] = since[u]
      BY <1>1
    <3>3. CASE session'[u] = session[u]
      <4>1. since[u] <= session'[u].age
        BY <2>3, <3>3 DEF Signed
      <4> QED
        BY <3>1, <3>2, <4>1
    <3>4. CASE session'[u] = SignedOut
      BY <2>3, <3>4, NoneAssumption DEF SignedOut, Role
    <3>5. CASE u \in admins'
      BY <1>1, <3>1, <3>5
    <3> QED
      BY <2>1, <2>3, <3>3, <3>4, <3>5 DEF SessionsHold
  <2> QED
    BY <1>0, <2>2, <2>3 DEF Signed
<1>2. CASE /\ Tick
           /\ since' = [u \in User |-> IF u \in admins THEN 0 ELSE Capped(since[u] + 1)]
  <2> DEFINE age(u) == IF session[u].access = None THEN 0
                       ELSE Capped(session[u].age + 1)
  <2>1. \A u \in User : session[u] \in Session /\ since[u] \in 0..AccessTTL
    BY DEF Typed
  <2>2. \A u \in User : age(u) \in 0..AccessTTL /\ Capped(since[u] + 1) \in 0..AccessTTL
    BY <2>1, CappedType, BoundsAssumption DEF Session
  <2>3. session' = [u \in User |-> [session[u] EXCEPT !.age = age(u)]]
    BY <1>2 DEF Tick
  <2>4. Typed'
    <3>1. \A u \in User : [session[u] EXCEPT !.age = age(u)] \in Session
      BY <2>1, <2>2 DEF Session
    <3>2. session' \in [User -> Session]
      BY <2>3, <3>1
    <3>3. since' \in [User -> 0..AccessTTL]
      BY <1>2, <2>2, BoundsAssumption
    <3> QED
      BY <1>2, <3>2, <3>3 DEF Tick, tables, Typed
  <2>5. ASSUME NEW u \in User, session'[u].access = "admin"
        PROVE  since'[u] <= session'[u].age
    <3>1. session'[u].access = session[u].access /\ session'[u].age = age(u)
      BY <2>1, <2>3 DEF Session
    <3>2. since[u] <= session[u].age
      BY <2>5, <3>1 DEF Signed
    <3>3. age(u) = Capped(session[u].age + 1)
      BY <2>5, <3>1, NoneAssumption DEF Role
    <3>4. since[u] \in Nat /\ session[u].age \in Nat /\ AccessTTL \in Nat
      BY <2>1, BoundsAssumption DEF Session
    <3>5. Capped(since[u] + 1) <= Capped(session[u].age + 1)
      BY <3>2, <3>4 DEF Capped
    <3>6. age(u) >= 0
      BY <2>2
    <3> QED
      BY <1>2, <3>1, <3>3, <3>5, <3>6
  <2> QED
    BY <1>0, <2>4, <2>5 DEF Signed
<1>3. CASE UNCHANGED vars
  BY <1>0, <1>3 DEF vars, tables, Typed, Signed
<1> QED
  BY <1>1, <1>2, <1>3 DEF Next

\* Every account, group, membership and session is well formed and every
\* admin's token was signed while its account could be one.
THEOREM Inductive == Spec => []AInv
BY InitInv, NextInv, PTL DEF Spec

\* However roles are taken away and sessions refreshed, a role that was
\* taken away is exercised no longer than one access token lives (auth.py).
THEOREM Expiry == Spec => []RevokedRolesExpire
<1>1. AInv => RevokedRolesExpire
  BY DEF AInv, Signed, RevokedRolesExpire, Holds
<1> QED
  BY <1>1, Inductive, PTL

-----------------------------------------------------------------------------
\* Memberships added by hand.

\* The members of groups that a step loses.
Lost(g, u) == member[g][u] = "local" /\ member'[g][u] # "local"

LEMMA AddedKeeps ==
  ASSUME NEW ms, NEW us, NEW source, NEW u \in User, ms[u] = "local"
  PROVE  Added(ms, us, source)[u] = "local"
BY DEF Added

LEMMA RemovedKeeps ==
  ASSUME NEW ms, NEW us, NEW u \in User, u \notin us
  PROVE  Removed(ms, us)[u] = ms[u]
BY DEF Removed

LEMMA SetsOne ==
  ASSUME Typed, NEW h \in Group, NEW ms, SetsMember(h, ms), NEW g \in Group
  PROVE  member'[g] = IF g = h THEN ms ELSE member[g]
BY DEF SetsMember, Typed

\* Why a membership that was added by hand goes.
Excused(g, u) ==
  \/ g \notin Groups'
  \/ remove_member(g, u)
  \/ \E us \in SUBSET User : u \in us /\ ScimRemovesMembers(g, us)

LEMMA AdminKeepsHand ==
  ASSUME Typed, NEW c \in User, AdminRequest(c),
         NEW g \in Group, NEW u \in User, Lost(g, u)
  PROVE  Excused(g, u)
<1>1. CASE UNCHANGED member
  BY <1>1 DEF Lost
<1>2. ASSUME NEW h \in Group, delete_group(h)
      PROVE  Excused(g, u)
  <2>1. g = h
    BY <1>2, SetsOne DEF delete_group, Lost
  <2>2. group'[g] = None
    BY <1>2, <2>1 DEF delete_group, Typed
  <2> QED
    BY <2>2 DEF Excused, Groups
<1>3. ASSUME NEW h \in Group, NEW us \in SUBSET User, add_members(h, us)
      PROVE  Excused(g, u)
  BY <1>3, SetsOne, AddedKeeps DEF add_members, Lost
<1>4. ASSUME NEW h \in Group, NEW v \in User, remove_member(h, v)
      PROVE  Excused(g, u)
  <2>1. member'[g] = IF g = h THEN Removed(member[h], {v}) ELSE member[g]
    BY <1>4, SetsOne DEF remove_member
  <2>2. g = h /\ u = v
    BY <2>1, RemovedKeeps DEF Lost
  <2> QED
    BY <1>4, <2>2 DEF Excused
<1> QED
  BY <1>1, <1>2, <1>3, <1>4
     DEF AdminRequest, AdminCreates, AdminUpdates, create_group, update_group,
         Entitles

LEMMA ScimKeepsHand ==
  ASSUME Typed, Provisions, NEW g \in Group, NEW u \in User, Lost(g, u)
  PROVE  Excused(g, u)
<1>1. CASE UNCHANGED member
  BY <1>1 DEF Lost
<1>2. ASSUME NEW h \in Group, NEW us \in SUBSET User, ScimCreatesGroup(h, us)
      PROVE  Excused(g, u)
  BY <1>2, SetsOne, AddedKeeps DEF ScimCreatesGroup, Lost
<1>3. ASSUME NEW h \in Group, NEW us \in SUBSET User, NEW replace \in BOOLEAN,
             ScimSetsMembers(h, us, replace)
      PROVE  Excused(g, u)
  <2>1. member'[g] = IF g = h THEN _set_members(h, us, replace) ELSE member[g]
    BY <1>3, SetsOne DEF ScimSetsMembers
  <2>2. u \notin Provisioned(g)
    BY DEF Lost, Provisioned
  <2>3. Removed(member[g], Provisioned(g))[u] = "local"
    BY <2>2, RemovedKeeps DEF Lost
  <2>4. _set_members(g, us, replace)[u] = "local"
    BY <2>3, AddedKeeps DEF _set_members, Lost
  <2> QED
    BY <2>1, <2>4 DEF Lost
<1>4. ASSUME NEW h \in Group, NEW us \in SUBSET User, ScimRemovesMembers(h, us)
      PROVE  Excused(g, u)
  <2> DEFINE out == IF us = {} THEN Provisioned(h) ELSE us
  <2>1. member'[g] = IF g = h THEN Removed(member[h], out) ELSE member[g]
    BY <1>4, SetsOne DEF ScimRemovesMembers
  <2>2. g = h /\ u \in out
    BY <2>1, RemovedKeeps DEF Lost
  <2>3. u \in us
    BY <2>2 DEF Provisioned, Lost
  <2> QED
    BY <1>4, <2>2, <2>3 DEF Excused
<1>5. ASSUME NEW h \in Group, ScimDeletesGroup(h)
      PROVE  Excused(g, u)
  <2>1. g = h
    BY <1>5, SetsOne DEF ScimDeletesGroup, Lost
  <2>2. group'[g] = None
    BY <1>5, <2>1 DEF ScimDeletesGroup, Typed
  <2> QED
    BY <2>2 DEF Excused, Groups
<1> QED
  BY <1>1, <1>2, <1>3, <1>4, <1>5
     DEF Provisions, ScimCreatesUser, ScimReactivates, ScimSets

\* Requests that neither an administrator nor the SCIM client makes leave
\* groups and memberships alone.
LEMMA OthersKeepGroups ==
  ASSUME Next, ~Administers, ~Provisions
  PROVE  UNCHANGED <<group, member>>
<1>1. CASE SignsIn
  BY <1>1 DEF SignsIn, login, refresh_token, assume_role, change_password,
              SessionEnds, SsoLogin, SsoProvisions, tables
<1>2. CASE AdminCloses \/ Templates \/ Restart \/ Tick
  BY <1>2 DEF AdminCloses, ClosingWrites, ClosingFails, Templates, Restart, Tick,
              tables
<1> QED
  BY <1>1, <1>2 DEF Next

\* Whatever administrators and the identity provider do, a membership that
\* was added by hand goes by hand, with its group, or by name (scim.py).
THEOREM HandAdded == Spec => HandAddedStay
<1>1. ASSUME AInv, [Next]_vars, NEW g \in Group, NEW u \in User, Lost(g, u)
      PROVE  Excused(g, u)
  <2>1. CASE Administers
    <3>1. ASSUME NEW c \in User, NEW v \in User, NEW deletes \in BOOLEAN,
                 ClosingLooks(c, v, deletes)
          PROVE  FALSE
      BY <1>1, <3>1 DEF ClosingLooks, tables, Lost
    <3> QED
      BY <1>1, <2>1, <3>1, AdminKeepsHand DEF Administers, AInv
  <2>2. CASE Provisions
    BY <1>1, <2>2, ScimKeepsHand DEF AInv
  <2>3. CASE UNCHANGED <<group, member>>
    BY <1>1, <2>3 DEF Lost
  <2> QED
    BY <1>1, <2>1, <2>2, <2>3, OthersKeepGroups DEF vars, tables
<1>2. AInv /\ [Next]_vars =>
        [\A g \in Group, u \in User :
           member[g][u] = "local" /\ member'[g][u] # "local"
             => \/ g \notin Groups'
                \/ remove_member(g, u)
                \/ \E us \in SUBSET User : u \in us /\ ScimRemovesMembers(g, us)]_vars
  BY <1>1 DEF Lost, Excused
<1> QED
  BY <1>2, Inductive, PTL DEF Spec, HandAddedStay

-----------------------------------------------------------------------------
\* An insert touches no account there is.
LEMMA InsertKeeps ==
  ASSUME Typed, NEW r, NEW a, NEW named, Insert(NewUser, r, a, named),
         NEW v \in Users
  PROVE  account'[v] = account[v]
<1>1. v # NewUser
  BY NewUserIsNew
<1> QED
  BY <1>1 DEF Insert, Typed, Users

-----------------------------------------------------------------------------
\* Templates of closed accounts.

Closes(u) == Active(u) /\ ~Active(u)'

LEMMA NoneIsNobody == \A u \in User : None # u
BY NoneAssumption

LEMMA DisownDisowns ==
  ASSUME NEW u \in User, Disown(u) PROVE owner' # u
BY NoneIsNobody DEF Disown

LEMMA InsertClosesNone ==
  ASSUME Typed, NEW r, NEW a, NEW named, Insert(NewUser, r, a, named),
         NEW u \in User
  PROVE  ~Closes(u)
<1> SUFFICES ASSUME Active(u) PROVE Active(u)'
  BY DEF Closes
<1>1. account'[u] = account[u]
  BY InsertKeeps DEF Active, Exists, Users
<1> QED
  BY <1>1 DEF Active, Exists

LEMMA SameClosesNone ==
  ASSUME NEW u \in User, account'[u] = account[u]
  PROVE  ~Closes(u)
BY DEF Closes, Active, Exists

LEMMA AdminClosing ==
  ASSUME Typed, NEW c \in User, AdminRequest(c), NEW u \in User, Closes(u)
  PROVE  owner' # u
<1>1. ASSUME NEW v \in User, NEW r \in Role, NEW a \in BOOLEAN,
             AdminUpdates(c, v, r, a)
      PROVE  owner' # u
  <2>1. account[v] \in Row
    BY <1>1 DEF AdminUpdates, Exists, Typed
  <2>2. account' = [account EXCEPT ![v] = [account[v] EXCEPT !.role = r, !.active = a]]
    BY <1>1, <2>1 DEF AdminUpdates, Typed, Row
  <2>3. u = v
    BY <2>2, SameClosesNone DEF Typed
  <2>4. [account[v] EXCEPT !.role = r, !.active = a] \in Row
    BY <2>1 DEF Row
  <2>5. account'[v] \in Row /\ account'[v].active = a
    BY <2>1, <2>2, <2>4 DEF Typed, Row
  <2>6. account'[v] # None
    BY <2>5, RowAssumption
  <2>7. ~a
    BY <2>3, <2>5, <2>6 DEF Closes, Active, Exists
  <2> QED
    BY <1>1, <2>3, <2>7, DisownDisowns DEF AdminUpdates, Closes
<1> QED
  BY <1>1, InsertClosesNone, SameClosesNone
     DEF AdminRequest, AdminCreates, create_group, update_group, delete_group,
         add_members, remove_member, Entitles

LEMMA ScimClosing ==
  ASSUME Typed, Provisions, NEW u \in User, Closes(u)
  PROVE  owner' # u
<1>1. ASSUME NEW v \in User, NEW a \in BOOLEAN, Exists(v),
             account' = [account EXCEPT ![v].active = a]
      PROVE  u = v /\ ~a
  <2>1. account[v] \in Row
    BY <1>1 DEF Exists, Typed
  <2>2. u = v
    BY <1>1, SameClosesNone DEF Typed
  <2>3. [account[v] EXCEPT !.active = a] \in Row
    BY <2>1 DEF Row
  <2>4. account'[v] \in Row /\ account'[v].active = a
    BY <1>1, <2>1, <2>3 DEF Typed, Row
  <2>5. account'[v] # None
    BY <2>4, RowAssumption
  <2> QED
    BY <2>2, <2>4, <2>5 DEF Closes, Active, Exists
<1>2. ASSUME NEW v \in User, ScimReactivates(v)
      PROVE  FALSE
  BY <1>1, <1>2 DEF ScimReactivates
<1>3. ASSUME NEW v \in User, NEW a \in BOOLEAN, ScimSets(v, a)
      PROVE  owner' # u
  BY <1>1, <1>3, DisownDisowns DEF ScimSets
<1> QED
  BY <1>2, <1>3, InsertClosesNone, SameClosesNone
     DEF Provisions, ScimCreatesUser, ScimCreatesGroup, ScimSetsMembers,
         ScimRemovesMembers, ScimDeletesGroup

\* Neither sign-ins nor restarts close an account.
LEMMA OthersClosing ==
  ASSUME Typed, SignsIn \/ Templates \/ Restart \/ Tick, NEW u \in User
  PROVE  ~Closes(u)
<1>1. ASSUME NEW v \in User, NEW gs \in SUBSET Group, SsoLogin(v, gs)
      PROVE  ~Closes(u)
  <2> DEFINE own == role_for_groups(gs, account[v].role)
  <2>1. account[v] \in Row /\ account[v].active
    BY <1>1 DEF SsoLogin, Active, Exists, Typed
  <2>2. own \in Role
    BY <2>1, RoleOfGroups DEF Row
  <2> HIDE DEF own
  <2>3. account' = [account EXCEPT ![v].role = own]
    BY <1>1 DEF SsoLogin, own
  <2>4. [account[v] EXCEPT !.role = own] \in Row
    BY <2>1, <2>2 DEF Row
  <2>5. account'[v] \in Row /\ account'[v].active
    BY <2>1, <2>3, <2>4 DEF Typed, Row
  <2>6. Active(v)'
    BY <2>5, RowAssumption DEF Active, Exists
  <2> QED
    BY <2>3, <2>6, SameClosesNone DEF Closes, Typed
<1>2. CASE SignsIn
  <2>1. ASSUME NEW v \in User, AuthRequest(v)
        PROVE  UNCHANGED account
    BY <2>1, AuthHolds DEF tables
  <2> QED
    BY <1>1, <1>2, <2>1, InsertClosesNone, SameClosesNone
       DEF SignsIn, AuthRequest, SsoProvisions
<1>3. CASE Restart
  BY <1>3, InsertClosesNone, SameClosesNone DEF Restart
<1>4. CASE Templates \/ Tick
  BY <1>4, SameClosesNone DEF Templates, Tick, tables
<1> QED
  BY <1>2, <1>3, <1>4 DEF Next

\* What a closed account owns came late, and the request that is about to
\* close an account has found what came before.
Given ==
  /\ owner \in User /\ ~Active(owner) => late
  /\ closing # None /\ owner = closing.user => late \/ closing.owned

\* A step that closes the owner's account takes the template away, unless it
\* came late.
LEMMA ClosingTakes ==
  ASSUME AInv, Given, Next, NEW u \in User, Closes(u), owner = u, owner' = u
  PROVE  late
<1>1. CASE Administers
  <2>1. ASSUME NEW c \in User, NEW v \in User, NEW deletes \in BOOLEAN,
               ClosingLooks(c, v, deletes)
        PROVE  FALSE
    BY <2>1, SameClosesNone DEF ClosingLooks, tables
  <2> QED
    BY <1>1, <2>1, AdminClosing DEF Administers, AInv
<1>2. CASE Provisions
  BY <1>2, ScimClosing DEF AInv
<1>3. CASE AdminCloses
  <2>1. ClosingWrites
    BY <1>3, SameClosesNone DEF AdminCloses, ClosingFails, tables
  <2>2. account'[u] # account[u]
    BY SameClosesNone
  <2>3. u = closing.user
    BY <2>1, <2>2 DEF ClosingWrites, AInv, Typed
  <2>4. ~closing.owned
    BY <2>1, NoneIsNobody DEF ClosingWrites
  <2> QED
    BY <2>1, <2>3, <2>4 DEF ClosingWrites, Given
<1>4. CASE SignsIn \/ Templates \/ Restart \/ Tick
  BY <1>4, OthersClosing DEF AInv
<1> QED
  BY <1>1, <1>2, <1>3, <1>4 DEF Next

LEMMA GivenStays ==
  ASSUME AInv, Given, Next
  PROVE  Given'
<1>1. Moves /\ OwnersTyped'
  BY NextMoves, OwnersKeep DEF AInv
<1>2. CASE owner' \notin User
  BY <1>1, <1>2, NoneIsNobody DEF Given, OwnersTyped, Closing
<1>3. CASE owner' \in User /\ owner' # owner
  <2>1. Templates
    BY <1>1, <1>3, NoneIsNobody DEF Moves
  <2>2. UNCHANGED <<account, closing>>
    BY <2>1 DEF Templates, tables
  <2>3. late' = Leaving(owner')
    <3>1. late' = (owner' \in User /\ Leaving(owner'))
      BY <1>3, <2>1 DEF Next, Tick, Templates
    <3> QED
      BY <1>3, <3>1 DEF Leaving
  <2>4. ASSUME NEW u \in User, u = owner'
        PROVE  Given'
    <3>1. Active(u)' <=> Active(u)
      BY <2>2 DEF Active, Exists
    <3>2. late' = Leaving(u)
      BY <2>3, <2>4
    <3>3. owner' \in User /\ ~Active(owner)' => late'
      BY <2>4, <3>1, <3>2 DEF Leaving, Active, Exists
    <3>4. closing' # None /\ owner' = closing'.user => late'
      BY <2>2, <2>4, <3>2 DEF Leaving
    <3> QED
      BY <3>3, <3>4 DEF Given
  <2> QED
    BY <1>3, <2>4
<1>4. CASE owner' \in User /\ owner' = owner
  <2>1. late' = late
    BY <1>4 DEF Next
  <2>2. ~Active(owner)' => late'
    <3>1. ASSUME NEW u \in User, u = owner, Active(u), ~Active(u)'
          PROVE  late
      BY <1>4, <3>1, ClosingTakes DEF Closes
    <3>2. ~Active(owner) => late
      BY <1>4 DEF Given
    <3> QED
      BY <1>4, <2>1, <3>1, <3>2 DEF Active, Exists
  <2>3. closing' # None /\ owner' = closing'.user => late' \/ closing'.owned
    <3>1. ASSUME NEW c \in User, NEW v \in User, NEW deletes \in BOOLEAN,
                 ClosingLooks(c, v, deletes), owner = closing'.user
          PROVE  closing'.owned
      BY <3>1 DEF ClosingLooks
    <3> QED
      BY <1>1, <1>4, <2>1, <3>1 DEF Moves, Given
  <2> QED
    BY <2>2, <2>3 DEF Given
<1> QED
  BY <1>2, <1>3, <1>4

\* Whatever closes an account, and whatever overlaps with it, the account
\* keeps no template but one that it was given when it was closed already or
\* about to be (disown_templates and its callers).
THEOREM ClosedOwners == Spec => []ClosedOwnNothing
<1>1. Init => Given
  <2>1. Gone \notin User
    BY NoneAssumption
  <2> QED
    BY <2>1 DEF Init, Given
<1>2. AInv /\ Given /\ [Next]_vars => Given'
  <2>1. AInv /\ Given /\ UNCHANGED vars => Given'
    BY DEF vars, Given, Active, Exists
  <2> QED
    BY <2>1, GivenStays
<1>3. Given => ClosedOwnNothing
  BY DEF Given, ClosedOwnNothing
<1> QED
  BY <1>1, <1>2, <1>3, Inductive, PTL DEF Spec

-----------------------------------------------------------------------------
\* The last administrator.

\* An administrator stays one while the account, its memberships and their
\* groups' roles do.
LEMMA AdminKept ==
  ASSUME NEW u \in admins, account'[u] = account[u],
         \A g \in Group : u \in In(g) /\ g \in Groups =>
            /\ member'[g][u] # "no"
            /\ group'[g] # None /\ group'[g].role = group[g].role
  PROVE  admins' # {}
<1>1. u \in User /\ Active(u)'
  BY DEF admins, Active, Exists
<1>2. \A g \in GroupsOf(u) : g \in GroupsOf(u)' /\ group'[g].role = group[g].role
  BY <1>1 DEF GroupsOf, Groups, In
<1>3. available_roles(u) \subseteq available_roles(u)'
  BY <1>2 DEF available_roles
<1> QED
  BY <1>1, <1>3 DEF admins

\* Requests that do not count who is left cannot take anybody away.
LEMMA InsertKeepsAdmins ==
  ASSUME Typed, NEW r, NEW a, NEW named, Insert(NewUser, r, a, named),
         UNCHANGED <<group, member>>, admins # {}
  PROVE  admins' # {}
<1>1. PICK u \in admins : TRUE
  OBVIOUS
<1>2. account'[u] = account[u]
  BY InsertKeeps DEF admins, Active, Users
<1>3. ASSUME NEW g \in Group, u \in In(g) /\ g \in Groups
      PROVE  /\ member'[g][u] # "no"
             /\ group'[g] # None /\ group'[g].role = group[g].role
  BY <1>3 DEF In, Groups
<1> QED
  BY <1>1, <1>2, <1>3, AdminKept

LEMMA TablesKeepAdmins ==
  ASSUME UNCHANGED <<account, group, member>>
  PROVE  admins' = admins
BY DEF admins, Active, Exists, available_roles, GroupsOf, Groups, In

LEMMA AdminRequestsKeepAdmins ==
  ASSUME Typed, NEW c \in User, AdminRequest(c), admins # {}
  PROVE  admins' # {}
<1>1. PICK u \in admins : TRUE
  OBVIOUS
<1>2. u \in User
  BY DEF admins
<1>3. ASSUME NEW g \in Group, NEW r, create_group(g, r)
      PROVE  admins' # {}
  <2>1. \A h \in Groups : group'[h] = group[h] /\ group[h] # None
    BY <1>3 DEF create_group, Groups, Typed
  <2> QED
    BY <1>2, <1>3, <2>1, AdminKept DEF create_group, In
<1>4. ASSUME NEW g \in Group, NEW us \in SUBSET User, add_members(g, us)
      PROVE  admins' # {}
  <2>1. \A h \in Group : member[h][u] # "no" => member'[h][u] # "no"
    BY <1>2, <1>4, SetsOne DEF add_members, Added
  <2> QED
    BY <1>2, <1>4, <2>1, AdminKept DEF add_members, In, Groups
<1> QED
  BY <1>3, <1>4, InsertKeepsAdmins, TablesKeepAdmins
     DEF AdminRequest, AdminRemains, AdminCreates, AdminUpdates, update_group,
          delete_group, remove_member, Entitles

LEMMA ScimKeepsAdmins ==
  ASSUME Typed, Provisions, admins # {}
  PROVE  admins' # {}
<1>1. PICK u \in admins : TRUE
  OBVIOUS
<1>2. u \in User /\ Active(u)
  BY DEF admins
<1>3. ASSUME NEW v \in User, ScimReactivates(v)
      PROVE  admins' # {}
  <2>1. account'[u] = account[u]
    BY <1>2, <1>3 DEF ScimReactivates, Active, Typed
  <2> QED
    BY <1>3, <2>1, AdminKept DEF ScimReactivates, In, Groups
<1>4. ASSUME NEW g \in Group, NEW us \in SUBSET User, ScimCreatesGroup(g, us)
      PROVE  admins' # {}
  <2>1. \A h \in Group : member[h][u] # "no" => member'[h][u] # "no"
    BY <1>2, <1>4, SetsOne DEF ScimCreatesGroup, Added
  <2> DEFINE new == [role |-> IF g \in Groups THEN group[g].role ELSE None,
                     scim |-> TRUE]
  <2>2. new \in GroupRow
    BY DEF GroupRow, Groups, Typed
  <2>3. group'[g] = new /\ \A h \in Group \ {g} : group'[h] = group[h]
    BY <1>4 DEF ScimCreatesGroup, Typed
  <2>4. \A h \in Groups : group'[h] # None /\ group'[h].role = group[h].role
    BY <2>2, <2>3, RowAssumption DEF Groups
  <2> QED
    BY <1>2, <1>4, <2>1, <2>4, AdminKept DEF ScimCreatesGroup, In
<1> QED
  BY <1>3, <1>4, InsertKeepsAdmins
     DEF Provisions, AdminRemains, ScimCreatesUser, ScimSets, ScimSetsMembers,
         ScimRemovesMembers, ScimDeletesGroup

\* Of everything that administrators, the SCIM client and people signing in
\* do, only a sign-in through the identity provider can leave the install
\* without an administrator (active_admin_count and its callers).
THEOREM LastAdmin == Spec => AdminsLostOnlyBySso
<1>1. ASSUME AInv, [Next]_vars, admins # {}, admins' = {}
      PROVE  \E u \in User, gs \in SUBSET Group : SsoLogin(u, gs)
  <2>1. CASE Administers
    BY <1>1, <2>1, AdminRequestsKeepAdmins, TablesKeepAdmins
       DEF Administers, ClosingLooks, tables, AInv
  <2>2. CASE Provisions
    BY <1>1, <2>2, ScimKeepsAdmins DEF AInv
  <2>3. CASE SignsIn
    <3>1. ASSUME NEW u \in User, AuthRequest(u)
          PROVE  admins' = admins
      BY <1>1, <3>1, AuthHolds, TablesKeepAdmins DEF tables, AInv
    <3>2. ASSUME NEW gs \in SUBSET Group, SsoProvisions(gs)
          PROVE  admins' # {}
      BY <1>1, <3>2, InsertKeepsAdmins DEF SsoProvisions, AInv
    <3> QED
      BY <1>1, <2>3, <3>1, <3>2 DEF SignsIn, AuthRequest
  <2>4. CASE Restart
    BY <1>1, <2>4, InsertKeepsAdmins, TablesKeepAdmins DEF Restart, AInv
  <2>6. CASE AdminCloses
    BY <1>1, <2>6, TablesKeepAdmins
       DEF AdminCloses, ClosingWrites, ClosingFails, AdminRemains, tables
  <2>5. CASE Templates \/ Tick \/ UNCHANGED vars
    BY <1>1, <2>5, TablesKeepAdmins DEF Templates, Tick, vars, tables
  <2> QED
    BY <1>1, <2>1, <2>2, <2>3, <2>4, <2>5, <2>6 DEF Next
<1>2. AInv /\ [Next]_vars =>
        [admins # {} /\ admins' = {}
           => \E u \in User, gs \in SUBSET Group : SsoLogin(u, gs)]_vars
  BY <1>1
<1> QED
  BY <1>2, Inductive, PTL DEF Spec, AdminsLostOnlyBySso
=============================================================================
