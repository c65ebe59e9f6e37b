----------------------------- MODULE Membership -----------------------------
(***************************************************************************)
(* Who belongs to one organization: its members, their tenants, their      *)
(* entitlements, and the invitations that bring new members in.            *)
(*                                                                         *)
(* As in OAuthGrants, each helper of packages/db is a READ COMMITTED       *)
(* transaction and a route handler awaits several: what one of them read   *)
(* is a field of the handler's slot and may be stale when it is used.      *)
(* The two transactions of several statements are several steps, with the  *)
(* rows they keep locked until they commit: an acceptance its invitation   *)
(* and its user's profile, a removal the rows it has deleted.              *)
(*                                                                         *)
(* Left out: tenant and product roles (every role behaves alike here; an   *)
(* entitlement stands for the products of a tenant), profiles, and the     *)
(* audit events and queue messages, which come after every write and which *)
(* no handler reads.                                                       *)
(***************************************************************************)
EXTENDS FiniteSets, Naturals

CONSTANTS
  Requests,          \* concurrent handler slots
  Users, Tenants, NoTenant,
  MemberIds,         \* ids of core.organization_members: fresh, never reused
  MaxInvitations,    \* bounds the rows of core.organization_invitations
  Offers,            \* what the invitations promise
  Asked,             \* the kinds of administrators' requests that are made
  Expiring,          \* the invitations that may pass their expiresAt
  Founder            \* the owner the organization is created with

Rank == [OWNER |-> 3, ADMIN |-> 2, MEMBER |-> 1]

(* An invitation names a user (by e-mail) and a role, perhaps a tenant, and *)
(* perhaps products of the tenant.                                          *)
ASSUME MembershipAssumption ==
  /\ Offers \subseteq [user: Users, role: DOMAIN Rank,
                       tenant: Tenants \cup {NoTenant}, products: BOOLEAN]
  /\ Founder \in Users /\ MemberIds # {} /\ NoTenant \notin Tenants
  /\ MaxInvitations \in Nat /\ Expiring \subseteq Nat

(* Numbered in the order of createdAt. *)
Invitations == 1..MaxInvitations

VARIABLES
  members,        \* core.organization_members
  tenantMembers,  \* core.tenant_members: <<member id, tenant>>
  entitled,       \* core.product_entitlements: <<user, tenant>>
  invitations,    \* core.organization_invitations
  reqs,           \* the handlers in flight
  met             \* history: which kinds of handlers have overlapped

vars == <<members, tenantMembers, entitled, invitations, reqs, met>>

Unborn == [status |-> "unborn"]
Idle == [pc |-> "idle"]

MemberRows ==
  {Unborn} \cup [status: {"in", "out"}, user: Users, role: DOMAIN Rank]

InvitationRows ==
  {Unborn} \cup [status: {"PENDING", "ACCEPTED", "EXPIRED", "deleted"},
                 offer: Offers, expired: BOOLEAN]

(* What requireOrgAdmin lets an administrator go on with. *)
AdminWork ==
  {work \in
          [pc: {"lookup"}, user: Users, tenant: Tenants]
     \cup [pc: {"attach", "detach"}, member: MemberIds, tenant: Tenants]
     \cup [pc: {"revoke"}, user: Users, tenant: Tenants]
     \cup [pc: {"pending"}, offer: Offers]
     \cup [pc: {"withdraw"}, invitation: Invitations] : work.pc \in Asked}

(* found is the membership row an acceptance has read, by id and role. *)
NotFound == [id |-> "none"]

Handlers ==
       {Idle}
  \cup AdminWork
  \cup [pc: {"grant"}, user: Users, tenant: Tenants]
  \cup [pc: {"create"}, offer: Offers]
  \cup [pc: {"target"}, actor: Users, role: DOMAIN Rank, member: MemberIds]
  \cup [pc: {"count", "remove"}, member: MemberIds]
  \cup [pc: {"clear"}, member: MemberIds, tenants: SUBSET Tenants]
  \cup [pc: {"leave"}, member: MemberIds, tenants: SUBSET Tenants, lost: SUBSET Tenants]
  \cup [pc: {"expire", "open"}, invitation: Invitations]
  \cup [pc: {"accept"}, invitation: Invitations,
        found: {NotFound} \cup [id: MemberIds, role: DOMAIN Rank]]

(* The overlaps that can do harm, as sets of the kinds of work that meet;   *)
(* "edit" and "superGrant" are the unguarded writes of a super admin.       *)
Races == {{"remove"}, {"accept"}, {"create"}, {"grant", "leave"}, {"settle", "leave"},
          {"edit"}, {"superGrant"}}

TypeOK ==
  /\ members \in [MemberIds -> MemberRows]
  /\ tenantMembers \subseteq MemberIds \X Tenants
  /\ entitled \subseteq Users \X Tenants
  /\ invitations \in [Invitations -> InvitationRows]
  /\ reqs \in [Requests -> Handlers]
  /\ met \subseteq Races

In(m) == members[m].status = "in"
MembershipsOf(u) == {m \in MemberIds : In(m) /\ members[m].user = u}
Owners == {m \in MemberIds : In(m) /\ members[m].role = "OWNER"}

(* createOrganizationWithOwner: the founder owns the organization and is in *)
(* its default tenant.                                                      *)
Init ==
  /\ \E m \in MemberIds, t \in Tenants :
       /\ members = [x \in MemberIds |->
                       IF x = m THEN [status |-> "in", user |-> Founder, role |-> "OWNER"]
                       ELSE Unborn]
       /\ tenantMembers = {<<m, t>>}
  /\ entitled = {}
  /\ invitations = [i \in Invitations |-> Unborn]
  /\ reqs = [r \in Requests |-> Idle]
  /\ met = {}

Holds(r, label) == reqs[r].pc = label

(* What a handler between reading and writing is in the middle of. *)
Stages ==
  [remove |-> {"count", "remove", "clear", "leave"}, leave |-> {"leave"},
   accept |-> {"open", "accept"}, settle |-> {"accept"}, create |-> {"create"}, grant |-> {"grant"}]

KindsOf(h) == {kind \in DOMAIN Stages : h.pc \in Stages[kind]}

Becomes(r, h) ==
  /\ reqs' = [reqs EXCEPT ![r] = h]
  /\ met' = met \cup
       {race \in Races : \E q \in Requests \ {r} :
          \E one \in KindsOf(h), other \in KindsOf(reqs[q]) : race = {one, other}}

-----------------------------------------------------------------------------
(* requireOrgAdmin, the first transaction of most handlers *)

(* Ids are random: a request can only name a row that has been inserted. *)
Names(work) ==
  /\ work.pc \in {"attach", "detach"} => members[work.member].status # "unborn"
  /\ work.pc = "withdraw" => invitations[work.invitation].status # "unborn"

Authorize(r, actor, work) ==
  /\ Holds(r, "idle")
  /\ Names(work)
  /\ \E m \in MembershipsOf(actor) : members[m].role \in {"OWNER", "ADMIN"}
  /\ Becomes(r, work)
  /\ UNCHANGED <<members, tenantMembers, entitled, invitations>>

-----------------------------------------------------------------------------
(* DELETE /admin/organizations/:organizationId/members/:organizationMemberId *)

RemoveAuthorize(r, actor, m) ==
  /\ Holds(r, "idle")
  /\ members[m].status # "unborn"
  /\ \E a \in MembershipsOf(actor) :
       /\ members[a].role \in {"OWNER", "ADMIN"}
       /\ Becomes(r, [pc |-> "target", actor |-> actor, role |-> members[a].role, member |-> m])
  /\ UNCHANGED <<members, tenantMembers, entitled, invitations>>

RemoveTarget(r) ==
  /\ Holds(r, "target")
  /\ LET m == reqs[r].member IN
       Becomes(r,
         IF ~ In(m) \/ (members[m].user = reqs[r].actor /\ reqs[r].role = "OWNER") THEN Idle
         ELSE [pc |-> IF members[m].role = "OWNER" THEN "count" ELSE "remove", member |-> m])
  /\ UNCHANGED <<members, tenantMembers, entitled, invitations>>

(* Mutant: one owner is taken to be enough. *)
RemoveCountOffByOne(r) ==
  /\ Holds(r, "count")
  /\ Becomes(r, IF Cardinality(Owners) < 1 THEN Idle
                ELSE [pc |-> "remove", member |-> reqs[r].member])
  /\ UNCHANGED <<members, tenantMembers, entitled, invitations>>

(* organization_requires_owner *)
RemoveCount(r) ==
  /\ Holds(r, "count")
  /\ Becomes(r, IF Cardinality(Owners) <= 1 THEN Idle
                ELSE [pc |-> "remove", member |-> reqs[r].member])
  /\ UNCHANGED <<members, tenantMembers, entitled, invitations>>

(* Rows that a removal has deleted and not committed: another transaction   *)
(* still reads them, and waits if it is to write them.                      *)
TenantRowHeld(m, t) ==
  \E r \in Requests :
    /\ reqs[r].pc \in {"clear", "leave"}
    /\ reqs[r].member = m /\ t \in reqs[r].tenants

EntitlementHeld(u, t) ==
  \E r \in Requests :
    /\ Holds(r, "leave")
    /\ members[reqs[r].member].user = u /\ t \in reqs[r].lost

(* removeOrganizationMember, one transaction: the member is found and its   *)
(* tenant memberships are deleted ...                                       *)
RemoveTenants(r) ==
  /\ Holds(r, "remove")
  /\ LET m == reqs[r].member IN
       /\ \A t \in Tenants : ~ TenantRowHeld(m, t)
       /\ Becomes(r, IF ~ In(m) THEN Idle
                     ELSE [pc |-> "clear", member |-> m,
                           tenants |-> {t \in Tenants : <<m, t>> \in tenantMembers}])
  /\ UNCHANGED <<members, tenantMembers, entitled, invitations>>

(* Mutant: the entitlements are forgotten. *)
RemoveNoEntitlements(r) ==
  /\ Holds(r, "clear")
  /\ Becomes(r, [pc |-> "leave", member |-> reqs[r].member, tenants |-> reqs[r].tenants,
                 lost |-> {}])
  /\ UNCHANGED <<members, tenantMembers, entitled, invitations>>

(* ... then the entitlements its user has by now ...                        *)
RemoveEntitlements(r) ==
  /\ Holds(r, "clear")
  /\ LET u == members[reqs[r].member].user IN
       /\ \A t \in Tenants : ~ EntitlementHeld(u, t)
       /\ Becomes(r, [pc |-> "leave", member |-> reqs[r].member, tenants |-> reqs[r].tenants,
                      lost |-> {t \in Tenants : <<u, t>> \in entitled}])
  /\ UNCHANGED <<members, tenantMembers, entitled, invitations>>

(* ... and the member, if it is still there, with whatever tenant           *)
(* memberships it has got since.  The transaction commits.                  *)
Remove(r) ==
  /\ Holds(r, "leave")
  /\ LET m == reqs[r].member IN
       /\ In(m)
       /\ members' = [members EXCEPT ![m].status = "out"]
       /\ tenantMembers' = {tm \in tenantMembers : tm[1] # m}
       /\ entitled' = entitled \ ({members[m].user} \X reqs[r].lost)
  /\ Becomes(r, Idle)
  /\ UNCHANGED invitations

-----------------------------------------------------------------------------
(* POST and DELETE /admin/tenants/:tenantId/entitlements *)

(* listTenantMembers: the user must be a member of the tenant ... *)
GrantLookup(r) ==
  /\ Holds(r, "lookup")
  /\ LET u == reqs[r].user
         t == reqs[r].tenant
     IN  Becomes(r, IF \E m \in MembershipsOf(u) : <<m, t>> \in tenantMembers
                      THEN [pc |-> "grant", user |-> u, tenant |-> t]
                      ELSE Idle)
  /\ UNCHANGED <<members, tenantMembers, entitled, invitations>>

(* ... and grantEntitlement, a later transaction, does not look again. *)
Grant(r) ==
  /\ Holds(r, "grant")
  /\ ~ EntitlementHeld(reqs[r].user, reqs[r].tenant)
  /\ entitled' = entitled \cup {<<reqs[r].user, reqs[r].tenant>>}
  /\ Becomes(r, Idle)
  /\ UNCHANGED <<members, tenantMembers, invitations>>

Revoke(r) ==
  /\ Holds(r, "revoke")
  /\ ~ EntitlementHeld(reqs[r].user, reqs[r].tenant)
  /\ entitled' = entitled \ {<<reqs[r].user, reqs[r].tenant>>}
  /\ Becomes(r, Idle)
  /\ UNCHANGED <<members, tenantMembers, invitations>>

-----------------------------------------------------------------------------
(* POST, PATCH and DELETE /admin/tenants/:tenantId/members *)

(* An upsert; the foreign key refuses a member that is gone. *)
AttachMemberToTenant(m, t) ==
  /\ In(m) /\ ~ TenantRowHeld(m, t)
  /\ tenantMembers' = tenantMembers \cup {<<m, t>>}

Attach(r) ==
  /\ Holds(r, "attach")
  /\ AttachMemberToTenant(reqs[r].member, reqs[r].tenant)
  /\ Becomes(r, Idle)
  /\ UNCHANGED <<members, entitled, invitations>>

(* removeTenantMember; the user's entitlements in the tenant stay. *)
Detach(r) ==
  /\ Holds(r, "detach")
  /\ <<reqs[r].member, reqs[r].tenant>> \in tenantMembers
  /\ ~ TenantRowHeld(reqs[r].member, reqs[r].tenant)
  /\ tenantMembers' = tenantMembers \ {<<reqs[r].member, reqs[r].tenant>>}
  /\ Becomes(r, Idle)
  /\ UNCHANGED <<members, entitled, invitations>>

-----------------------------------------------------------------------------
(* POST and DELETE /admin/organizations/:organizationId/invitations *)

Open(i) == invitations[i].status = "PENDING" /\ ~ invitations[i].expired

(* Mutant: nobody looks for another invitation. *)
InviteWithoutLooking(r) ==
  /\ Holds(r, "pending")
  /\ Becomes(r, [pc |-> "create", offer |-> reqs[r].offer])
  /\ UNCHANGED <<members, tenantMembers, entitled, invitations>>

PendingOf(u) ==
  {i \in Invitations : invitations[i].status = "PENDING" /\ invitations[i].offer.user = u}

(* invitation_already_pending: the latest pending invitation to the address *)
(* has not expired.                                                         *)
InvitePending(r) ==
  /\ Holds(r, "pending")
  /\ LET pending == PendingOf(reqs[r].offer.user)
         refused == \E i \in pending :
                      /\ \A j \in pending : j <= i
                      /\ ~ invitations[i].expired
     IN  Becomes(r, IF refused THEN Idle ELSE [pc |-> "create", offer |-> reqs[r].offer])
  /\ UNCHANGED <<members, tenantMembers, entitled, invitations>>

CreateInvitation(offer) ==
  \E i \in Invitations :
    /\ invitations[i].status = "unborn"
    /\ \A j \in 1..(i - 1) : invitations[j].status # "unborn"
    /\ invitations' = [invitations EXCEPT ![i] =
                         [status |-> "PENDING", offer |-> offer, expired |-> FALSE]]

InviteCreate(r) ==
  /\ Holds(r, "create")
  /\ CreateInvitation(reqs[r].offer)
  /\ Becomes(r, Idle)
  /\ UNCHANGED <<members, tenantMembers, entitled>>

(* An acceptance that has updated the invitation row keeps it locked until  *)
(* it commits.                                                              *)
Locked(i) == \E r \in Requests : Holds(r, "accept") /\ reqs[r].invitation = i

Stored(i) == invitations[i].status \notin {"unborn", "deleted"}

(* The lookup and the delete, which addresses the same row by its id. *)
Withdraw(r) ==
  /\ Holds(r, "withdraw")
  /\ LET i == reqs[r].invitation IN
       /\ Stored(i) /\ ~ Locked(i)
       /\ invitations' = [invitations EXCEPT ![i].status = "deleted"]
  /\ Becomes(r, Idle)
  /\ UNCHANGED <<members, tenantMembers, entitled>>

-----------------------------------------------------------------------------
(* POST /portal/invitations/accept *)

(* Mutant: an accepted invitation is not turned down. *)
AcceptAgain(r, i) ==
  /\ Holds(r, "idle")
  /\ Stored(i)
  /\ Becomes(r, [pc |-> IF invitations[i].expired THEN "expire" ELSE "open", invitation |-> i])
  /\ UNCHANGED <<members, tenantMembers, entitled, invitations>>

(* The first transaction of acceptOrganizationInvitation, for a user whose  *)
(* e-mail is the invitation's.  Expiry is looked at before the status.      *)
AcceptFind(r, i) ==
  /\ Holds(r, "idle")
  /\ Stored(i)
  /\ invitations[i].expired \/ invitations[i].status # "ACCEPTED"
  /\ Becomes(r, [pc |-> IF invitations[i].expired THEN "expire" ELSE "open", invitation |-> i])
  /\ UNCHANGED <<members, tenantMembers, entitled, invitations>>

AcceptExpire(r) ==
  /\ Holds(r, "expire")
  /\ LET i == reqs[r].invitation IN
       /\ Stored(i) /\ ~ Locked(i)
       /\ invitations' = [invitations EXCEPT ![i].status = "EXPIRED"]
  /\ Becomes(r, Idle)
  /\ UNCHANGED <<members, tenantMembers, entitled>>

(* Nor does a second acceptance of one user read the membership before the  *)
(* first commits: the user's profile row is written, and locked, before.    *)
ProfileHeld(u) ==
  \E r \in Requests : Holds(r, "accept") /\ invitations[reqs[r].invitation].offer.user = u

(* The last transaction begins: the invitation row is updated, whatever its *)
(* status is by now, and the profile; and the membership is read.           *)
AcceptOpen(r) ==
  /\ Holds(r, "open")
  /\ LET i == reqs[r].invitation
         mine == MembershipsOf(invitations[i].offer.user)
     IN  /\ Stored(i) /\ ~ Locked(i) /\ ~ ProfileHeld(invitations[i].offer.user)
         /\ \E found \in IF mine = {} THEN {NotFound}
                          ELSE {[id |-> m, role |-> members[m].role] : m \in mine} :
              Becomes(r, [pc |-> "accept", invitation |-> i, found |-> found])
  /\ UNCHANGED <<members, tenantMembers, entitled, invitations>>

(* It commits: the invitation is accepted, and membership m is put into the *)
(* invitation's tenant and its user given the tenant's products.            *)
Settle(r, m) ==
  LET i == reqs[r].invitation
      offer == invitations[i].offer
  IN  /\ ~ TenantRowHeld(m, offer.tenant)
      /\ offer.products => ~ EntitlementHeld(offer.user, offer.tenant)
      /\ invitations' = [invitations EXCEPT ![i].status = "ACCEPTED"]
      /\ tenantMembers' = tenantMembers \cup
           (IF offer.tenant = NoTenant THEN {} ELSE {<<m, offer.tenant>>})
      /\ entitled' = entitled \cup
           (IF offer.tenant = NoTenant \/ ~ offer.products THEN {} ELSE {<<offer.user, offer.tenant>>})
      /\ Becomes(r, Idle)

Offered(r) == invitations[reqs[r].invitation].offer

(* A user that was no member joins; a second row would break the unique     *)
(* index on the user.                                                       *)
AcceptJoin(r, m) ==
  /\ Holds(r, "accept")
  /\ reqs[r].found = NotFound
  /\ MembershipsOf(Offered(r).user) = {}
  /\ members[m].status = "unborn"
  /\ members' = [members EXCEPT ![m] =
                   [status |-> "in", user |-> Offered(r).user, role |-> Offered(r).role]]
  /\ Settle(r, m)

(* Mutant: the invitation's role is written whatever the member had. *)
AcceptOverwrite(r) ==
  /\ Holds(r, "accept")
  /\ reqs[r].found # NotFound
  /\ In(reqs[r].found.id)
  /\ members' = [members EXCEPT ![reqs[r].found.id].role = Offered(r).role]
  /\ Settle(r, reqs[r].found.id)

(* A member whose role, when it was read, ranked lower gets the             *)
(* invitation's; the update fails when the row is gone.                     *)
AcceptRaise(r) ==
  /\ Holds(r, "accept")
  /\ reqs[r].found # NotFound
  /\ Rank[reqs[r].found.role] < Rank[Offered(r).role]
  /\ In(reqs[r].found.id)
  /\ members' = [members EXCEPT ![reqs[r].found.id].role = Offered(r).role]
  /\ Settle(r, reqs[r].found.id)

(* Any other member keeps the row as it is; the foreign key of the tenant   *)
(* membership fails when it is gone.                                        *)
AcceptKeep(r) ==
  /\ Holds(r, "accept")
  /\ reqs[r].found # NotFound
  /\ Rank[reqs[r].found.role] >= Rank[Offered(r).role]
  /\ In(reqs[r].found.id) \/ Offered(r).tenant = NoTenant
  /\ Settle(r, reqs[r].found.id)
  /\ UNCHANGED members

-----------------------------------------------------------------------------
(* PATCH /super-admin/users/:userId/organizations/:organizationId and       *)
(* POST and DELETE /super-admin/users/:userId/entitlements check nothing    *)
(* but that the row, or the user, exists.                                   *)

Did(kind) == met' = met \cup {{kind}}

(* The update of a row that is gone is no error, and changes nothing. *)
UpdateMemberRole(m, role) ==
  /\ In(m) /\ members[m].role # role
  /\ members' = [members EXCEPT ![m].role = role]

SuperEdit(m, role) ==
  /\ "edit" \in Asked
  /\ UpdateMemberRole(m, role)
  /\ Did("edit")
  /\ UNCHANGED <<tenantMembers, entitled, invitations, reqs>>

SuperGrant(u, t) ==
  /\ "superGrant" \in Asked
  /\ ~ EntitlementHeld(u, t)
  /\ entitled' = entitled \cup {<<u, t>>}
  /\ Did("superGrant")
  /\ UNCHANGED <<members, tenantMembers, invitations, reqs>>

SuperRevoke(u, t) ==
  /\ "superRevoke" \in Asked /\ <<u, t>> \in entitled
  /\ ~ EntitlementHeld(u, t)
  /\ entitled' = entitled \ {<<u, t>>}
  /\ UNCHANGED <<members, tenantMembers, invitations, reqs, met>>

-----------------------------------------------------------------------------
InvitationExpires(i) ==
  /\ i \in Expiring
  /\ Stored(i) /\ ~ invitations[i].expired
  /\ invitations' = [invitations EXCEPT ![i].expired = TRUE]
  /\ UNCHANGED <<members, tenantMembers, entitled, reqs, met>>

(* An error or a crash ends a handler between two transactions; an open     *)
(* transaction is rolled back.                                              *)
Fail(r) ==
  /\ ~ Holds(r, "idle")
  /\ Becomes(r, Idle)
  /\ UNCHANGED <<members, tenantMembers, entitled, invitations>>

RemoveStep(r) ==
  \/ \E actor \in Users, m \in MemberIds : RemoveAuthorize(r, actor, m)
  \/ RemoveTarget(r) \/ RemoveCount(r)
  \/ RemoveTenants(r) \/ RemoveEntitlements(r) \/ Remove(r)

AdminStep(r) ==
  \/ \E actor \in Users, work \in AdminWork : Authorize(r, actor, work)
  \/ GrantLookup(r) \/ Grant(r) \/ Revoke(r)
  \/ Attach(r) \/ Detach(r)
  \/ InvitePending(r) \/ InviteCreate(r) \/ Withdraw(r)

AcceptStep(r) ==
  \/ \E i \in Invitations : AcceptFind(r, i)
  \/ AcceptExpire(r) \/ AcceptOpen(r)
  \/ \E m \in MemberIds : AcceptJoin(r, m)
  \/ AcceptRaise(r) \/ AcceptKeep(r)

Next ==
  \/ \E r \in Requests : RemoveStep(r) \/ AdminStep(r) \/ AcceptStep(r) \/ Fail(r)
  \/ \E i \in Invitations : InvitationExpires(i)

Spec == Init /\ [][Next]_vars

(* Super administrators act too. *)
SuperNext ==
  \/ Next
  \/ \E m \in MemberIds, role \in DOMAIN Rank : SuperEdit(m, role)
  \/ \E u \in Users, t \in Tenants : SuperGrant(u, t) \/ SuperRevoke(u, t)

SuperSpec == Init /\ [][SuperNext]_vars

-----------------------------------------------------------------------------
(* The organization keeps an owner: the self-removal check and the count of *)
(* the removal handler see to it, and only two things get past them: two    *)
(* removals that overlap, or a super administrator's edit.                  *)
OwnerlessOnlyByRace ==
  Owners = {} => met \cap {{"remove"}, {"edit"}} # {}

(* Entitlements end with the membership: a user who is no member holds one  *)
(* only if a grant that had already looked the user up, or an acceptance    *)
(* that had already read the membership, overlapped a removal past its      *)
(* delete of the entitlements, or if a super administrator granted it.      *)
OrphansOnlyByRace ==
  \A e \in entitled :
    MembershipsOf(e[1]) = {} =>
      met \cap {{"grant", "leave"}, {"settle", "leave"}, {"superGrant"}} # {}

(* An address has one open invitation, unless two handlers had both looked  *)
(* before either created its own.                                           *)
TwoOpenOnlyByRace ==
  \A i, j \in Invitations :
    Open(i) /\ Open(j) /\ invitations[i].offer.user = invitations[j].offer.user =>
      i = j \/ {"create"} \in met

(* An invitation brings its user in once: a member who was removed does not *)
(* come back with an invitation that was accepted before, nor with one that *)
(* was withdrawn, unless another acceptance overlapped.                     *)
AdmittedOnce ==
  [][\A r \in Requests, m \in MemberIds :
       AcceptJoin(r, m) =>
         \/ invitations[reqs[r].invitation].status \notin {"ACCEPTED", "deleted"}
         \/ {"accept"} \in met]_vars

(* Accepting an invitation never costs a member a role: whatever was        *)
(* offered and accepted at once, only a super administrator's edit lowers   *)
(* one, or an acceptance that had read the role before such an edit.        *)
InvitationsOnlyRaise ==
  [][\A m \in MemberIds :
       In(m) /\ In(m)' /\ Rank[members'[m].role] < Rank[members[m].role] =>
         {"edit"} \in met']_vars

-----------------------------------------------------------------------------
(* What the removal handler promises and overlapping requests break: its    *)
(* answer organization_requires_owner says that an organization never goes  *)
(* without an owner.                                                        *)
OrganizationHasOwner == Owners # {}
=============================================================================
