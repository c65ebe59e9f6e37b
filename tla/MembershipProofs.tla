-------------------------- MODULE MembershipProofs --------------------------
(* What holds of an organization's members, for every value of the          *)
(* constants, when administrators, invitees and super administrators act at *)
(* once.                                                                    *)
EXTENDS Membership, FiniteSetTheorems, TLAPS

-----------------------------------------------------------------------------
(* What a handler's record holds. *)
LEMMA HandlerShape ==
  ASSUME MembershipAssumption, TypeOK, NEW r \in Requests
  PROVE  /\ Holds(r, "grant") \/ Holds(r, "lookup") \/ Holds(r, "revoke") =>
              reqs[r].user \in Users /\ reqs[r].tenant \in Tenants
         /\ Holds(r, "attach") \/ Holds(r, "detach") =>
              reqs[r].member \in MemberIds /\ reqs[r].tenant \in Tenants
         /\ Holds(r, "pending") \/ Holds(r, "create") => reqs[r].offer \in Offers
         /\ reqs[r].pc \in {"target", "count", "remove", "clear", "leave"} =>
              reqs[r].member \in MemberIds
         /\ Holds(r, "clear") => reqs[r].tenants \in SUBSET Tenants
         /\ Holds(r, "withdraw") \/ Holds(r, "expire") \/ Holds(r, "open") \/ Holds(r, "accept") =>
              reqs[r].invitation \in Invitations
         /\ Holds(r, "accept") =>
              reqs[r].found \in {NotFound} \cup [id: MemberIds, role: DOMAIN Rank]
BY DEF TypeOK, Handlers, AdminWork, Idle, Holds

(* The steps that change the members, the invitations or the entitlements. *)
LEMMA MembersChange ==
  ASSUME [SuperNext]_vars
  PROVE  \/ members' = members
         \/ \E r \in Requests :
              Remove(r) \/ AcceptRaise(r) \/ \E m \in MemberIds : AcceptJoin(r, m)
         \/ \E m \in MemberIds, role \in DOMAIN Rank : SuperEdit(m, role)
BY DEF SuperNext, Next, vars, RemoveStep, AdminStep, AcceptStep, RemoveAuthorize, RemoveTarget,
   RemoveCount, RemoveTenants, RemoveEntitlements, Authorize, GrantLookup, Grant, Revoke, Attach, AttachMemberToTenant, Detach,
   InvitePending, InviteCreate, CreateInvitation, Withdraw, AcceptFind, AcceptExpire, AcceptOpen,
   AcceptKeep, Fail, SuperGrant, SuperRevoke, InvitationExpires

LEMMA InvitationsChange ==
  ASSUME [SuperNext]_vars
  PROVE  \/ invitations' = invitations
         \/ \E r \in Requests :
              \/ InviteCreate(r) \/ Withdraw(r) \/ AcceptExpire(r)
              \/ AcceptRaise(r) \/ AcceptKeep(r) \/ \E m \in MemberIds : AcceptJoin(r, m)
         \/ \E i \in Invitations : InvitationExpires(i)
BY DEF SuperNext, Next, vars, RemoveStep, AdminStep, AcceptStep, RemoveAuthorize, RemoveTarget,
   RemoveCount, RemoveTenants, RemoveEntitlements, Remove, Authorize, GrantLookup, Grant, Revoke, Attach, AttachMemberToTenant,
   Detach, InvitePending, AcceptFind, AcceptOpen, Fail, SuperEdit, UpdateMemberRole, SuperGrant,
   SuperRevoke

LEMMA EntitlementsChange ==
  ASSUME [SuperNext]_vars
  PROVE  \/ entitled' \subseteq entitled
         \/ \E r \in Requests :
              \/ Grant(r) \/ AcceptRaise(r) \/ AcceptKeep(r)
              \/ \E m \in MemberIds : AcceptJoin(r, m)
         \/ \E u \in Users, t \in Tenants : SuperGrant(u, t)
BY DEF SuperNext, Next, vars, RemoveStep, AdminStep, AcceptStep, RemoveAuthorize, RemoveTarget,
   RemoveCount, RemoveTenants, RemoveEntitlements, Remove, Authorize, GrantLookup, Revoke, Attach, AttachMemberToTenant, Detach,
   InvitePending, InviteCreate, CreateInvitation, Withdraw, AcceptFind, AcceptExpire, AcceptOpen,
   Fail, SuperEdit, UpdateMemberRole, SuperRevoke, InvitationExpires

(* A handler moves in a step of its own, one at a time. *)
OwnStep(r) == RemoveStep(r) \/ AdminStep(r) \/ AcceptStep(r) \/ Fail(r)

LEMMA OwnStepBecomes ==
  ASSUME MembershipAssumption, TypeOK, NEW r \in Requests, OwnStep(r)
  PROVE  \E h \in Handlers : Becomes(r, h)
<1> USE DEF Handlers
<1>1. Idle \in Handlers
  OBVIOUS
<1>2. CASE \/ Remove(r) \/ Grant(r) \/ Revoke(r) \/ Attach(r) \/ Detach(r) \/ InviteCreate(r)
           \/ Withdraw(r) \/ AcceptExpire(r) \/ AcceptRaise(r) \/ AcceptKeep(r) \/ Fail(r)
           \/ \E m \in MemberIds : AcceptJoin(r, m)
  <2>1. Becomes(r, Idle)
    BY <1>2 DEF Remove, Grant, Revoke, Attach, AttachMemberToTenant, Detach, InviteCreate,
       CreateInvitation, Withdraw, AcceptExpire, AcceptJoin, AcceptRaise, AcceptKeep, Settle,
       Fail
  <2> QED
    BY <1>1, <2>1
<1>3. ASSUME NEW actor \in Users, NEW work \in AdminWork, Authorize(r, actor, work)
      PROVE  \E h \in Handlers : Becomes(r, h)
  BY <1>3 DEF Authorize
<1>4. ASSUME NEW actor \in Users, NEW m \in MemberIds, RemoveAuthorize(r, actor, m)
      PROVE  \E h \in Handlers : Becomes(r, h)
  <2>1. PICK a \in MembershipsOf(actor) :
             Becomes(r, [pc |-> "target", actor |-> actor, role |-> members[a].role, member |-> m])
    BY <1>4 DEF RemoveAuthorize
  <2>2. members[a].role \in DOMAIN Rank
    BY DEF MembershipsOf, In, TypeOK, MemberRows, Unborn
  <2>3. [pc |-> "target", actor |-> actor, role |-> members[a].role, member |-> m] \in Handlers
    BY <2>2
  <2> QED
    BY <2>1, <2>3
<1>5. CASE RemoveTarget(r)
  <2>1. reqs[r].member \in MemberIds
    BY <1>5, HandlerShape DEF RemoveTarget, Holds
  <2>2. \/ Becomes(r, Idle)
        \/ Becomes(r, [pc |-> "count", member |-> reqs[r].member])
        \/ Becomes(r, [pc |-> "remove", member |-> reqs[r].member])
    BY <1>5 DEF RemoveTarget
  <2> QED
    BY <1>1, <2>1, <2>2
<1>6. CASE RemoveCount(r)
  <2>1. reqs[r].member \in MemberIds
    BY <1>6, HandlerShape DEF RemoveCount, Holds
  <2>2. Becomes(r, Idle) \/ Becomes(r, [pc |-> "remove", member |-> reqs[r].member])
    BY <1>6 DEF RemoveCount
  <2> QED
    BY <1>1, <2>1, <2>2
<1>11. CASE RemoveTenants(r)
  <2>1. reqs[r].member \in MemberIds
    BY <1>11, HandlerShape DEF RemoveTenants, Holds
  <2>2. PICK ts \in SUBSET Tenants :
             \/ Becomes(r, Idle)
             \/ Becomes(r, [pc |-> "clear", member |-> reqs[r].member, tenants |-> ts])
    BY <1>11 DEF RemoveTenants
  <2> QED
    BY <1>1, <2>1, <2>2
<1>12. CASE RemoveEntitlements(r)
  <2>1. reqs[r].member \in MemberIds /\ reqs[r].tenants \in SUBSET Tenants
    BY <1>12, HandlerShape DEF RemoveEntitlements, Holds
  <2>2. PICK ts \in SUBSET Tenants :
             Becomes(r, [pc |-> "leave", member |-> reqs[r].member,
                         tenants |-> reqs[r].tenants, lost |-> ts])
    BY <1>12 DEF RemoveEntitlements
  <2> QED
    BY <2>1, <2>2
<1>7. CASE GrantLookup(r)
  <2>1. reqs[r].user \in Users /\ reqs[r].tenant \in Tenants
    BY <1>7, HandlerShape DEF GrantLookup
  <2>2. \/ Becomes(r, Idle)
        \/ Becomes(r, [pc |-> "grant", user |-> reqs[r].user, tenant |-> reqs[r].tenant])
    BY <1>7 DEF GrantLookup
  <2> QED
    BY <1>1, <2>1, <2>2
<1>8. CASE InvitePending(r)
  <2>1. reqs[r].offer \in Offers
    BY <1>8, HandlerShape DEF InvitePending
  <2>2. Becomes(r, Idle) \/ Becomes(r, [pc |-> "create", offer |-> reqs[r].offer])
    BY <1>8 DEF InvitePending
  <2> QED
    BY <1>1, <2>1, <2>2
<1>9. ASSUME NEW i \in Invitations, AcceptFind(r, i)
      PROVE  \E h \in Handlers : Becomes(r, h)
  <2>1. \/ Becomes(r, [pc |-> "expire", invitation |-> i])
        \/ Becomes(r, [pc |-> "open", invitation |-> i])
    BY <1>9 DEF AcceptFind
  <2> QED
    BY <2>1
<1>10. CASE AcceptOpen(r)
  <2>1. reqs[r].invitation \in Invitations
    BY <1>10, HandlerShape DEF AcceptOpen
  <2>2. PICK found :
          /\ found \in {NotFound} \cup {[id |-> m, role |-> members[m].role] :
                          m \in MembershipsOf(invitations[reqs[r].invitation].offer.user)}
          /\ Becomes(r, [pc |-> "accept", invitation |-> reqs[r].invitation, found |-> found])
    BY <1>10 DEF AcceptOpen
  <2>3. found \in {NotFound} \cup [id: MemberIds, role: DOMAIN Rank]
    BY <2>2 DEF MembershipsOf, In, TypeOK, MemberRows, Unborn
  <2> QED
    BY <2>1, <2>2, <2>3
<1> QED
  BY <1>2, <1>3, <1>4, <1>5, <1>6, <1>7, <1>8, <1>9, <1>10, <1>11, <1>12
     DEF OwnStep, RemoveStep, AdminStep, AcceptStep

LEMMA OneMoves ==
  ASSUME MembershipAssumption, TypeOK, [SuperNext]_vars
  PROVE  \/ reqs' = reqs /\ met \subseteq met'
         \/ \E r \in Requests, h \in Handlers : OwnStep(r) /\ Becomes(r, h)
BY OwnStepBecomes
   DEF SuperNext, Next, vars, OwnStep, SuperEdit, UpdateMemberRole, SuperGrant, SuperRevoke,
     InvitationExpires, Did

-----------------------------------------------------------------------------
(* The rows a handler has read are there to stay, whatever becomes of them. *)

BornInvitation(i) == invitations[i].status # "unborn"
BornMember(m) == members[m].status # "unborn"

RowsBorn ==
  \A r \in Requests :
    /\ reqs[r].pc \in {"withdraw", "expire", "open", "accept"} => BornInvitation(reqs[r].invitation)
    /\ Holds(r, "accept") =>
         /\ Stored(reqs[r].invitation)
         /\ reqs[r].found # NotFound =>
              /\ BornMember(reqs[r].found.id)
              /\ members[reqs[r].found.id].user = Offered(r).user
    /\ reqs[r].pc \in {"clear", "leave"} => BornMember(reqs[r].member)

TypedRows == TypeOK /\ RowsBorn

(* What an invitation offers is typed once it is born. *)
LEMMA OfferShape ==
  ASSUME MembershipAssumption, TypeOK, NEW i \in Invitations, BornInvitation(i)
  PROVE  /\ invitations[i] \in [status: {"PENDING", "ACCEPTED", "EXPIRED", "deleted"},
                                offer: Offers, expired: BOOLEAN]
         /\ invitations[i].offer.user \in Users
         /\ invitations[i].offer.role \in DOMAIN Rank
         /\ invitations[i].offer.tenant \in Tenants \cup {NoTenant}
BY DEF MembershipAssumption, TypeOK, InvitationRows, Unborn, BornInvitation

(* A handler about to commit. *)
LEMMA AcceptShape ==
  ASSUME MembershipAssumption, TypedRows, NEW r \in Requests, Holds(r, "accept")
  PROVE  /\ reqs[r].invitation \in Invitations
         /\ BornInvitation(reqs[r].invitation)
         /\ Offered(r).user \in Users
         /\ Offered(r).role \in DOMAIN Rank
         /\ Offered(r).tenant \in Tenants \cup {NoTenant}
         /\ reqs[r].found # NotFound =>
              /\ reqs[r].found.id \in MemberIds
              /\ reqs[r].found.role \in DOMAIN Rank
<1>1. /\ reqs[r].invitation \in Invitations
      /\ reqs[r].found # NotFound =>
              /\ reqs[r].found.id \in MemberIds
              /\ reqs[r].found.role \in DOMAIN Rank
  BY HandlerShape DEF TypedRows
<1>2. BornInvitation(reqs[r].invitation)
  BY DEF TypedRows, RowsBorn, Holds
<1> QED
  BY <1>1, <1>2, OfferShape DEF TypedRows, Offered

LEMMA InitTypes == MembershipAssumption /\ Init => TypedRows
BY DEF MembershipAssumption, Init, TypeOK, MemberRows, InvitationRows, Unborn, Handlers, Idle,
   Rank, TypedRows, RowsBorn, Holds

LEMMA MembersTyped ==
  ASSUME MembershipAssumption, TypedRows, [SuperNext]_vars
  PROVE  /\ members' \in [MemberIds -> MemberRows]
         /\ \A m \in MemberIds : BornMember(m) =>
              BornMember(m)' /\ members'[m].user = members[m].user
<1> USE DEF TypedRows, TypeOK, MemberRows, Unborn, BornMember
<1>1. ASSUME NEW r \in Requests, Remove(r)
      PROVE  /\ members' \in [MemberIds -> MemberRows]
             /\ \A m \in MemberIds : BornMember(m) =>
                  BornMember(m)' /\ members'[m].user = members[m].user
  <2>1. reqs[r].member \in MemberIds
    BY <1>1, HandlerShape DEF Remove, Holds
  <2> QED
    BY <1>1, <2>1 DEF Remove, In
<1>2. ASSUME NEW r \in Requests, AcceptRaise(r)
      PROVE  /\ members' \in [MemberIds -> MemberRows]
             /\ \A m \in MemberIds : BornMember(m) =>
                  BornMember(m)' /\ members'[m].user = members[m].user
  <2>1. reqs[r].found.id \in MemberIds /\ Offered(r).role \in DOMAIN Rank
    BY <1>2, AcceptShape DEF AcceptRaise
  <2>2. members' = [members EXCEPT ![reqs[r].found.id].role = Offered(r).role]
    BY <1>2 DEF AcceptRaise
  <2>3. In(reqs[r].found.id)
    BY <1>2 DEF AcceptRaise
  <2> QED
    BY <2>1, <2>2, <2>3 DEF In
<1>3. ASSUME NEW r \in Requests, NEW m \in MemberIds, AcceptJoin(r, m)
      PROVE  /\ members' \in [MemberIds -> MemberRows]
             /\ \A x \in MemberIds : BornMember(x) =>
                  BornMember(x)' /\ members'[x].user = members[x].user
  <2>1. Offered(r).user \in Users /\ Offered(r).role \in DOMAIN Rank
    BY <1>3, AcceptShape DEF AcceptJoin
  <2> QED
    BY <1>3, <2>1 DEF AcceptJoin
<1>4. ASSUME NEW m \in MemberIds, NEW role \in DOMAIN Rank, SuperEdit(m, role)
      PROVE  /\ members' \in [MemberIds -> MemberRows]
             /\ \A x \in MemberIds : BornMember(x) =>
                  BornMember(x)' /\ members'[x].user = members[x].user
  BY <1>4 DEF SuperEdit, UpdateMemberRole, In
<1>5. CASE members' = members
  BY <1>5
<1> QED
  BY <1>1, <1>2, <1>3, <1>4, <1>5, MembersChange

(* What happens to an invitation: it is written once, then only its status  *)
(* and its expiry change, and neither back.                                 *)
GoesOn(i) ==
  /\ BornInvitation(i)'
  /\ invitations'[i].offer = invitations[i].offer
  /\ invitations[i].expired => invitations'[i].expired
  /\ invitations'[i].status = "PENDING" => invitations[i].status = "PENDING"

LEMMA InvitationsTyped ==
  ASSUME MembershipAssumption, TypedRows, [SuperNext]_vars
  PROVE  /\ invitations' \in [Invitations -> InvitationRows]
         /\ \A i \in Invitations : BornInvitation(i) => GoesOn(i)
         /\ \A i \in Invitations : Stored(i) /\ Locked(i) => Stored(i)'
<1> USE DEF TypedRows, TypeOK, InvitationRows, Unborn, BornInvitation, GoesOn, Stored
<1> DEFINE Fine == /\ invitations' \in [Invitations -> InvitationRows]
                   /\ \A i \in Invitations : BornInvitation(i) => GoesOn(i)
                   /\ \A i \in Invitations : Stored(i) /\ Locked(i) => Stored(i)'
<1>1. ASSUME NEW r \in Requests, InviteCreate(r)
      PROVE  Fine
  <2>1. reqs[r].offer \in Offers
    BY <1>1, HandlerShape DEF InviteCreate
  <2> QED
    BY <1>1, <2>1 DEF InviteCreate, CreateInvitation
<1>2. ASSUME NEW r \in Requests, Withdraw(r) \/ AcceptExpire(r)
      PROVE  Fine
  <2>1. reqs[r].invitation \in Invitations
    BY <1>2, HandlerShape DEF Withdraw, AcceptExpire
  <2>2. Stored(reqs[r].invitation) /\ ~ Locked(reqs[r].invitation)
    BY <1>2 DEF Withdraw, AcceptExpire
  <2>3. PICK status \in {"deleted", "EXPIRED"} :
          invitations' = [invitations EXCEPT ![reqs[r].invitation].status = status]
    BY <1>2 DEF Withdraw, AcceptExpire
  <2> QED
    BY <2>1, <2>2, <2>3
<1>3. ASSUME NEW r \in Requests, AcceptRaise(r) \/ AcceptKeep(r) \/ \E m \in MemberIds : AcceptJoin(r, m)
      PROVE  Fine
  <2>1. reqs[r].invitation \in Invitations /\ BornInvitation(reqs[r].invitation)
    BY <1>3, AcceptShape DEF AcceptRaise, AcceptKeep, AcceptJoin
  <2>2. invitations' = [invitations EXCEPT ![reqs[r].invitation].status = "ACCEPTED"]
    BY <1>3 DEF AcceptRaise, AcceptKeep, AcceptJoin, Settle
  <2> QED
    BY <2>1, <2>2
<1>4. ASSUME NEW i \in Invitations, InvitationExpires(i)
      PROVE  Fine
  BY <1>4 DEF InvitationExpires
<1>5. CASE invitations' = invitations
  BY <1>5
<1> QED
  BY <1>1, <1>2, <1>3, <1>4, <1>5, InvitationsChange

LEMMA EntitledTyped ==
  ASSUME MembershipAssumption, TypedRows, [SuperNext]_vars
  PROVE  entitled' \subseteq Users \X Tenants
<1> USE DEF TypedRows, TypeOK
<1>1. ASSUME NEW r \in Requests, Grant(r)
      PROVE  entitled' \subseteq Users \X Tenants
  BY <1>1, HandlerShape DEF Grant
<1>2. ASSUME NEW r \in Requests, AcceptRaise(r) \/ AcceptKeep(r) \/ \E m \in MemberIds : AcceptJoin(r, m)
      PROVE  entitled' \subseteq Users \X Tenants
  <2>1. Offered(r).user \in Users /\ Offered(r).tenant \in Tenants \cup {NoTenant}
    BY <1>2, AcceptShape DEF AcceptRaise, AcceptKeep, AcceptJoin
  <2>2. \/ entitled' = entitled
        \/ Offered(r).tenant # NoTenant /\ entitled' = entitled \cup {<<Offered(r).user, Offered(r).tenant>>}
    BY <1>2 DEF AcceptRaise, AcceptKeep, AcceptJoin, Settle, Offered
  <2> QED
    BY <2>1, <2>2
<1>3. ASSUME NEW u \in Users, NEW t \in Tenants, SuperGrant(u, t)
      PROVE  entitled' \subseteq Users \X Tenants
  BY <1>3 DEF SuperGrant
<1> QED
  BY <1>1, <1>2, <1>3, EntitlementsChange

LEMMA TenantMembersTyped ==
  ASSUME MembershipAssumption, TypedRows, [SuperNext]_vars
  PROVE  tenantMembers' \subseteq MemberIds \X Tenants
<1> USE DEF TypedRows, TypeOK
<1>1. ASSUME NEW r \in Requests, Attach(r)
      PROVE  tenantMembers' \subseteq MemberIds \X Tenants
  BY <1>1, HandlerShape DEF Attach, AttachMemberToTenant
<1>2. ASSUME NEW r \in Requests, NEW m \in MemberIds, Settle(r, m), Holds(r, "accept")
      PROVE  tenantMembers' \subseteq MemberIds \X Tenants
  <2>1. Offered(r).tenant \in Tenants \cup {NoTenant}
    BY <1>2, AcceptShape
  <2>2. \/ tenantMembers' = tenantMembers
        \/ Offered(r).tenant # NoTenant /\ tenantMembers' = tenantMembers \cup {<<m, Offered(r).tenant>>}
    BY <1>2 DEF Settle, Offered
  <2> QED
    BY <2>1, <2>2
<1>3. ASSUME NEW r \in Requests, AcceptRaise(r) \/ AcceptKeep(r)
      PROVE  tenantMembers' \subseteq MemberIds \X Tenants
  BY <1>2, <1>3, AcceptShape DEF AcceptRaise, AcceptKeep
<1>4. ASSUME NEW r \in Requests, NEW m \in MemberIds, AcceptJoin(r, m)
      PROVE  tenantMembers' \subseteq MemberIds \X Tenants
  BY <1>2, <1>4 DEF AcceptJoin
<1>5. \/ tenantMembers' \subseteq tenantMembers
      \/ \E r \in Requests : \/ Attach(r) \/ AcceptRaise(r) \/ AcceptKeep(r)
                             \/ \E m \in MemberIds : AcceptJoin(r, m)
  BY DEF SuperNext, Next, vars, RemoveStep, AdminStep, AcceptStep, RemoveAuthorize, RemoveTarget,
     RemoveCount, RemoveTenants, RemoveEntitlements, Remove, Authorize, GrantLookup, Grant, Revoke, Detach, InvitePending,
     InviteCreate, CreateInvitation, Withdraw, AcceptFind, AcceptExpire, AcceptOpen, Fail,
     SuperEdit, UpdateMemberRole, SuperGrant, SuperRevoke, InvitationExpires
<1> QED
  BY <1>1, <1>3, <1>4, <1>5

LEMMA NextTypes ==
  ASSUME MembershipAssumption, TypedRows, [SuperNext]_vars
  PROVE  TypeOK'
<1>1. reqs' \in [Requests -> Handlers] /\ met' \subseteq Races
  <2>1. CASE reqs' = reqs /\ met' = met
    BY <2>1 DEF TypedRows, TypeOK
  <2>2. ASSUME NEW r \in Requests, NEW h \in Handlers, Becomes(r, h)
        PROVE  reqs' \in [Requests -> Handlers] /\ met' \subseteq Races
    BY <2>2 DEF TypedRows, TypeOK, Becomes
  <2>3. ASSUME NEW m \in MemberIds, NEW role \in DOMAIN Rank, SuperEdit(m, role)
        PROVE  reqs' \in [Requests -> Handlers] /\ met' \subseteq Races
    BY <2>3 DEF SuperEdit, UpdateMemberRole, Did, TypedRows, TypeOK, Races
  <2>4. ASSUME NEW u \in Users, NEW t \in Tenants, SuperGrant(u, t)
        PROVE  reqs' \in [Requests -> Handlers] /\ met' \subseteq Races
    BY <2>4 DEF SuperGrant, Did, TypedRows, TypeOK, Races
  <2>5. ASSUME NEW i \in Invitations, InvitationExpires(i)
        PROVE  reqs' = reqs /\ met' = met
    BY <2>5 DEF InvitationExpires
  <2> QED
    BY <2>1, <2>2, <2>3, <2>4, <2>5, OwnStepBecomes DEF SuperNext, Next, OwnStep, vars,
       TypedRows, SuperRevoke
<1> QED
  BY <1>1, MembersTyped, InvitationsTyped, EntitledTyped, TenantMembersTyped DEF TypeOK, MemberRows, InvitationRows

(* Which step leads where: a handler's record tells what it did last. *)
LEMMA Enters ==
  ASSUME MembershipAssumption, TypeOK, NEW r \in Requests, OwnStep(r)
  PROVE  LET pc == reqs'[r].pc IN
         /\ pc = "withdraw" => \E actor \in Users, work \in AdminWork :
                                 Authorize(r, actor, work) /\ reqs'[r] = work
         /\ pc = "remove" => RemoveTarget(r) \/ RemoveCount(r)
         /\ pc = "clear" => RemoveTenants(r)
         /\ pc = "leave" => RemoveEntitlements(r)
         /\ pc = "grant" => GrantLookup(r)
         /\ pc = "create" => InvitePending(r)
         /\ pc \in {"expire", "open"} => \E i \in Invitations : AcceptFind(r, i)
         /\ pc = "accept" => AcceptOpen(r)
<1> DEFINE Leads ==
         LET pc == reqs'[r].pc IN
         /\ pc = "withdraw" => \E actor \in Users, work \in AdminWork :
                                 Authorize(r, actor, work) /\ reqs'[r] = work
         /\ pc = "remove" => RemoveTarget(r) \/ RemoveCount(r)
         /\ pc = "clear" => RemoveTenants(r)
         /\ pc = "leave" => RemoveEntitlements(r)
         /\ pc = "grant" => GrantLookup(r)
         /\ pc = "create" => InvitePending(r)
         /\ pc \in {"expire", "open"} => \E i \in Invitations : AcceptFind(r, i)
         /\ pc = "accept" => AcceptOpen(r)
<1> USE DEF TypeOK, Becomes
<1>1. CASE \/ Remove(r) \/ Grant(r) \/ Revoke(r) \/ Attach(r) \/ Detach(r) \/ InviteCreate(r)
           \/ Withdraw(r) \/ AcceptExpire(r) \/ AcceptRaise(r) \/ AcceptKeep(r) \/ Fail(r)
           \/ \E m \in MemberIds : AcceptJoin(r, m)
  <2>1. reqs'[r] = Idle
    BY <1>1 DEF Remove, Grant, Revoke, Attach, AttachMemberToTenant, Detach, InviteCreate,
       CreateInvitation, Withdraw, AcceptExpire, AcceptJoin, AcceptRaise, AcceptKeep, Settle,
       Fail
  <2> QED
    BY <2>1 DEF Idle
<1>2. ASSUME NEW actor \in Users, NEW work \in AdminWork, Authorize(r, actor, work)
      PROVE  Leads
  <2>1. reqs'[r] = work
    BY <1>2 DEF Authorize
  <2>2. work.pc \in {"lookup", "attach", "detach", "revoke", "pending", "withdraw"}
    BY DEF AdminWork
  <2> QED
    BY <1>2, <2>1, <2>2
<1>3. ASSUME NEW actor \in Users, NEW m \in MemberIds, RemoveAuthorize(r, actor, m)
      PROVE  Leads
  <2>1. reqs'[r].pc = "target"
    BY <1>3 DEF RemoveAuthorize
  <2> QED
    BY <2>1
<1>4. CASE RemoveTarget(r)
  <2>1. reqs'[r].pc \in {"idle", "count", "remove"}
    BY <1>4 DEF RemoveTarget, Idle
  <2> QED
    BY <1>4, <2>1
<1>5. CASE RemoveCount(r)
  <2>1. reqs'[r].pc \in {"idle", "remove"}
    BY <1>5 DEF RemoveCount, Idle
  <2> QED
    BY <1>5, <2>1
<1>10. CASE RemoveTenants(r)
  <2>1. reqs'[r].pc \in {"idle", "clear"}
    BY <1>10 DEF RemoveTenants, Idle
  <2> QED
    BY <1>10, <2>1
<1>11. CASE RemoveEntitlements(r)
  <2>1. reqs'[r].pc = "leave"
    BY <1>11 DEF RemoveEntitlements
  <2> QED
    BY <1>11, <2>1
<1>6. CASE GrantLookup(r)
  <2>1. reqs'[r].pc \in {"idle", "grant"}
    BY <1>6 DEF GrantLookup, Idle
  <2> QED
    BY <1>6, <2>1
<1>7. CASE InvitePending(r)
  <2>1. reqs'[r].pc \in {"idle", "create"}
    BY <1>7 DEF InvitePending, Idle
  <2> QED
    BY <1>7, <2>1
<1>8. ASSUME NEW i \in Invitations, AcceptFind(r, i)
      PROVE  Leads
  <2>1. reqs'[r].pc \in {"expire", "open"}
    BY <1>8 DEF AcceptFind
  <2> QED
    BY <1>8, <2>1
<1>9. CASE AcceptOpen(r)
  <2>1. reqs'[r].pc = "accept"
    BY <1>9 DEF AcceptOpen
  <2> QED
    BY <1>9, <2>1
<1> QED
  BY <1>1, <1>2, <1>3, <1>4, <1>5, <1>6, <1>7, <1>8, <1>9, <1>10, <1>11
     DEF OwnStep, RemoveStep, AdminStep, AcceptStep

(* A handler that did not move is as it was; one that did made a step. *)
LEMMA StillOrMoved ==
  ASSUME MembershipAssumption, TypeOK, [SuperNext]_vars, NEW r \in Requests
  PROVE  reqs'[r] = reqs[r] \/ OwnStep(r)
BY OneMoves DEF Becomes, TypeOK

LEMMA NextRowsBorn ==
  ASSUME MembershipAssumption, TypedRows, [SuperNext]_vars
  PROVE  RowsBorn'
<1> SUFFICES ASSUME NEW r \in Requests
             PROVE  /\ reqs'[r].pc \in {"withdraw", "expire", "open", "accept"} =>
                         BornInvitation(reqs[r].invitation)'
                    /\ reqs'[r].pc = "accept" =>
                         /\ Stored(reqs[r].invitation)'
                         /\ reqs'[r].found # NotFound =>
                              /\ BornMember(reqs[r].found.id)'
                              /\ members'[reqs'[r].found.id].user = Offered(r)'.user
                    /\ reqs'[r].pc \in {"clear", "leave"} => BornMember(reqs[r].member)'
  BY DEF RowsBorn, Holds
<1>1. CASE reqs'[r] = reqs[r]
  <2>1. CASE reqs[r].pc \in {"withdraw", "expire", "open"}
    <3>1. reqs[r].invitation \in Invitations /\ BornInvitation(reqs[r].invitation)
      BY <2>1, HandlerShape DEF TypedRows, RowsBorn, Holds
    <3> QED
      BY <1>1, <2>1, <3>1, InvitationsTyped DEF GoesOn, BornInvitation
  <2>2. CASE Holds(r, "accept")
    <3>1. Locked(reqs[r].invitation) /\ Stored(reqs[r].invitation)
      BY <2>2 DEF Locked, TypedRows, RowsBorn
    <3>2. reqs[r].invitation \in Invitations /\ BornInvitation(reqs[r].invitation)
      BY <2>2, AcceptShape
    <3>3. BornInvitation(reqs[r].invitation)' /\ Offered(r)' = Offered(r)
      BY <1>1, <3>2, InvitationsTyped DEF GoesOn, Offered, BornInvitation
    <3>4. Stored(reqs[r].invitation)'
      BY <1>1, <3>1, <3>2, InvitationsTyped DEF Stored
    <3>5. ASSUME reqs[r].found # NotFound
          PROVE  /\ BornMember(reqs[r].found.id)'
                 /\ members'[reqs'[r].found.id].user = Offered(r)'.user
      <4>1. /\ reqs[r].found.id \in MemberIds /\ BornMember(reqs[r].found.id)
            /\ members[reqs[r].found.id].user = Offered(r).user
        BY <2>2, <3>5, AcceptShape DEF TypedRows, RowsBorn
      <4> QED
        BY <1>1, <3>3, <4>1, MembersTyped DEF BornMember
    <3> QED
      BY <1>1, <3>3, <3>4, <3>5, <2>2 DEF Holds
  <2>3. CASE reqs[r].pc \in {"clear", "leave"}
    <3>1. reqs[r].member \in MemberIds /\ BornMember(reqs[r].member)
      BY <2>3, HandlerShape DEF TypedRows, RowsBorn
    <3> QED
      BY <1>1, <2>3, <3>1, MembersTyped DEF BornMember
  <2> QED
    BY <1>1, <2>1, <2>2, <2>3 DEF Holds
<1>5. ASSUME OwnStep(r), reqs'[r].pc \in {"clear", "leave"}
      PROVE  BornMember(reqs[r].member)'
  <2>1. RemoveTenants(r) \/ RemoveEntitlements(r)
    BY <1>5, Enters DEF TypedRows
  <2>2. members' = members /\ reqs'[r].member = reqs[r].member
    BY <1>5, <2>1 DEF RemoveTenants, RemoveEntitlements, Becomes, Idle, TypedRows, TypeOK
  <2>3. BornMember(reqs[r].member)
    BY <1>5, <2>1, <2>2 DEF RemoveTenants, RemoveEntitlements, Becomes, Idle, Holds, In, BornMember,
       TypedRows, TypeOK, RowsBorn
  <2> QED
    BY <2>2, <2>3 DEF BornMember
<1>2. ASSUME OwnStep(r), reqs'[r].pc = "withdraw"
      PROVE  BornInvitation(reqs[r].invitation)'
  <2>1. PICK actor \in Users, work \in AdminWork : Authorize(r, actor, work) /\ reqs'[r] = work
    BY <1>2, Enters DEF TypedRows
  <2> QED
    BY <1>2, <2>1 DEF Authorize, Names, BornInvitation
<1>3. ASSUME OwnStep(r), reqs'[r].pc \in {"expire", "open"}
      PROVE  BornInvitation(reqs[r].invitation)'
  <2>1. PICK i \in Invitations : AcceptFind(r, i)
    BY <1>3, Enters DEF TypedRows
  <2>2. reqs'[r].invitation = i /\ invitations' = invitations
    BY <2>1 DEF AcceptFind, Becomes, TypedRows, TypeOK
  <2> QED
    BY <2>1, <2>2 DEF AcceptFind, Stored, BornInvitation
<1>4. ASSUME OwnStep(r), reqs'[r].pc = "accept"
      PROVE  /\ BornInvitation(reqs[r].invitation)'
             /\ Stored(reqs[r].invitation)'
             /\ reqs'[r].found # NotFound =>
                  /\ BornMember(reqs[r].found.id)'
                  /\ members'[reqs'[r].found.id].user = Offered(r)'.user
  <2> DEFINE i == reqs[r].invitation
  <2>1. AcceptOpen(r)
    BY <1>4, Enters DEF TypedRows
  <2>2. PICK found \in IF MembershipsOf(invitations[i].offer.user) = {} THEN {NotFound}
                        ELSE {[id |-> m, role |-> members[m].role] :
                                m \in MembershipsOf(invitations[i].offer.user)} :
           Becomes(r, [pc |-> "accept", invitation |-> i, found |-> found])
    BY <2>1 DEF AcceptOpen
  <2>3. reqs'[r] = [pc |-> "accept", invitation |-> i, found |-> found]
    BY <2>2 DEF Becomes, TypedRows, TypeOK
  <2>4. UNCHANGED <<members, invitations>> /\ Stored(i)
    BY <2>1 DEF AcceptOpen
  <2>5. found # NotFound => /\ BornMember(found.id)
                            /\ members[found.id].user = invitations[i].offer.user
    BY <2>2 DEF MembershipsOf, In, BornMember
  <2> QED
    BY <2>3, <2>4, <2>5 DEF Stored, BornInvitation, BornMember, Offered
<1> QED
  BY <1>1, <1>2, <1>3, <1>4, <1>5, StillOrMoved DEF TypedRows

-----------------------------------------------------------------------------
(* met tells of every two handlers that are in the middle of their work at  *)
(* the same time.                                                           *)

RacesMet ==
  \A q, r \in Requests, race \in Races :
    q # r /\ (\E one \in KindsOf(reqs[q]), other \in KindsOf(reqs[r]) : race = {one, other})
    => race \in met

LEMMA NextRacesMet ==
  ASSUME MembershipAssumption, TypeOK, RacesMet, [SuperNext]_vars
  PROVE  RacesMet' /\ met \subseteq met'
<1>1. CASE reqs' = reqs /\ met \subseteq met'
  BY <1>1 DEF RacesMet
<1>2. ASSUME NEW r \in Requests, NEW h \in Handlers, Becomes(r, h)
      PROVE  RacesMet' /\ met \subseteq met'
  <2>1. reqs'[r] = h /\ \A q \in Requests \ {r} : reqs'[q] = reqs[q]
    BY <1>2 DEF Becomes, TypeOK
  <2>2. met \subseteq met'
    BY <1>2 DEF Becomes
  <2>3. \A q \in Requests \ {r}, race \in Races :
          (\E one \in KindsOf(h), other \in KindsOf(reqs[q]) : race = {one, other})
          => race \in met'
    BY <1>2 DEF Becomes
  <2> HIDE DEF Handlers
  <2> SUFFICES ASSUME NEW p \in Requests, NEW q \in Requests, NEW race \in Races, p # q,
                      NEW one \in KindsOf(reqs'[p]), NEW other \in KindsOf(reqs'[q]),
                      race = {one, other}
               PROVE  race \in met'
    BY <2>2 DEF RacesMet, KindsOf
  <2>4. CASE p # r /\ q # r
    BY <2>1, <2>2, <2>4 DEF RacesMet
  <2>5. CASE p = r
    BY <2>1, <2>3, <2>5
  <2>6. CASE q = r
    <3>1. race = {other, one} /\ p # r
      BY <2>6
    <3> QED
      BY <2>1, <2>3, <2>6, <3>1
  <2> QED
    BY <2>4, <2>5, <2>6
<1> QED
  BY <1>1, <1>2, OneMoves

(* What two handlers at work on the same thing leave in met. *)
LEMMA Overlaps ==
  ASSUME RacesMet, NEW q \in Requests, NEW r \in Requests, q # r
  PROVE  /\ reqs[q].pc \in {"count", "remove", "clear", "leave"}
            /\ reqs[r].pc \in {"count", "remove", "clear", "leave"} => {"remove"} \in met
         /\ reqs[q].pc \in {"open", "accept"} /\ reqs[r].pc \in {"open", "accept"} => {"accept"} \in met
         /\ reqs[q].pc = "create" /\ reqs[r].pc = "create" => {"create"} \in met
         /\ reqs[q].pc = "grant" /\ reqs[r].pc = "leave" => {"grant", "leave"} \in met
         /\ reqs[q].pc = "accept" /\ reqs[r].pc = "leave" => {"settle", "leave"} \in met
<1>1. ASSUME NEW p \in Requests
      PROVE  /\ reqs[p].pc \in {"count", "remove", "clear", "leave"} => "remove" \in KindsOf(reqs[p])
             /\ reqs[p].pc \in {"open", "accept"} => "accept" \in KindsOf(reqs[p])
             /\ reqs[p].pc = "create" => "create" \in KindsOf(reqs[p])
             /\ reqs[p].pc = "grant" => "grant" \in KindsOf(reqs[p])
             /\ reqs[p].pc = "leave" => "leave" \in KindsOf(reqs[p])
             /\ reqs[p].pc = "accept" => "settle" \in KindsOf(reqs[p])
  BY DEF KindsOf, Stages
<1>2. ASSUME NEW one \in KindsOf(reqs[q]), NEW other \in KindsOf(reqs[r]), {one, other} \in Races
      PROVE  {one, other} \in met
  BY <1>2 DEF RacesMet
<1>3. /\ {"remove", "remove"} \in Races /\ {"accept", "accept"} \in Races
      /\ {"create", "create"} \in Races
      /\ {"grant", "leave"} \in Races /\ {"settle", "leave"} \in Races
  BY DEF Races
<1>4. {"remove", "remove"} = {"remove"} /\ {"accept", "accept"} = {"accept"}
      /\ {"create", "create"} = {"create"}
  OBVIOUS
<1>5. ASSUME reqs[q].pc \in {"count", "remove", "clear", "leave"}, reqs[r].pc \in {"count", "remove", "clear", "leave"}
      PROVE  {"remove"} \in met
  <2>1. "remove" \in KindsOf(reqs[q]) /\ "remove" \in KindsOf(reqs[r])
    BY <1>1, <1>5
  <2>2. {"remove", "remove"} \in met
    BY <1>2, <1>3, <2>1
  <2> QED
    BY <1>4, <2>2
<1>6. ASSUME reqs[q].pc \in {"open", "accept"}, reqs[r].pc \in {"open", "accept"}
      PROVE  {"accept"} \in met
  <2>1. "accept" \in KindsOf(reqs[q]) /\ "accept" \in KindsOf(reqs[r])
    BY <1>1, <1>6
  <2>2. {"accept", "accept"} \in met
    BY <1>2, <1>3, <2>1
  <2> QED
    BY <1>4, <2>2
<1>7. ASSUME reqs[q].pc = "create", reqs[r].pc = "create"
      PROVE  {"create"} \in met
  <2>1. "create" \in KindsOf(reqs[q]) /\ "create" \in KindsOf(reqs[r])
    BY <1>1, <1>7
  <2>2. {"create", "create"} \in met
    BY <1>2, <1>3, <2>1
  <2> QED
    BY <1>4, <2>2
<1>8. ASSUME reqs[q].pc = "grant", reqs[r].pc = "leave"
      PROVE  {"grant", "leave"} \in met
  <2>1. "grant" \in KindsOf(reqs[q]) /\ "leave" \in KindsOf(reqs[r])
    BY <1>1, <1>8
  <2> QED
    BY <1>2, <1>3, <2>1
<1>9. ASSUME reqs[q].pc = "accept", reqs[r].pc = "leave"
      PROVE  {"settle", "leave"} \in met
  <2>1. "settle" \in KindsOf(reqs[q]) /\ "leave" \in KindsOf(reqs[r])
    BY <1>1, <1>9
  <2> QED
    BY <1>2, <1>3, <2>1
<1> QED
  BY <1>5, <1>6, <1>7, <1>8, <1>9

-----------------------------------------------------------------------------
(* The profile row serves one acceptance of a user at a time. *)

ServedAlone ==
  \A q, r \in Requests :
    q # r /\ Holds(q, "accept") /\ Holds(r, "accept") => Offered(q).user # Offered(r).user

LEMMA NextServedAlone ==
  ASSUME MembershipAssumption, TypedRows, ServedAlone, [SuperNext]_vars
  PROVE  ServedAlone'
<1>1. ASSUME NEW r \in Requests, reqs'[r] = reqs[r], Holds(r, "accept")
      PROVE  Offered(r)' = Offered(r)
  BY <1>1, AcceptShape, InvitationsTyped DEF GoesOn, Offered
<1>2. ASSUME NEW q \in Requests, NEW r \in Requests, q # r,
             AcceptOpen(q), reqs'[r].pc = "accept"
      PROVE  Offered(q)'.user # Offered(r)'.user
  <2> DEFINE i == reqs[q].invitation
  <2>1. PICK found :
          Becomes(q, [pc |-> "accept", invitation |-> i, found |-> found])
    BY <1>2 DEF AcceptOpen
  <2>2. /\ reqs'[q] = [pc |-> "accept", invitation |-> i, found |-> found]
        /\ reqs'[r] = reqs[r] /\ invitations' = invitations
    BY <1>2, <2>1 DEF Becomes, AcceptOpen, TypedRows, TypeOK
  <2>3. Holds(r, "accept") /\ ~ ProfileHeld(invitations[i].offer.user)
    BY <1>2, <2>2 DEF AcceptOpen, Holds
  <2> QED
    BY <2>2, <2>3 DEF ProfileHeld, Offered
<1> SUFFICES ASSUME NEW q \in Requests, NEW r \in Requests, q # r,
                    reqs'[q].pc = "accept", reqs'[r].pc = "accept"
             PROVE  Offered(q)'.user # Offered(r)'.user
  BY DEF ServedAlone, Holds
<1>3. CASE reqs'[q] = reqs[q] /\ reqs'[r] = reqs[r]
  BY <1>1, <1>3 DEF ServedAlone, Holds
<1>4. CASE OwnStep(q)
  BY <1>2, <1>4, Enters DEF TypedRows
<1>5. CASE OwnStep(r)
  BY <1>2, <1>5, Enters DEF TypedRows
<1> QED
  BY <1>3, <1>4, <1>5, StillOrMoved DEF TypedRows

(* The invariant all theorems below start from. *)
BaseInv == TypedRows /\ RacesMet /\ ServedAlone

LEMMA InitBaseInv == MembershipAssumption /\ Init => BaseInv
<1>1. Init => RacesMet /\ ServedAlone
  BY DEF Init, RacesMet, ServedAlone, Holds, KindsOf, Stages, Idle
<1> QED
  BY <1>1, InitTypes DEF BaseInv

LEMMA NextBaseInv ==
  ASSUME MembershipAssumption, BaseInv, [SuperNext]_vars
  PROVE  BaseInv' /\ met \subseteq met'
BY NextTypes, NextRowsBorn, NextRacesMet, NextServedAlone DEF BaseInv, TypedRows

(* TypeOK holds in every reachable state, whoever acts. *)
THEOREM TypesHold == SuperSpec => []TypeOK
<1>1. Init => BaseInv
  BY InitBaseInv, MembershipAssumption
<1>2. BaseInv /\ [SuperNext]_vars => BaseInv'
  BY NextBaseInv, MembershipAssumption
<1>3. BaseInv => TypeOK
  BY DEF BaseInv, TypedRows
<1> QED
  BY <1>1, <1>2, <1>3, PTL DEF SuperSpec

-----------------------------------------------------------------------------
(* Invitations only raise *)

(* The membership an acceptance has read still has the role it read, unless *)
(* a super administrator wrote it: another acceptance of the user waits.    *)
FoundIsCurrent ==
  {"edit"} \notin met =>
    \A r \in Requests :
      Holds(r, "accept") /\ reqs[r].found # NotFound =>
        members[reqs[r].found.id].role = reqs[r].found.role

LEMMA NextFoundIsCurrent ==
  ASSUME MembershipAssumption, BaseInv, FoundIsCurrent, [SuperNext]_vars
  PROVE  FoundIsCurrent'
<1> SUFFICES ASSUME {"edit"} \notin met', NEW r \in Requests,
                    reqs'[r].pc = "accept", reqs'[r].found # NotFound
             PROVE  members'[reqs'[r].found.id].role = reqs'[r].found.role
  BY DEF FoundIsCurrent, Holds
<1>1. {"edit"} \notin met
  BY NextBaseInv
<1>2. CASE reqs'[r] = reqs[r]
  <2> DEFINE f == reqs[r].found
  <2>1. Holds(r, "accept") /\ f # NotFound
    BY <1>2 DEF Holds
  <2>2. /\ f.id \in MemberIds /\ BornMember(f.id)
        /\ members[f.id].role = f.role
    BY <1>1, <2>1, AcceptShape DEF FoundIsCurrent, BaseInv, TypedRows, RowsBorn
  <2>3. ASSUME NEW q \in Requests, Remove(q)
        PROVE  members'[f.id].role = f.role
    <3>1. reqs[q].member \in MemberIds
      BY <2>3, HandlerShape DEF Remove, BaseInv, TypedRows, Holds
    <3> QED
      BY <2>2, <2>3, <3>1 DEF Remove, In, BaseInv, TypedRows, TypeOK, MemberRows, Unborn
  <2>4. ASSUME NEW q \in Requests, AcceptRaise(q)
        PROVE  members'[f.id].role = f.role
    <3>1. reqs'[q] = Idle /\ Holds(q, "accept")
      BY <2>4 DEF AcceptRaise, Settle, Becomes, BaseInv, TypedRows, TypeOK
    <3>2. q # r
      BY <1>2, <2>1, <3>1 DEF Idle, Holds
    <3>3. Offered(q).user # Offered(r).user
      BY <2>1, <3>1, <3>2 DEF ServedAlone, BaseInv
    <3>4. /\ reqs[q].found.id \in MemberIds
          /\ members[reqs[q].found.id].user = Offered(q).user
          /\ members[f.id].user = Offered(r).user
      BY <2>1, <2>4, <3>1, AcceptShape DEF AcceptRaise, BaseInv, TypedRows, RowsBorn
    <3>5. members' = [members EXCEPT ![reqs[q].found.id].role = Offered(q).role]
      BY <2>4 DEF AcceptRaise
    <3>6. members'[f.id] = members[f.id]
      BY <2>2, <3>3, <3>4, <3>5 DEF BaseInv, TypedRows, TypeOK
    <3> QED
      BY <2>2, <3>6
  <2>5. ASSUME NEW q \in Requests, NEW m \in MemberIds, AcceptJoin(q, m)
        PROVE  members'[f.id].role = f.role
    BY <2>2, <2>5 DEF AcceptJoin, BornMember
  <2>6. ASSUME NEW m \in MemberIds, NEW role \in DOMAIN Rank, SuperEdit(m, role)
        PROVE  FALSE
    BY <2>6 DEF SuperEdit, Did
  <2> QED
    BY <1>2, <2>2, <2>3, <2>4, <2>5, <2>6, MembersChange
<1>3. CASE OwnStep(r)
  <2> DEFINE i == reqs[r].invitation
  <2>1. AcceptOpen(r)
    BY <1>3, Enters DEF BaseInv, TypedRows
  <2>2. PICK found \in IF MembershipsOf(invitations[i].offer.user) = {} THEN {NotFound}
                        ELSE {[id |-> m, role |-> members[m].role] :
                                m \in MembershipsOf(invitations[i].offer.user)} :
           Becomes(r, [pc |-> "accept", invitation |-> i, found |-> found])
    BY <2>1 DEF AcceptOpen
  <2>3. reqs'[r] = [pc |-> "accept", invitation |-> i, found |-> found]
    BY <2>2 DEF Becomes, BaseInv, TypedRows, TypeOK
  <2>4. members' = members
    BY <2>1 DEF AcceptOpen
  <2> QED
    BY <2>2, <2>3, <2>4
<1> QED
  BY <1>2, <1>3, StillOrMoved DEF BaseInv, TypedRows

(* An acceptance that raises a role raises the one the member has. *)
LEMMA RaisesTheRole ==
  ASSUME MembershipAssumption, BaseInv, FoundIsCurrent,
         {"edit"} \notin met, NEW r \in Requests, AcceptRaise(r)
  PROVE  /\ reqs[r].found.id \in MemberIds
         /\ members' = [members EXCEPT ![reqs[r].found.id].role = Offered(r).role]
         /\ Offered(r).role \in DOMAIN Rank
         /\ Rank[members[reqs[r].found.id].role] < Rank[Offered(r).role]
<1>1. Holds(r, "accept") /\ reqs[r].found # NotFound
  BY DEF AcceptRaise
<1> QED
  BY <1>1, AcceptShape DEF AcceptRaise, FoundIsCurrent, BaseInv

LEMMA StepsOnlyRaise ==
  ASSUME MembershipAssumption, BaseInv, FoundIsCurrent, [SuperNext]_vars,
         NEW m \in MemberIds, In(m), In(m)', Rank[members'[m].role] < Rank[members[m].role]
  PROVE  {"edit"} \in met'
<1> SUFFICES ASSUME {"edit"} \notin met'
             PROVE  FALSE
  OBVIOUS
<1>1. {"edit"} \notin met
  BY NextBaseInv
<1>2. \A x \in DOMAIN Rank : Rank[x] \in Nat
  BY DEF Rank
<1>3. members[m] \in MemberRows /\ members[m].role \in DOMAIN Rank
  BY DEF BaseInv, TypedRows, TypeOK, MemberRows, Unborn, In
<1>4. ASSUME NEW r \in Requests, Remove(r)
      PROVE  members'[m].role = members[m].role
  <2>1. reqs[r].member \in MemberIds
    BY <1>4, HandlerShape DEF Remove, BaseInv, TypedRows, Holds
  <2> QED
    BY <1>3, <1>4, <2>1 DEF Remove, In, BaseInv, TypedRows, TypeOK, MemberRows, Unborn
<1>5. ASSUME NEW r \in Requests, AcceptRaise(r), members'[m].role # members[m].role
      PROVE  Rank[members[m].role] < Rank[members'[m].role]
  <2> DEFINE x == reqs[r].found.id
  <2>1. /\ x \in MemberIds
        /\ members' = [members EXCEPT ![x].role = Offered(r).role]
        /\ Rank[members[x].role] < Rank[Offered(r).role]
    BY <1>1, <1>5, RaisesTheRole
  <2>2. In(x)
    BY <1>5 DEF AcceptRaise
  <2> HIDE DEF x
  <2>3. m # x => members'[m].role = members[m].role
    BY <2>1 DEF BaseInv, TypedRows, TypeOK
  <2>4. members'[x].role = Offered(r).role
    BY <2>1, <2>2 DEF BaseInv, TypedRows, TypeOK, MemberRows, Unborn, In
  <2> QED
    BY <1>5, <2>1, <2>3, <2>4
<1>6. ASSUME NEW r \in Requests, NEW x \in MemberIds, AcceptJoin(r, x)
      PROVE  members'[m] = members[m]
  BY <1>6 DEF AcceptJoin, In, BaseInv, TypedRows, TypeOK
<1>7. ASSUME NEW x \in MemberIds, NEW role \in DOMAIN Rank, SuperEdit(x, role)
      PROVE  FALSE
  BY <1>7 DEF SuperEdit, Did
<1>8. members'[m].role # members[m].role
  BY <1>2, <1>3
<1>9. PICK r \in Requests : AcceptRaise(r)
  BY <1>4, <1>6, <1>7, <1>8, MembersChange
<1>10. members'[m].role \in DOMAIN Rank
  BY MembersTyped DEF BaseInv, MemberRows, Unborn, In
<1> QED
  BY <1>2, <1>3, <1>5, <1>8, <1>9, <1>10

(* Accepting an invitation never lowers a member's role, whatever else      *)
(* happens meanwhile, but for a super administrator's edit.                 *)
THEOREM RolesOnlyRise == SuperSpec => InvitationsOnlyRaise
<1>1. Init => BaseInv /\ FoundIsCurrent
  <2>1. Init => FoundIsCurrent
    BY DEF Init, FoundIsCurrent, Holds, Idle
  <2> QED
    BY <2>1, InitBaseInv, MembershipAssumption
<1>2. BaseInv /\ FoundIsCurrent /\ [SuperNext]_vars => (BaseInv /\ FoundIsCurrent)'
  BY NextBaseInv, NextFoundIsCurrent, MembershipAssumption
<1>3. BaseInv /\ FoundIsCurrent /\ [SuperNext]_vars =>
        [\A m \in MemberIds :
           In(m) /\ In(m)' /\ Rank[members'[m].role] < Rank[members[m].role] =>
             {"edit"} \in met']_vars
  BY StepsOnlyRaise, MembershipAssumption
<1> QED
  BY <1>1, <1>2, <1>3, PTL DEF SuperSpec, InvitationsOnlyRaise

-----------------------------------------------------------------------------
(* Owners *)

(* Short of a race, there is an owner, and one that no removal on its way   *)
(* is about to take.                                                        *)
Removing == {"remove", "clear", "leave"}

OwnerRemains ==
  met \cap {{"remove"}, {"edit"}} = {} =>
    /\ Owners # {}
    /\ \A r \in Requests : reqs[r].pc \in Removing => \E o \in Owners : o # reqs[r].member

(* More than one owner: whichever member is removed, another is left. *)
LEMMA AnotherOwner ==
  ASSUME NEW m, ~ (Cardinality(Owners) <= 1)
  PROVE  \E o \in Owners : o # m
<1> SUFFICES ASSUME Owners \subseteq {m}  PROVE FALSE
  OBVIOUS
<1>1. CASE Owners = {}
  BY <1>1, FS_EmptySet
<1>2. CASE Owners = {m}
  BY <1>2, FS_Singleton, SMTT(20)
<1> QED
  BY <1>1, <1>2

(* Removing a member is the only step that costs an owner. *)
LEMMA OwnersStay ==
  ASSUME MembershipAssumption, BaseInv, FoundIsCurrent, [SuperNext]_vars,
         {"edit"} \notin met', NEW o \in Owners
  PROVE  o \in Owners' \/ \E q \in Requests : Remove(q) /\ reqs[q].member = o
<1>1. {"edit"} \notin met
  BY NextBaseInv
<1>2. o \in MemberIds /\ In(o) /\ members[o].role = "OWNER"
  BY DEF Owners
<1>3. members[o] \in MemberRows /\ DOMAIN members = MemberIds
  BY <1>2 DEF BaseInv, TypedRows, TypeOK
<1>4. CASE members' = members
  BY <1>2, <1>4 DEF Owners, In
<1>5. ASSUME NEW q \in Requests, Remove(q), reqs[q].member # o
      PROVE  o \in Owners'
  <2>1. members' = [members EXCEPT ![reqs[q].member].status = "out"]
    BY <1>5 DEF Remove
  <2>2. members'[o] = members[o]
    BY <1>2, <1>3, <1>5, <2>1
  <2> QED
    BY <1>2, <2>2 DEF Owners, In
<1>6. ASSUME NEW q \in Requests, AcceptRaise(q)
      PROVE  o \in Owners'
  <2>1. /\ members' = [members EXCEPT ![reqs[q].found.id].role = Offered(q).role]
        /\ Offered(q).role \in DOMAIN Rank
        /\ Rank[members[reqs[q].found.id].role] < Rank[Offered(q).role]
    BY <1>1, <1>6, RaisesTheRole
  <2>2. reqs[q].found.id # o
    BY <1>2, <2>1 DEF Rank
  <2>3. members'[o] = members[o]
    BY <1>2, <1>3, <2>1, <2>2
  <2> QED
    BY <1>2, <2>3 DEF Owners, In
<1>7. ASSUME NEW q \in Requests, NEW m \in MemberIds, AcceptJoin(q, m)
      PROVE  o \in Owners'
  <2>1. m # o /\ members'[o] = members[o]
    BY <1>2, <1>3, <1>7 DEF AcceptJoin, In
  <2> QED
    BY <1>2, <2>1 DEF Owners, In
<1>8. ASSUME NEW m \in MemberIds, NEW role \in DOMAIN Rank, SuperEdit(m, role)
      PROVE  FALSE
  BY <1>8 DEF SuperEdit, Did
<1> QED
  BY <1>4, <1>5, <1>6, <1>7, <1>8, MembersChange

LEMMA NextOwnerRemains ==
  ASSUME MembershipAssumption, BaseInv, FoundIsCurrent, OwnerRemains, [SuperNext]_vars
  PROVE  OwnerRemains'
<1> SUFFICES ASSUME met' \cap {{"remove"}, {"edit"}} = {}
             PROVE  /\ Owners' # {}
                    /\ \A r \in Requests : reqs'[r].pc \in Removing =>
                         \E o \in Owners' : o # reqs'[r].member
  BY DEF OwnerRemains
<1>1. met \cap {{"remove"}, {"edit"}} = {}
  BY NextBaseInv
<1>2. CASE \E q \in Requests : Remove(q)
  <2>1. PICK q \in Requests : Remove(q)
    BY <1>2
  <2>2. PICK o \in Owners : o # reqs[q].member
    BY <1>1, <2>1 DEF OwnerRemains, Remove, Removing, Holds
  <2>3. o \in Owners'
    <3>1. o \in MemberIds /\ members'[o] = members[o]
      BY <2>1, <2>2 DEF Remove, Owners, BaseInv, TypedRows, TypeOK
    <3> QED
      BY <3>1 DEF Owners, In
  <2>4. ASSUME NEW r \in Requests, reqs'[r].pc \in Removing
        PROVE  FALSE
    <3>1. reqs'[q] = Idle /\ Holds(q, "leave")
      BY <2>1 DEF Remove, Becomes, BaseInv, TypedRows, TypeOK
    <3>2. q # r
      BY <2>4, <3>1 DEF Idle, Removing
    <3>3. reqs'[r] = reqs[r]
      BY <2>1, <3>2 DEF Remove, Becomes, BaseInv, TypedRows, TypeOK
    <3> QED
      BY <1>1, <2>4, <3>1, <3>2, <3>3, Overlaps DEF Holds, BaseInv, Removing
  <2> QED
    BY <2>3, <2>4
<1>3. CASE ~ \E q \in Requests : Remove(q)
  <2>1. Owners \subseteq Owners'
    BY <1>3, OwnersStay
  <2>2. Owners' # {}
    BY <1>1, <2>1 DEF OwnerRemains
  <2>3. ASSUME NEW r \in Requests, reqs'[r].pc \in Removing
        PROVE  \E o \in Owners : o # reqs'[r].member
    <3>1. CASE reqs'[r] = reqs[r]
      BY <1>1, <2>3, <3>1 DEF OwnerRemains
    <3>2. CASE RemoveTarget(r)
      <4>1. members[reqs[r].member].role # "OWNER" /\ reqs'[r].member = reqs[r].member
        BY <2>3, <3>2 DEF RemoveTarget, Becomes, Idle, Removing, BaseInv, TypedRows, TypeOK
      <4> QED
        BY <1>1, <4>1 DEF OwnerRemains, Owners
    <3>3. CASE RemoveCount(r)
      <4>1. ~ (Cardinality(Owners) <= 1)
        BY <2>3, <3>3 DEF RemoveCount, Becomes, Idle, Removing, BaseInv, TypedRows, TypeOK
      <4> QED
        BY <4>1, AnotherOwner
    <3>4. CASE RemoveTenants(r) \/ RemoveEntitlements(r)
      <4>1. reqs[r].pc \in Removing /\ reqs'[r].member = reqs[r].member
        BY <2>3, <3>4 DEF RemoveTenants, RemoveEntitlements, Holds, Becomes, Idle, Removing,
           BaseInv, TypedRows, TypeOK
      <4> QED
        BY <1>1, <4>1 DEF OwnerRemains
    <3> QED
      BY <2>3, <3>1, <3>2, <3>3, <3>4, StillOrMoved, Enters DEF BaseInv, TypedRows, Removing
  <2> QED
    BY <2>1, <2>2, <2>3
<1> QED
  BY <1>2, <1>3

LEMMA InitOwnerRemains == MembershipAssumption /\ Init => OwnerRemains /\ FoundIsCurrent
<1> SUFFICES ASSUME Init  PROVE OwnerRemains /\ FoundIsCurrent
  OBVIOUS
<1>1. PICK m \in MemberIds :
        members = [x \in MemberIds |->
                     IF x = m THEN [status |-> "in", user |-> Founder, role |-> "OWNER"]
                     ELSE Unborn]
  BY DEF Init
<1>2. m \in Owners
  BY <1>1 DEF Owners, In
<1>3. \A r \in Requests : reqs[r].pc = "idle"
  BY DEF Init, Idle
<1> QED
  BY <1>2, <1>3 DEF OwnerRemains, FoundIsCurrent, Holds, Removing

(* Whatever administrators, invitees and super administrators do, the       *)
(* organization keeps an owner, unless two removals overlapped or a super   *)
(* administrator edited a role.                                             *)
THEOREM OwnerRemainsButForRaces == SuperSpec => []OwnerlessOnlyByRace
<1> DEFINE Inv == BaseInv /\ FoundIsCurrent /\ OwnerRemains
<1>1. Init => Inv
  BY InitBaseInv, InitOwnerRemains, MembershipAssumption
<1>2. Inv /\ [SuperNext]_vars => Inv'
  BY NextBaseInv, NextFoundIsCurrent, NextOwnerRemains, MembershipAssumption
<1>3. Inv => OwnerlessOnlyByRace
  BY DEF OwnerRemains, OwnerlessOnlyByRace
<1> QED
  BY <1>1, <1>2, <1>3, PTL DEF SuperSpec

-----------------------------------------------------------------------------
(* Open invitations *)

(* Invitations are born in the order of their numbers. *)
InOrder ==
  \A i, j \in Invitations : i < j /\ BornInvitation(j) => BornInvitation(i)

(* Short of a race, only the latest invitation of a user can be open, and   *)
(* none is when a handler is about to create another.                       *)
OneOpen ==
  {"create"} \notin met =>
    /\ \A i, j \in Invitations :
         /\ i < j
         /\ BornInvitation(i) /\ BornInvitation(j)
         /\ invitations[i].offer.user = invitations[j].offer.user
         => ~ Open(i)
    /\ \A r \in Requests, i \in Invitations :
         Holds(r, "create") /\ Open(i) => invitations[i].offer.user # reqs[r].offer.user

LEMMA BornByCreate ==
  ASSUME MembershipAssumption, BaseInv, [SuperNext]_vars,
         NEW i \in Invitations, ~ BornInvitation(i), BornInvitation(i)'
  PROVE  \E r \in Requests : InviteCreate(r)
<1> USE DEF BaseInv, TypedRows, TypeOK, BornInvitation
<1>1. ASSUME NEW k \in Invitations, BornInvitation(k),
             \A x \in Invitations \ {k} : invitations'[x] = invitations[x]
      PROVE  FALSE
  BY <1>1
<1>2. ASSUME NEW r \in Requests, Withdraw(r) \/ AcceptExpire(r)
      PROVE  FALSE
  <2>1. reqs[r].invitation \in Invitations /\ BornInvitation(reqs[r].invitation)
    BY <1>2, HandlerShape DEF Withdraw, AcceptExpire, Stored
  <2>2. \A x \in Invitations \ {reqs[r].invitation} : invitations'[x] = invitations[x]
    BY <1>2, <2>1 DEF Withdraw, AcceptExpire
  <2> QED
    BY <1>1, <2>1, <2>2
<1>3. ASSUME NEW r \in Requests, AcceptRaise(r) \/ AcceptKeep(r) \/ \E m \in MemberIds : AcceptJoin(r, m)
      PROVE  FALSE
  <2>1. reqs[r].invitation \in Invitations /\ BornInvitation(reqs[r].invitation)
    BY <1>3, AcceptShape DEF AcceptRaise, AcceptKeep, AcceptJoin
  <2>2. invitations' = [invitations EXCEPT ![reqs[r].invitation].status = "ACCEPTED"]
    BY <1>3 DEF AcceptRaise, AcceptKeep, AcceptJoin, Settle
  <2> QED
    BY <1>1, <2>1, <2>2
<1>4. ASSUME NEW k \in Invitations, InvitationExpires(k)
      PROVE  FALSE
  BY <1>1, <1>4 DEF InvitationExpires, Stored
<1>5. invitations' # invitations
  OBVIOUS
<1> QED
  BY <1>2, <1>3, <1>4, <1>5, InvitationsChange

(* Nothing but its creation opens an invitation. *)
LEMMA OpenBefore ==
  ASSUME MembershipAssumption, BaseInv, [SuperNext]_vars,
         NEW i \in Invitations, BornInvitation(i), Open(i)'
  PROVE  Open(i)
<1>1. GoesOn(i)
  BY InvitationsTyped DEF BaseInv
<1> QED
  BY <1>1 DEF GoesOn, Open

LEMMA NextOneOpen ==
  ASSUME MembershipAssumption, BaseInv, InOrder, OneOpen, [SuperNext]_vars
  PROVE  InOrder' /\ OneOpen'
<1>1. \A i \in Invitations : BornInvitation(i) =>
        BornInvitation(i)' /\ invitations'[i].offer = invitations[i].offer
  BY InvitationsTyped DEF BaseInv, GoesOn
<1>2. {"create"} \notin met' => {"create"} \notin met
  BY NextBaseInv
<1>3. CASE \E q \in Requests : InviteCreate(q)
  <2>1. PICK q \in Requests : InviteCreate(q)
    BY <1>3
  <2>2. PICK k \in Invitations :
          /\ ~ BornInvitation(k)
          /\ \A j \in 1..(k - 1) : BornInvitation(j)
          /\ invitations' = [invitations EXCEPT ![k] =
                               [status |-> "PENDING", offer |-> reqs[q].offer, expired |-> FALSE]]
    BY <2>1 DEF InviteCreate, CreateInvitation, BornInvitation
  <2>3. \A i \in Invitations \ {k} : invitations'[i] = invitations[i]
    BY <2>2
  <2>4. invitations'[k].offer = reqs[q].offer
    BY <2>2 DEF BaseInv, TypedRows, TypeOK
  <2>5. \A i \in Invitations : (i < k => BornInvitation(i)) /\ (k < i => ~ BornInvitation(i))
    BY <2>2, MembershipAssumption DEF Invitations, InOrder, MembershipAssumption
  <2>6. \A i \in Invitations \ {k} : BornInvitation(i)' <=> BornInvitation(i)
    BY <2>3 DEF BornInvitation
  <2>7. InOrder'
    <3> SUFFICES ASSUME NEW i \in Invitations, NEW j \in Invitations, i < j, BornInvitation(j)'
                 PROVE  BornInvitation(i)'
      BY DEF InOrder
    <3>1. i \in Int /\ j \in Int /\ k \in Int
      BY DEF Invitations
    <3>2. i = k => BornInvitation(i)'
      BY <2>2 DEF BaseInv, TypedRows, TypeOK, BornInvitation
    <3> QED
      BY <2>5, <2>6, <3>1, <3>2 DEF InOrder
  <2>8. ASSUME {"create"} \notin met', NEW i \in Invitations, NEW j \in Invitations, i < j,
               BornInvitation(i)', BornInvitation(j)',
               invitations'[i].offer.user = invitations'[j].offer.user
        PROVE  ~ Open(i)'
    <3>1. i \in Int /\ j \in Int /\ k \in Int
      BY DEF Invitations
    <3>2. i # k
      BY <2>5, <2>6, <2>8, <3>1
    <3>3. BornInvitation(i)
      BY <2>6, <2>8, <3>2
    <3>4. CASE j = k
      BY <1>2, <2>1, <2>3, <2>4, <2>8, <3>2, <3>3, <3>4, OpenBefore DEF OneOpen, InviteCreate,
         CreateInvitation
    <3>5. CASE j # k
      BY <1>2, <2>3, <2>6, <2>8, <3>2, <3>3, <3>5, OpenBefore DEF OneOpen
    <3> QED
      BY <3>4, <3>5
  <2>9. ASSUME {"create"} \notin met', NEW r \in Requests, reqs'[r].pc = "create"
        PROVE  FALSE
    <3>1. reqs'[q] = Idle /\ Holds(q, "create")
      BY <2>1 DEF InviteCreate, CreateInvitation, Becomes, BaseInv, TypedRows, TypeOK
    <3>2. q # r
      BY <2>9, <3>1 DEF Idle
    <3>3. reqs'[r] = reqs[r]
      BY <2>1, <3>2 DEF InviteCreate, CreateInvitation, Becomes, BaseInv, TypedRows, TypeOK
    <3> QED
      BY <1>2, <2>9, <3>1, <3>2, <3>3, Overlaps DEF Holds, BaseInv
  <2> QED
    BY <2>7, <2>8, <2>9 DEF OneOpen, Holds
<1>4. CASE ~ \E q \in Requests : InviteCreate(q)
  <2>1. \A i \in Invitations : BornInvitation(i)' <=> BornInvitation(i)
    BY <1>1, <1>4, BornByCreate
  <2>2. \A i \in Invitations : Open(i)' => Open(i) /\ BornInvitation(i)
    <3> SUFFICES ASSUME NEW i \in Invitations, Open(i)'  PROVE Open(i) /\ BornInvitation(i)
      OBVIOUS
    <3>1. BornInvitation(i)'
      BY DEF Open, BornInvitation
    <3> QED
      BY <2>1, <3>1, OpenBefore
  <2>3. InOrder'
    BY <2>1 DEF InOrder
  <2>4. ASSUME {"create"} \notin met', NEW i \in Invitations, NEW j \in Invitations, i < j,
               BornInvitation(i)', BornInvitation(j)',
               invitations'[i].offer.user = invitations'[j].offer.user
        PROVE  ~ Open(i)'
    BY <1>1, <1>2, <2>1, <2>2, <2>4 DEF OneOpen
  <2>5. ASSUME {"create"} \notin met', NEW r \in Requests, NEW i \in Invitations,
               reqs'[r].pc = "create", Open(i)'
        PROVE  invitations'[i].offer.user # reqs'[r].offer.user
    <3>1. Open(i) /\ invitations'[i].offer = invitations[i].offer
      BY <1>1, <2>2, <2>5
    <3>2. CASE reqs'[r] = reqs[r]
      BY <1>2, <2>5, <3>1, <3>2 DEF OneOpen, Holds
    <3>3. CASE InvitePending(r)
      <4> DEFINE u == reqs[r].offer.user
      <4>1. /\ reqs'[r].offer = reqs[r].offer
            /\ ~ \E x \in PendingOf(u) : (\A j \in PendingOf(u) : j <= x) /\ ~ invitations[x].expired
        BY <2>5, <3>3 DEF InvitePending, Becomes, Idle, BaseInv, TypedRows, TypeOK
      <4>2. SUFFICES ASSUME invitations[i].offer.user = u  PROVE FALSE
        BY <3>1, <4>1
      <4>3. i \in PendingOf(u) /\ ~ invitations[i].expired
        BY <3>1, <4>2 DEF Open, PendingOf
      <4>4. PICK j \in PendingOf(u) : ~ (j <= i)
        BY <4>1, <4>3
      <4>5. /\ j \in Invitations /\ i < j
            /\ BornInvitation(i) /\ BornInvitation(j)
            /\ invitations[j].offer.user = u
        BY <3>1, <4>4 DEF PendingOf, BornInvitation, Open, Invitations
      <4> QED
        BY <1>2, <2>5, <3>1, <4>2, <4>5 DEF OneOpen
    <3> QED
      BY <2>5, <3>2, <3>3, StillOrMoved, Enters DEF BaseInv, TypedRows
  <2> QED
    BY <2>3, <2>4, <2>5 DEF OneOpen, Holds
<1> QED
  BY <1>3, <1>4

(* An address has one open invitation, unless two handlers created theirs   *)
(* at once.                                                                 *)
THEOREM OneOpenButForRaces == SuperSpec => []TwoOpenOnlyByRace
<1> DEFINE Inv == BaseInv /\ InOrder /\ OneOpen
<1>1. Init => Inv
  <2>1. Init => InOrder /\ OneOpen
    BY DEF Init, InOrder, OneOpen, BornInvitation, Holds, Idle, Unborn
  <2> QED
    BY <2>1, InitBaseInv, MembershipAssumption
<1>2. Inv /\ [SuperNext]_vars => Inv'
  BY NextBaseInv, NextOneOpen, MembershipAssumption
<1>3. Inv => TwoOpenOnlyByRace
  <2> SUFFICES ASSUME Inv, {"create"} \notin met, NEW i \in Invitations, NEW j \in Invitations,
                      Open(i), Open(j), invitations[i].offer.user = invitations[j].offer.user
               PROVE  i = j
    BY DEF TwoOpenOnlyByRace
  <2>1. BornInvitation(i) /\ BornInvitation(j)
    BY DEF Open, BornInvitation
  <2>2. i \in Int /\ j \in Int
    BY DEF Invitations
  <2> QED
    BY <2>1, <2>2 DEF OneOpen
<1> QED
  BY <1>1, <1>2, <1>3, PTL DEF SuperSpec

-----------------------------------------------------------------------------
(* Entitlements *)

(* Short of a race, whoever holds an entitlement is a member, and so is     *)
(* whoever a handler is about to give one; and a removal that has deleted   *)
(* its user's entitlements has deleted all that are there.                  *)
Orphaning == {{"grant", "leave"}, {"settle", "leave"}, {"superGrant"}}

NoOrphans ==
  met \cap Orphaning = {} =>
    /\ \A e \in entitled : MembershipsOf(e[1]) # {}
    /\ \A r \in Requests : Holds(r, "grant") => MembershipsOf(reqs[r].user) # {}
    /\ \A r \in Requests, e \in entitled :
         Holds(r, "leave") /\ e[1] = members[reqs[r].member].user => e[2] \in reqs[r].lost

(* Only its removal ends a membership. *)
LEMMA StaysMember ==
  ASSUME MembershipAssumption, BaseInv, [SuperNext]_vars, NEW u, NEW m \in MembershipsOf(u),
         \A q \in Requests : ~ (Remove(q) /\ reqs[q].member = m)
  PROVE  m \in MembershipsOf(u)'
<1>1. m \in MemberIds /\ In(m) /\ members[m].user = u
  BY DEF MembershipsOf
<1>2. BornMember(m)
  BY <1>1 DEF In, BornMember
<1>3. members'[m].user = u
  BY <1>1, <1>2, MembersTyped DEF BaseInv
<1>4. members[m] \in MemberRows /\ DOMAIN members = MemberIds
  BY <1>1 DEF BaseInv, TypedRows, TypeOK
<1>5. ASSUME NEW q \in Requests, Remove(q)
      PROVE  In(m)'
  <2>1. members' = [members EXCEPT ![reqs[q].member].status = "out"]
    BY <1>5 DEF Remove
  <2>2. members'[m] = members[m]
    BY <1>1, <1>4, <1>5, <2>1
  <2> QED
    BY <1>1, <2>2 DEF In
<1>6. ASSUME NEW q \in Requests, AcceptRaise(q)
      PROVE  In(m)'
  <2>1. reqs[q].found.id \in MemberIds
        /\ members' = [members EXCEPT ![reqs[q].found.id].role = Offered(q).role]
    BY <1>6, AcceptShape DEF AcceptRaise, BaseInv
  <2> QED
    BY <1>1, <1>4, <2>1 DEF In, MemberRows, Unborn
<1>7. ASSUME NEW q \in Requests, NEW x \in MemberIds, AcceptJoin(q, x)
      PROVE  In(m)'
  BY <1>1, <1>4, <1>7 DEF AcceptJoin, In
<1>8. ASSUME NEW x \in MemberIds, NEW role \in DOMAIN Rank, SuperEdit(x, role)
      PROVE  In(m)'
  BY <1>1, <1>4, <1>8 DEF SuperEdit, UpdateMemberRole, In, MemberRows, Unborn
<1>9. In(m)'
  BY <1>1, <1>5, <1>6, <1>7, <1>8, MembersChange DEF In
<1> QED
  BY <1>1, <1>3, <1>9 DEF MembershipsOf

(* User u is a member after the step. *)
IsMemberThen(u) == \E m \in MemberIds : members'[m].status = "in" /\ members'[m].user = u

(* A commit's entitlements go to a user who is a member after it. *)
LEMMA SettledIsMember ==
  ASSUME MembershipAssumption, BaseInv, NEW r \in Requests,
         AcceptRaise(r) \/ AcceptKeep(r) \/ \E m \in MemberIds : AcceptJoin(r, m)
  PROVE  \/ entitled' = entitled
         \/ /\ entitled' = entitled \cup {<<Offered(r).user, Offered(r).tenant>>}
            /\ IsMemberThen(Offered(r).user)
<1>1. /\ Holds(r, "accept")
      /\ \/ entitled' = entitled
         \/ /\ Offered(r).tenant # NoTenant
            /\ entitled' = entitled \cup {<<Offered(r).user, Offered(r).tenant>>}
  BY DEF AcceptRaise, AcceptKeep, AcceptJoin, Settle, Offered
<1>2. CASE \E m \in MemberIds : AcceptJoin(r, m)
  <2>1. PICK m \in MemberIds : AcceptJoin(r, m)
    BY <1>2
  <2>2. members'[m] = [status |-> "in", user |-> Offered(r).user, role |-> Offered(r).role]
    BY <2>1 DEF AcceptJoin, BaseInv, TypedRows, TypeOK
  <2>3. IsMemberThen(Offered(r).user)
    BY <2>2 DEF IsMemberThen
  <2> QED
    BY <1>1, <2>3
<1>3. CASE AcceptRaise(r) \/ AcceptKeep(r)
  <2> DEFINE m == reqs[r].found.id
  <2>1. m \in MemberIds /\ members[m].user = Offered(r).user
    BY <1>1, <1>3, AcceptShape DEF AcceptRaise, AcceptKeep, BaseInv, TypedRows, RowsBorn
  <2>2. Offered(r).tenant # NoTenant => In(m)
    BY <1>3 DEF AcceptRaise, AcceptKeep
  <2>3. members' = members \/ members' = [members EXCEPT ![m].role = Offered(r).role]
    BY <1>3 DEF AcceptRaise, AcceptKeep
  <2> HIDE DEF m
  <2>4. ASSUME In(m)
        PROVE  IsMemberThen(Offered(r).user)
    <3>1. members[m] \in MemberRows /\ DOMAIN members = MemberIds
      BY <2>1 DEF BaseInv, TypedRows, TypeOK
    <3>2. members'[m].status = "in" /\ members'[m].user = Offered(r).user
      BY <2>1, <2>3, <2>4, <3>1 DEF In, MemberRows, Unborn
    <3> QED
      BY <2>1, <3>2 DEF IsMemberThen
  <2> QED
    BY <1>1, <2>2, <2>4
<1> QED
  BY <1>2, <1>3

(* Nothing is granted to a user whose removal has passed the entitlements,  *)
(* short of a race.                                                         *)
LEMMA NextLeavesNothing ==
  ASSUME MembershipAssumption, BaseInv, [SuperNext]_vars, met' \cap Orphaning = {},
         \A r \in Requests, e \in entitled :
           Holds(r, "leave") /\ e[1] = members[reqs[r].member].user => e[2] \in reqs[r].lost,
         NEW r \in Requests, NEW e \in entitled', reqs'[r].pc = "leave",
         e[1] = members'[reqs'[r].member].user
  PROVE  e[2] \in reqs'[r].lost
<1>1. met \cap Orphaning = {}
  BY NextBaseInv
<1>2. CASE RemoveEntitlements(r)
  <2> DEFINE u == members[reqs[r].member].user
  <2>1. reqs'[r] = [pc |-> "leave", member |-> reqs[r].member, tenants |-> reqs[r].tenants,
                    lost |-> {t \in Tenants : <<u, t>> \in entitled}]
    BY <1>2 DEF RemoveEntitlements, Becomes, BaseInv, TypedRows, TypeOK
  <2>2. e \in entitled /\ members' = members
    BY <1>2 DEF RemoveEntitlements
  <2>3. e = <<e[1], e[2]>> /\ e[2] \in Tenants
    BY <2>2 DEF BaseInv, TypedRows, TypeOK
  <2> QED
    BY <2>1, <2>2, <2>3
<1>3. CASE reqs'[r] = reqs[r]
  <2>1. Holds(r, "leave") /\ reqs[r].member \in MemberIds
    BY <1>3, HandlerShape DEF Holds, BaseInv, TypedRows
  <2>2. BornMember(reqs[r].member)
    BY <2>1 DEF BaseInv, TypedRows, RowsBorn, Holds
  <2>3. e[1] = members[reqs[r].member].user
    BY <1>3, <2>1, <2>2, MembersTyped DEF BaseInv
  <2>4. ASSUME NEW q \in Requests, reqs'[q] = Idle, reqs[q].pc \in {"grant", "accept"}
        PROVE  FALSE
    <3>1. q # r
      BY <1>3, <2>1, <2>4 DEF Idle, Holds
    <3> QED
      BY <1>1, <2>1, <2>4, <3>1, Overlaps DEF Holds, BaseInv, Orphaning
  <2>5. ASSUME NEW q \in Requests,
               Grant(q) \/ AcceptRaise(q) \/ AcceptKeep(q) \/ \E m \in MemberIds : AcceptJoin(q, m)
        PROVE  FALSE
    <3>1. reqs'[q] = Idle /\ reqs[q].pc \in {"grant", "accept"}
      BY <2>5 DEF Grant, AcceptRaise, AcceptKeep, AcceptJoin, Settle, Becomes, Holds,
         BaseInv, TypedRows, TypeOK
    <3> QED
      BY <2>4, <3>1
  <2>6. ASSUME NEW u \in Users, NEW t \in Tenants, SuperGrant(u, t)
        PROVE  FALSE
    BY <2>6 DEF SuperGrant, Did, Orphaning
  <2>7. e \in entitled
    BY <2>5, <2>6, EntitlementsChange
  <2> QED
    BY <1>3, <2>1, <2>3, <2>7
<1> QED
  BY <1>2, <1>3, StillOrMoved, Enters DEF BaseInv, TypedRows

LEMMA NextNoOrphans ==
  ASSUME MembershipAssumption, BaseInv, NoOrphans, [SuperNext]_vars
  PROVE  NoOrphans'
<1> SUFFICES ASSUME met' \cap Orphaning = {}
             PROVE  /\ \A e \in entitled' : IsMemberThen(e[1])
                    /\ \A r \in Requests : reqs'[r].pc = "grant" => IsMemberThen(reqs'[r].user)
                    /\ \A r \in Requests, e \in entitled' :
                         reqs'[r].pc = "leave" /\ e[1] = members'[reqs'[r].member].user =>
                           e[2] \in reqs'[r].lost
  BY DEF NoOrphans, Holds, IsMemberThen, MembershipsOf, In
<1>1. met \cap Orphaning = {}
  BY NextBaseInv
<1>4. ASSUME NEW r \in Requests, NEW e \in entitled', reqs'[r].pc = "leave",
             e[1] = members'[reqs'[r].member].user
      PROVE  e[2] \in reqs'[r].lost
  BY <1>1, <1>4, NextLeavesNothing DEF NoOrphans
<1>2. CASE \E q \in Requests : Remove(q)
  <2>1. PICK q \in Requests : Remove(q)
    BY <1>2
  <2>2. reqs'[q] = Idle /\ Holds(q, "leave")
    BY <2>1 DEF Remove, Becomes, BaseInv, TypedRows, TypeOK
  <2>3. ASSUME NEW r \in Requests, reqs'[r].pc = "grant"
        PROVE  FALSE
    <3>1. q # r
      BY <2>2, <2>3 DEF Idle
    <3>2. reqs'[r] = reqs[r]
      BY <2>1, <3>1 DEF Remove, Becomes, BaseInv, TypedRows, TypeOK
    <3> QED
      BY <1>1, <2>2, <2>3, <3>1, <3>2, Overlaps DEF Holds, BaseInv, Orphaning
  <2>4. ASSUME NEW e \in entitled'
        PROVE  IsMemberThen(e[1])
    <3>1. e \in entitled /\ e[1] # members[reqs[q].member].user
      <4>1. e \in entitled /\ e \notin {members[reqs[q].member].user} \X reqs[q].lost
        BY <2>1, <2>4 DEF Remove
      <4>2. e = <<e[1], e[2]>>
        BY <4>1 DEF BaseInv, TypedRows, TypeOK
      <4> QED
        BY <1>1, <2>2, <4>1, <4>2 DEF NoOrphans
    <3>2. PICK m \in MembershipsOf(e[1]) : TRUE
      BY <1>1, <3>1 DEF NoOrphans
    <3>3. m # reqs[q].member
      BY <3>1, <3>2 DEF MembershipsOf
    <3>4. \A p \in Requests : Remove(p) => p = q
      <4> SUFFICES ASSUME NEW p \in Requests, Remove(p), p # q  PROVE FALSE
        OBVIOUS
      <4>1. reqs'[p] = Idle /\ reqs[p].pc = "leave"
        BY DEF Remove, Becomes, Holds, BaseInv, TypedRows, TypeOK
      <4>2. reqs'[p] = reqs[p]
        BY <2>1 DEF Remove, Becomes, BaseInv, TypedRows, TypeOK
      <4> QED
        BY <4>1, <4>2 DEF Idle
    <3> QED
      BY <3>2, <3>3, <3>4, StaysMember DEF MembershipsOf, In, IsMemberThen
  <2> QED
    BY <1>4, <2>3, <2>4
<1>3. CASE ~ \E q \in Requests : Remove(q)
  <2>1. \A u : MembershipsOf(u) # {} => IsMemberThen(u)
    BY <1>3, StaysMember DEF MembershipsOf, In, IsMemberThen
  <2>2. ASSUME NEW e \in entitled'
        PROVE  IsMemberThen(e[1])
    <3>1. CASE e \in entitled
      BY <1>1, <2>1, <3>1 DEF NoOrphans
    <3>2. ASSUME NEW r \in Requests, Grant(r)
          PROVE  e \in entitled \/ IsMemberThen(e[1])
      BY <1>1, <2>1, <2>2, <3>2 DEF Grant, NoOrphans
    <3>3. ASSUME NEW r \in Requests, AcceptRaise(r) \/ AcceptKeep(r) \/ \E m \in MemberIds : AcceptJoin(r, m)
          PROVE  e \in entitled \/ IsMemberThen(e[1])
      BY <2>2, <3>3, SettledIsMember
    <3>4. ASSUME NEW u \in Users, NEW t \in Tenants, SuperGrant(u, t)
          PROVE  FALSE
      BY <3>4 DEF SuperGrant, Did, Orphaning
    <3> QED
      BY <2>2, <3>1, <3>2, <3>3, <3>4, EntitlementsChange
  <2>3. ASSUME NEW r \in Requests, reqs'[r].pc = "grant"
        PROVE  IsMemberThen(reqs'[r].user)
    <3>1. CASE reqs'[r] = reqs[r]
      BY <1>1, <2>1, <2>3, <3>1 DEF NoOrphans, Holds
    <3>2. CASE GrantLookup(r)
      <4>1. MembershipsOf(reqs[r].user) # {} /\ reqs'[r].user = reqs[r].user
        BY <2>3, <3>2 DEF GrantLookup, Becomes, Idle, BaseInv, TypedRows, TypeOK
      <4> QED
        BY <2>1, <4>1
    <3> QED
      BY <2>3, <3>1, <3>2, StillOrMoved, Enters DEF BaseInv, TypedRows
  <2> QED
    BY <1>4, <2>2, <2>3
<1> QED
  BY <1>2, <1>3, <1>4

(* Entitlements end with the membership, unless a grant or an acceptance    *)
(* overlapped the last part of the removal or a super administrator made    *)
(* them.                                                                    *)
THEOREM NoOrphansButForRaces == SuperSpec => []OrphansOnlyByRace
<1> DEFINE Inv == BaseInv /\ NoOrphans
<1>1. Init => Inv
  <2>1. Init => NoOrphans
    BY DEF Init, NoOrphans, Holds, Idle
  <2> QED
    BY <2>1, InitBaseInv, MembershipAssumption
<1>2. Inv /\ [SuperNext]_vars => Inv'
  BY NextBaseInv, NextNoOrphans, MembershipAssumption
<1>3. Inv => OrphansOnlyByRace
  BY DEF NoOrphans, OrphansOnlyByRace, Orphaning
<1> QED
  BY <1>1, <1>2, <1>3, PTL DEF SuperSpec

-----------------------------------------------------------------------------
(* Admission *)

(* An acceptance on its way is of an invitation nobody has accepted, short  *)
(* of a race.                                                               *)
NotYetAccepted ==
  {"accept"} \notin met =>
    \A r \in Requests :
      reqs[r].pc \in {"open", "accept"} => invitations[reqs[r].invitation].status # "ACCEPTED"

LEMMA AcceptedByAcceptance ==
  ASSUME MembershipAssumption, BaseInv, [SuperNext]_vars, NEW i \in Invitations,
         invitations[i].status # "ACCEPTED", invitations'[i].status = "ACCEPTED"
  PROVE  \E q \in Requests :
           AcceptRaise(q) \/ AcceptKeep(q) \/ \E m \in MemberIds : AcceptJoin(q, m)
<1> USE DEF BaseInv, TypedRows, TypeOK, InvitationRows, Unborn
<1>1. ASSUME NEW r \in Requests, InviteCreate(r)
      PROVE  FALSE
  BY <1>1 DEF InviteCreate, CreateInvitation
<1>2. ASSUME NEW r \in Requests, Withdraw(r) \/ AcceptExpire(r)
      PROVE  FALSE
  <2>1. reqs[r].invitation \in Invitations
    BY <1>2, HandlerShape DEF Withdraw, AcceptExpire
  <2>2. Stored(reqs[r].invitation)
    BY <1>2 DEF Withdraw, AcceptExpire
  <2>3. PICK status \in {"deleted", "EXPIRED"} :
          invitations' = [invitations EXCEPT ![reqs[r].invitation].status = status]
    BY <1>2 DEF Withdraw, AcceptExpire
  <2> QED
    BY <2>1, <2>2, <2>3 DEF Stored
<1>3. ASSUME NEW k \in Invitations, InvitationExpires(k)
      PROVE  FALSE
  BY <1>3 DEF InvitationExpires, Stored
<1> QED
  BY <1>1, <1>2, <1>3, InvitationsChange

LEMMA NextNotYetAccepted ==
  ASSUME MembershipAssumption, BaseInv, NotYetAccepted, [SuperNext]_vars
  PROVE  NotYetAccepted'
<1> SUFFICES ASSUME {"accept"} \notin met', NEW r \in Requests, reqs'[r].pc \in {"open", "accept"}
             PROVE  invitations'[reqs'[r].invitation].status # "ACCEPTED"
  BY DEF NotYetAccepted
<1>1. {"accept"} \notin met
  BY NextBaseInv
<1>2. CASE reqs'[r] = reqs[r]
  <2> DEFINE i == reqs[r].invitation
  <2>1. i \in Invitations /\ invitations[i].status # "ACCEPTED"
    BY <1>1, <1>2, HandlerShape DEF NotYetAccepted, Holds, BaseInv, TypedRows
  <2>2. ASSUME invitations'[i].status = "ACCEPTED"
        PROVE  FALSE
    <3>1. PICK q \in Requests :
            AcceptRaise(q) \/ AcceptKeep(q) \/ \E m \in MemberIds : AcceptJoin(q, m)
      BY <2>1, <2>2, AcceptedByAcceptance
    <3>2. reqs'[q] = Idle /\ Holds(q, "accept")
      BY <3>1 DEF AcceptRaise, AcceptKeep, AcceptJoin, Settle, Becomes, BaseInv, TypedRows, TypeOK
    <3>3. q # r
      BY <3>2 DEF Idle
    <3> QED
      BY <1>1, <1>2, <3>2, <3>3, Overlaps DEF Holds, BaseInv
  <2> QED
    BY <1>2, <2>2
<1>3. CASE OwnStep(r)
  <2>1. CASE reqs'[r].pc = "open"
    <3>1. PICK i \in Invitations : AcceptFind(r, i)
      BY <1>3, <2>1, Enters DEF BaseInv, TypedRows
    <3>2. reqs'[r] = [pc |-> IF invitations[i].expired THEN "expire" ELSE "open", invitation |-> i]
      BY <3>1 DEF AcceptFind, Becomes, BaseInv, TypedRows, TypeOK
    <3> QED
      BY <2>1, <3>1, <3>2 DEF AcceptFind
  <2>2. CASE reqs'[r].pc = "accept"
    <3>1. AcceptOpen(r)
      BY <1>3, <2>2, Enters DEF BaseInv, TypedRows
    <3>2. reqs'[r].invitation = reqs[r].invitation
      BY <3>1 DEF AcceptOpen, Becomes, BaseInv, TypedRows, TypeOK
    <3> QED
      BY <1>1, <3>1, <3>2 DEF AcceptOpen, NotYetAccepted, Holds
  <2> QED
    BY <2>1, <2>2
<1> QED
  BY <1>2, <1>3, StillOrMoved DEF BaseInv, TypedRows

(* An invitation that was accepted, or withdrawn, brings nobody in again,   *)
(* unless another acceptance overlapped.                                    *)
THEOREM AdmittedOnceButForRaces == SuperSpec => AdmittedOnce
<1> DEFINE Inv == BaseInv /\ NotYetAccepted
<1>1. Init => Inv
  <2>1. Init => NotYetAccepted
    BY DEF Init, NotYetAccepted, Idle
  <2> QED
    BY <2>1, InitBaseInv, MembershipAssumption
<1>2. Inv /\ [SuperNext]_vars => Inv'
  BY NextBaseInv, NextNotYetAccepted, MembershipAssumption
<1>3. ASSUME Inv, NEW r \in Requests, NEW m \in MemberIds, AcceptJoin(r, m)
      PROVE  \/ invitations[reqs[r].invitation].status \notin {"ACCEPTED", "deleted"}
             \/ {"accept"} \in met
  BY <1>3 DEF AcceptJoin, NotYetAccepted, Holds, BaseInv, TypedRows, RowsBorn, Stored
<1>4. Inv /\ [SuperNext]_vars =>
        [\A r \in Requests, m \in MemberIds :
           AcceptJoin(r, m) =>
             \/ invitations[reqs[r].invitation].status \notin {"ACCEPTED", "deleted"}
             \/ {"accept"} \in met]_vars
  BY <1>3
<1> QED
  BY <1>1, <1>2, <1>4, PTL DEF SuperSpec, AdmittedOnce

-----------------------------------------------------------------------------
(* All of it holds too when no super administrator acts. *)
LEMMA WithoutSuperAdministrators == Spec => SuperSpec
<1>1. [Next]_vars => [SuperNext]_vars
  BY DEF SuperNext
<1> QED
  BY <1>1, PTL DEF Spec, SuperSpec
=============================================================================
