------------------------------- MODULE Contexts -------------------------------
(***************************************************************************)
(* Where a user is: the organization and tenants the portal's launcher     *)
(* shows, the tenant the tasks context settles on, and the tenant and      *)
(* organization a write of the tasks service is stored under.  Each works  *)
(* it out anew, from the token's claims, the user's memberships and        *)
(* entitlements, in several transactions, while administrators change      *)
(* them.                                                                   *)
(*                                                                         *)
(* Left out: the other contents of the answers, products other than tasks, *)
(* expiry (an entitlement that expires is one that ends).  How memberships *)
(* and entitlements come about is Membership's and Tenants' subject: here  *)
(* anybody may be given the product anywhere.                              *)
(***************************************************************************)
EXTENDS Integers, FiniteSets

CONSTANTS
  Orgs, NoOrg, Tenants, NoTenant, OrgOf,
  Me, Others,
  ClaimedOrg, ClaimedTenant,   \* of the token's metadata, which does not change
  Calls,
  MaxChanges, MaxAsked

ContextsAssumption ==
  /\ NoOrg \notin Orgs /\ NoTenant \notin Tenants /\ Me \notin Others
  /\ IsFiniteSet(Tenants)
  /\ OrgOf \in [Tenants -> Orgs]
  /\ ClaimedOrg \in Orgs \cup {NoOrg} /\ ClaimedTenant \in Tenants \cup {NoTenant}
  /\ {MaxChanges, MaxAsked} \subseteq Nat

VARIABLES
  joined,     \* the organizations the user is in, with the role and since when
  staff,      \* who else is in which organization
  places,     \* the tenants the user is a member of
  granted,    \* entitlements of everyone: the organization they are kept
              \* under, and since when
  calls,      \* requests of the tasks app
  page,       \* the tenant the tasks page shows, and whom it knows
  portal,     \* what the launcher shows
  rows,       \* what the tasks service has stored
  changes, asked,   \* how much has changed, and been asked for
  been,       \* history: the organizations the user has been in
  abroad,     \* history: tenants the user was given the product in before ever
              \* having been in their organization
  misled,     \* history: tenants that were asked for, promised throughout, and not
              \* given, or given without some of their people
  shut        \* history: tenants an up-to-date launcher showed that did not open

vars == <<joined, staff, places, granted, calls, page, portal, rows, changes, asked,
          been, abroad, misled, shut>>

Directory == <<joined, staff, places, granted, changes, been, abroad>>

Idle == [pc |-> "idle"]
Member(org) == \E m \in joined : m.org = org
EntitledTo(user, t) == \E e \in granted : e.user = user /\ e.tenant = t
Mine == {e \in granted : e.user = Me}
InOrg(user, org) == IF user = Me THEN Member(org) ELSE <<user, org>> \in staff

(* Rows are listed by createdAt. *)
Oldest(table) == CHOOSE row \in table : \A other \in table : row.since <= other.since
Latest(table) == CHOOSE row \in table : \A other \in table : row.since >= other.since

(* One organization is all there is to know of. *)
Settled == Cardinality(been) = 1 /\ ClaimedOrg \in been \cup {NoOrg}

(* The user has the product in the tenant, and an organization.             *)
Promised(t) == EntitledTo(Me, t) /\ (ClaimedOrg # NoOrg \/ joined # {})

-----------------------------------------------------------------------------
(* Mutant: the organization is that of the claims' tenant. *)
TasksOrgOfTenant ==
  IF ClaimedTenant # NoTenant THEN OrgOf[ClaimedTenant]
  ELSE IF joined = {} THEN NoOrg ELSE Oldest(joined).org

(* resolveOrganizationId of the tasks routes: the claims, or the user's     *)
(* first membership.                                                        *)
TasksOrg ==
  IF ClaimedOrg # NoOrg THEN ClaimedOrg
  ELSE IF joined = {} THEN NoOrg ELSE Oldest(joined).org

(* That of the portal's launcher: the claims, or the latest membership. *)
PortalOrg ==
  IF ClaimedOrg # NoOrg THEN ClaimedOrg
  ELSE IF joined = {} THEN NoOrg ELSE Latest(joined).org

(* Mutant: the claims' tenant goes before the one that is asked for. *)
ActiveByClaims(wanted, mine) ==
  LET tenants == {e.tenant : e \in mine} IN
    IF ClaimedTenant \in tenants THEN ClaimedTenant
    ELSE IF wanted \in tenants THEN wanted ELSE Oldest(mine).tenant

(* The tenant asked for, or the claims' if none is, or else the first, of   *)
(* the tenants the user has the product in, in whatever organization.       *)
Active(wanted, mine) ==
  LET tenants == {e.tenant : e \in mine} IN
    IF wanted \in tenants THEN wanted
    ELSE IF wanted = NoTenant /\ ClaimedTenant \in tenants THEN ClaimedTenant
    ELSE Oldest(mine).tenant

(* The launcher's tenants: all of the organization for those who manage it, *)
(* or those the user is a member of or has a product in.                    *)
Visible(org) ==
  {t \in Tenants :
     /\ OrgOf[t] = org
     /\ \/ \E m \in joined : m.org = org /\ m.role \in {"OWNER", "ADMIN"}
        \/ t \in places \/ EntitledTo(Me, t)}

(* Whom GET /admin/tenants/:tenantId lets in. *)
Opens(t) ==
  \/ \E m \in joined : m.org = OrgOf[t] /\ m.role \in {"OWNER", "ADMIN"}
  \/ t \in places

-----------------------------------------------------------------------------
(* Requests of the tasks app *)

(* GET /context, GET /users, or a write with its X-Tenant-Id. *)
Ask(k) ==
  /\ calls[k] = Idle
  /\ asked < MaxAsked /\ asked' = asked + 1
  /\ \E kind \in {"context", "users", "write"}, t \in Tenants \cup {NoTenant} :
       /\ kind = "context" \/ t = page.tenant
       /\ t = NoTenant => kind = "context" /\ page.tenant = NoTenant
       /\ calls' = [calls EXCEPT ![k] =
            [pc |-> "org", kind |-> kind, wanted |-> t, open |-> Promised(t)]]
  /\ UNCHANGED <<Directory, page, portal, rows, misled, shut>>

(* resolveOrganizationId; without an organization the request is refused. *)
ResolveOrg(k) ==
  /\ calls[k].pc = "org"
  /\ calls' = [calls EXCEPT ![k] =
       IF TasksOrg = NoOrg THEN Idle
       ELSE [pc |-> "tenant", kind |-> @.kind, wanted |-> @.wanted, open |-> @.open,
             org |-> TasksOrg]]
  /\ misled' = misled \cup IF TasksOrg = NoOrg /\ calls[k].open THEN {calls[k].wanted} ELSE {}
  /\ UNCHANGED <<Directory, page, portal, rows, asked, shut>>

(* The routes of the tasks app refuse when identity settled on another      *)
(* tenant than the one they asked for.                                      *)
GoOn(call, tenant) == call.kind = "context" \/ tenant = call.wanted

(* The user's entitlements; who has none is refused. *)
ResolveTenant(k) ==
  /\ calls[k].pc = "tenant"
  /\ LET call == calls[k]
         tenant == Active(call.wanted, Mine)
     IN  IF Mine = {}
         THEN /\ calls' = [calls EXCEPT ![k] = Idle]
              /\ misled' = misled \cup IF call.open THEN {call.wanted} ELSE {}
         ELSE /\ calls' = [calls EXCEPT ![k] =
                   IF GoOn(call, tenant)
                   THEN [pc |-> "act", kind |-> call.kind, wanted |-> call.wanted,
                         open |-> call.open, org |-> call.org, tenant |-> tenant]
                   ELSE Idle]
              /\ misled' = misled \cup IF tenant # call.wanted /\ call.open
                                       THEN {call.wanted} ELSE {}
  /\ UNCHANGED <<Directory, page, portal, rows, asked, shut>>

(* The page takes the answer; the write is stored. *)
ShowContext(k) ==
  /\ calls[k].pc = "act" /\ calls[k].kind = "context"
  /\ page' = [tenant |-> calls[k].tenant, people |-> {}]
  /\ calls' = [calls EXCEPT ![k] = Idle]
  /\ UNCHANGED <<Directory, portal, rows, asked, misled, shut>>

Store(k) ==
  /\ calls[k].pc = "act" /\ calls[k].kind = "write"
  /\ rows' = rows \cup {[tenant |-> calls[k].tenant, org |-> calls[k].org]}
  /\ calls' = [calls EXCEPT ![k] = Idle]
  /\ UNCHANGED <<Directory, page, portal, asked, misled, shut>>

(* GET /users: the users with the product in the tenant, as far as they are *)
(* members of the organization resolved for the caller.                     *)
People(call) ==
  {u \in Others \cup {Me} : EntitledTo(u, call.tenant) /\ InOrg(u, call.org)}

(* Whom the tenant's own organization would find there. *)
Expected(t) == {u \in Others \cup {Me} : EntitledTo(u, t) /\ InOrg(u, OrgOf[t])}

ListUsers(k) ==
  /\ calls[k].pc = "act" /\ calls[k].kind = "users"
  /\ page' = [page EXCEPT !.people = People(calls[k])]
  /\ LET t == calls[k].tenant
     IN  misled' = misled \cup IF Settled /\ t \notin abroad /\ ~ (Expected(t) \subseteq People(calls[k]))
                              THEN {t} ELSE {}
  /\ calls' = [calls EXCEPT ![k] = Idle]
  /\ UNCHANGED <<Directory, portal, rows, asked, shut>>

-----------------------------------------------------------------------------
(* The portal *)

(* GET /portal/launcher *)
Launch ==
  /\ asked < MaxAsked /\ asked' = asked + 1
  /\ PortalOrg # NoOrg
  /\ portal' = [org |-> PortalOrg, tenants |-> Visible(PortalOrg), at |-> changes]
  /\ UNCHANGED <<Directory, calls, page, rows, misled, shut>>

(* GET /admin/tenants/:tenantId, from a card of the launcher. *)
Open(t) ==
  /\ t \in portal.tenants /\ portal.at = changes
  /\ shut' = shut \cup IF Opens(t) THEN {} ELSE {[tenant |-> t, entitled |-> EntitledTo(Me, t)]}
  /\ UNCHANGED <<Directory, calls, page, portal, rows, asked, misled>>

-----------------------------------------------------------------------------
(* Administrators *)

Changes == changes < MaxChanges /\ changes' = changes + 1
Others0 == <<page, portal, rows, asked, misled, shut>>

Join(org, role) ==
  /\ Changes /\ ~ Member(org)
  /\ joined' = joined \cup {[org |-> org, role |-> role, since |-> changes']}
  /\ been' = been \cup {org}
  /\ UNCHANGED <<staff, places, granted, calls, abroad, Others0>>

(* Requests that ask for a tenant where the user loses the product, or that *)
(* find the user without an organization.                                   *)
Ending(tenants) ==
  [k \in Calls |-> IF calls[k] # Idle /\ calls[k].wanted \in tenants
                   THEN [calls[k] EXCEPT !.open = FALSE] ELSE calls[k]]

(* Who leaves the organization leaves its tenants, and the products kept    *)
(* under it.                                                                *)
Leave(org) ==
  /\ Changes /\ Member(org)
  /\ joined' = {m \in joined : m.org # org}
  /\ places' = {t \in places : OrgOf[t] # org}
  /\ granted' = {e \in granted : e.user # Me \/ e.org # org}
  /\ calls' = Ending({t \in Tenants : ~ Promised(t)'})
  /\ UNCHANGED <<staff, been, abroad, Others0>>

Dismiss(user, org) ==
  /\ Changes /\ <<user, org>> \in staff
  /\ staff' = staff \ {<<user, org>>}
  /\ granted' = {e \in granted : e.user # user \/ e.org # org}
  /\ UNCHANGED <<joined, places, calls, been, abroad, Others0>>

(* Leaving a tenant leaves the product where it is. *)
Place(t) ==
  /\ Changes /\ Member(OrgOf[t])
  /\ places' = IF t \in places THEN places \ {t} ELSE places \cup {t}
  /\ UNCHANGED <<joined, staff, granted, calls, been, abroad, Others0>>

(* Administrators grant the product to those they found among the tenant's  *)
(* members (an acceptance, to those it makes members), super administrators *)
(* to anybody; each under the organization that comes with the request.     *)
Grant(user, t, org) ==
  /\ Changes /\ ~ EntitledTo(user, t)
  /\ granted' = granted \cup {[user |-> user, tenant |-> t, org |-> org, since |-> changes']}
  /\ abroad' = abroad \cup IF user = Me /\ OrgOf[t] \notin been THEN {t} ELSE {}
  /\ UNCHANGED <<joined, staff, places, calls, been, Others0>>

Revoke(user, t) ==
  /\ Changes /\ EntitledTo(user, t)
  /\ granted' = {e \in granted : e.user # user \/ e.tenant # t}
  /\ calls' = IF user = Me THEN Ending({t}) ELSE calls
  /\ UNCHANGED <<joined, staff, places, been, abroad, Others0>>

-----------------------------------------------------------------------------
(* The user starts in one organization, with the product in its tenants,    *)
(* granted in any order.                                                    *)
Init ==
  /\ \E org \in Orgs, role \in {"ADMIN", "MEMBER"} :
       /\ joined = {[org |-> org, role |-> role, since |-> 0]} /\ been = {org}
       /\ places = {t \in Tenants : OrgOf[t] = org}
       /\ \E since \in [places -> 1 - Cardinality(places) .. 0] :
            /\ \A t, u \in places : since[t] = since[u] => t = u
            /\ granted = {[user |-> Me, tenant |-> t, org |-> org, since |-> since[t]] : t \in places}
  /\ staff = Others \X Orgs
  /\ calls = [k \in Calls |-> Idle]
  /\ page = [tenant |-> NoTenant, people |-> {}]
  /\ portal = [org |-> NoOrg, tenants |-> {}, at |-> 0]
  /\ rows = {} /\ changes = 0 /\ asked = 0 /\ abroad = {} /\ misled = {} /\ shut = {}

Next ==
  \/ \E k \in Calls :
       Ask(k) \/ ResolveOrg(k) \/ ResolveTenant(k) \/ ShowContext(k) \/ Store(k) \/ ListUsers(k)
  \/ Launch
  \/ \E t \in Tenants :
       \/ Open(t) \/ Place(t)
       \/ \E user \in Others \cup {Me} :
            Revoke(user, t) \/ \E org \in Orgs : Grant(user, t, org)
  \/ \E org \in Orgs :
       \/ Leave(org) \/ \E role \in {"ADMIN", "MEMBER"} : Join(org, role)
       \/ \E user \in Others : Dismiss(user, org)

Spec == Init /\ [][Next]_vars

-----------------------------------------------------------------------------
(* What is written is kept under the organization of the tenant it is       *)
(* written in, whatever memberships and entitlements do between the two     *)
(* being looked up: unless the user has been in more organizations than     *)
(* one, the token names another, or the user was given the product there    *)
(* without ever having been in the tenant's organization, as only a super   *)
(* administrator can.                                                       *)
WritesStayInTheOrganization ==
  Settled => \A row \in rows : row.tenant \in abroad \/ row.org = OrgOf[row.tenant]

(* A page that asks for a tenant is given that tenant, if the user had the  *)
(* product there, and a membership of any organization or a claim to one,   *)
(* from the question to the answer.  It finds everybody who has the product *)
(* there and is in the tenant's organization (with the exceptions of        *)
(* WritesStayInTheOrganization).  A tenant the launcher shows can be        *)
(* opened, unless the user only has the product there and is not a member   *)
(* of the tenant: then the card is drawn and the page behind it refused.    *)
AskedTenantIsGiven == misled = {} /\ \A s \in shut : s.entitled
=============================================================================
