------------------------------ MODULE Tenants ------------------------------
(***************************************************************************)
(* The life of one organization and its tenants: the admin routes that     *)
(* create and delete them, attach members, link the tasks product and      *)
(* grant it, those who join and leave meanwhile, the grants of super       *)
(* administrators, and what follows in the other stores - the tasks of a   *)
(* tenant, which no foreign key ties to it, the onboarding task the worker *)
(* adds, and the organization named in the Supabase metadata of its        *)
(* creator, the only one whose metadata the code ever gives the name.      *)
(*                                                                         *)
(* A database transaction is a step (but for a removal, see Leave), and so *)
(* is every call to another store.  A check that the next transaction      *)
(* makes again (a foreign key, a row that must exist) is no step of its    *)
(* own.                                                                    *)
(*                                                                         *)
(* Left out: names, slugs and profiles, the invitations and the roles of   *)
(* members (see Membership), the role of a tenant member and the one an    *)
(* entitlement copies from it, audit rows, the other identity events,      *)
(* which the worker only logs, products other than the tasks product, and  *)
(* a second organization of the same users.                                *)
(***************************************************************************)
EXTENDS Naturals, FiniteSets

CONSTANTS
  Users,         \* those with an account
  Owner,         \* who creates the organization
  Owners,        \* those who are owners when members, the creator one of them
  Admins,        \* those who are administrators when members
  MaxTenants,    \* bounds the tenants ever created
  MaxStalls,     \* how often BullMQ takes a stalled job back (maxStalledCount)
  Calls,         \* requests in flight at a time
  Deletes,       \* bounds the requests to delete a tenant or the organization
  Asked          \* the kinds of requests a run looks at

ASSUME TenantsAssumption ==
  /\ Owner \in Owners /\ Owners \subseteq Users /\ Admins \subseteq Users
  /\ MaxTenants \in Nat \ {0} /\ MaxStalls \in Nat /\ Deletes \in Nat
  /\ Asked \subseteq {"organization", "people", "member", "product", "task"}

(* Numbered in the order of createdAt; the first is the default tenant. *)
Tenants == 1..MaxTenants

VARIABLES
  org,       \* "unborn", "live" or "gone"
  tenants,   \* the status of every tenant
  people,    \* OrganizationMember: the users in the organization
  belongs,   \* TenantMember: pairs of a tenant and a user
  apps,      \* TenantApplication: the tenants linked to the tasks product
  entitled,  \* ProductEntitlement: pairs of a tenant and a user
  board,     \* the tasks of every tenant: those of users, and onboarding ones
  pointing,  \* whether the Supabase metadata of the creator names the organization
  session,   \* whether the creator's session in the portal, a copy of it, does
  events,    \* the tenant.created job of every tenant
  calls,     \* the requests in flight
  deletes,   \* requests to delete, so far
  late,      \* history: tenants written to behind the back of their deletion
  halved,    \* history: tenants whose deletion stopped once their tasks were wiped
  stalls,    \* history: how often the job of a tenant was taken back
  unlinked,  \* history: tenants whose tasks product an unlink has taken away
  granted,   \* history: entitlements granted since the last unlink listed them,
             \* or left by one that stopped
  left,      \* history: pairs whose tenant membership was removed
  appointed, \* history: pairs a super administrator has entitled
  spared     \* history: whether the deletion did not get at the metadata

Rows == <<org, tenants, people, belongs, apps, entitled>>
Metadata == <<pointing, session>>
History == <<late, halved, stalls, unlinked, granted, left, appointed, spared>>
vars == <<Rows, board, Metadata, events, calls, deletes, History>>

Idle == [pc |-> "idle"]
NoTasks == [work |-> FALSE, onboarding |-> 0]

Live(t) == tenants[t] = "live"

(* requireOrgAdmin: whoever leaves loses the right with the membership. *)
MayAdmin(user) == user \in people \cap (Owners \cup Admins)

Becomes(k, call) == calls' = [calls EXCEPT ![k] = call]

Take(k, call) == calls[k] = Idle /\ Becomes(k, call)

Done(k) == Becomes(k, Idle)

-----------------------------------------------------------------------------
(* Creating *)

Newest(t) == tenants[t] = "unborn" /\ \A s \in 1..(t - 1) : tenants[s] # "unborn"

(* createOrganizationWithOwner: one transaction for the organization, its   *)
(* owner, the default tenant and the owner's place in it.                   *)
CreateOrganization(k) ==
  /\ org = "unborn" /\ org' = "live"
  /\ tenants' = [tenants EXCEPT ![1] = "live"]
  /\ people' = {Owner} /\ belongs' = {<<1, Owner>>}
  /\ Take(k, [pc |-> "point"])
  /\ UNCHANGED <<apps, entitled, board, Metadata, events, deletes, History>>

Name ==
  /\ pointing' = TRUE
  /\ spared' = (spared \/ org = "gone")

(* The metadata of the creator, best effort: written by the service, and    *)
(* once more by the page that asked for the organization.                   *)
Point(k) ==
  /\ calls[k].pc = "point" /\ Name
  /\ UNCHANGED calls \/ Done(k)
  /\ UNCHANGED <<Rows, board, session, events, deletes,
                 late, halved, stalls, unlinked, granted, left, appointed>>

(* The portal's session is refreshed, from the metadata as they are; and    *)
(* PATCH /api/profile writes all of the session's metadata back, however    *)
(* old they are.                                                            *)
RefreshSession ==
  /\ session' = pointing
  /\ UNCHANGED <<Rows, board, pointing, events, calls, deletes, History>>

SaveProfile ==
  /\ session /\ Name
  /\ UNCHANGED <<Rows, board, session, events, calls, deletes,
                 late, halved, stalls, unlinked, granted, left, appointed>>

(* createTenant, the audit row, and the event; without the event nobody     *)
(* adds the onboarding task.                                                *)
CreateTenant(k, user) ==
  /\ MayAdmin(user)
  /\ \E t \in Tenants :
       /\ Newest(t)
       /\ tenants' = [tenants EXCEPT ![t] = "live"]
       /\ belongs' = belongs \cup {<<t, user>>}
       /\ Take(k, [pc |-> "announce", tenant |-> t])
  /\ UNCHANGED <<org, people, apps, entitled, board, Metadata, events, deletes, History>>

Announce(k) ==
  /\ calls[k].pc = "announce"
  /\ events' = [events EXCEPT ![calls[k].tenant] = "queued"]
  /\ Done(k)
  /\ UNCHANGED <<Rows, board, Metadata, deletes, History>>

-----------------------------------------------------------------------------
(* Deleting *)

(* The tenants whose tasks call k has wiped and whose row it will delete. *)
Condemned(k) ==
  {t \in Tenants :
     \/ calls[k].pc = "remove" /\ t = calls[k].tenant
     \/ calls[k].pc = "dissolve" /\ t \in calls[k].listed \ calls[k].todo}

Doomed(t) == \E k \in Calls : t \in Condemned(k)

(* The cascades of schema.prisma. *)
Cascade(dead) ==
  /\ tenants' = [t \in Tenants |-> IF t \in dead THEN "gone" ELSE tenants[t]]
  /\ belongs' = {b \in belongs : b[1] \notin dead}
  /\ apps' = apps \ dead
  /\ entitled' = {e \in entitled : e[1] \notin dead}

(* deleteTasksForTenant *)
Wipe(t) ==
  /\ board' = [board EXCEPT ![t] = NoTasks]
  /\ late' = late \ {t}

(* Mutant: the row first, the tasks never. *)
DeleteRowOnly(k, user, t) ==
  /\ MayAdmin(user) /\ Live(t) /\ deletes < Deletes
  /\ Take(k, [pc |-> "remove", tenant |-> t])
  /\ deletes' = deletes + 1
  /\ UNCHANGED <<Rows, board, Metadata, events, History>>

(* DELETE /tenants/:tenantId: first the tasks, then the row. *)
DeleteTenant(k, user, t) ==
  /\ MayAdmin(user) /\ Live(t) /\ deletes < Deletes
  /\ Take(k, [pc |-> "remove", tenant |-> t])
  /\ deletes' = deletes + 1
  /\ Wipe(t)
  /\ UNCHANGED <<Rows, Metadata, events, halved, stalls, unlinked, granted, left, appointed, spared>>

(* A row that is gone already is an error. *)
RemoveTenant(k) ==
  /\ calls[k].pc = "remove" /\ Live(calls[k].tenant)
  /\ Cascade({calls[k].tenant})
  /\ Done(k)
  /\ UNCHANGED <<org, people, board, Metadata, events, deletes, History>>

(* DELETE /organizations/:organizationId, of an owner, lists the tenants    *)
(* and the members, wipes the tasks of one tenant after the other,          *)
DeleteOrganization(k) ==
  /\ people \cap Owners # {} /\ deletes < Deletes
  /\ LET listed == {t \in Tenants : Live(t)} IN
       Take(k, [pc |-> "dissolve", listed |-> listed, todo |-> listed, members |-> people])
  /\ deletes' = deletes + 1
  /\ UNCHANGED <<Rows, board, Metadata, events, History>>

WipeNext(k) ==
  /\ calls[k].pc = "dissolve"
  /\ \E t \in calls[k].todo :
       /\ \A s \in calls[k].todo : t <= s
       /\ Becomes(k, [calls[k] EXCEPT !.todo = @ \ {t}])
       /\ Wipe(t)
  /\ UNCHANGED <<Rows, Metadata, events, deletes, halved, stalls, unlinked, granted, left, appointed, spared>>

(* deletes the organization - not found is a 404 and the end -              *)
Dissolve(k) ==
  /\ calls[k].pc = "dissolve" /\ calls[k].todo = {} /\ org = "live"
  /\ org' = "gone" /\ people' = {}
  /\ LET dead == {t \in Tenants : Live(t)} IN
       /\ Cascade(dead)
       /\ late' = late \cup (dead \ calls[k].listed)
  /\ \/ Owner \in calls[k].members /\ Becomes(k, [pc |-> "strip"]) /\ UNCHANGED spared
     \/ Owner \notin calls[k].members /\ Done(k) /\ spared' = TRUE
  /\ UNCHANGED <<board, Metadata, events, deletes,
                 halved, stalls, unlinked, granted, left, appointed>>

(* and clears the metadata of the members it had listed, best effort; of    *)
(* the others but the creator there is nothing to clear.                    *)
Strip(k) ==
  /\ calls[k].pc = "strip" /\ Done(k)
  /\ \/ pointing' = FALSE /\ UNCHANGED spared
     \/ spared' = TRUE /\ UNCHANGED pointing
  /\ UNCHANGED <<Rows, board, session, events, deletes,
                 late, halved, stalls, unlinked, granted, left, appointed>>

-----------------------------------------------------------------------------
(* Joining and leaving *)

(* The rows a removal in flight has deleted and not yet committed; an       *)
(* upsert of one of them waits.                                             *)
Held(pair) == \E k \in Calls : calls[k].pc = "leave" /\ pair \in calls[k].seats \cup calls[k].held

(* acceptOrganizationInvitation: a member, and where the invitation names a *)
(* tenant, its place and perhaps the product.                               *)
Join(user) ==
  /\ org = "live" /\ people' = people \cup {user}
  /\ \/ UNCHANGED <<belongs, entitled, granted>>
     \/ \E t \in Tenants :
          /\ Live(t) /\ ~ Held(<<t, user>>)
          /\ belongs' = belongs \cup {<<t, user>>}
          /\ \/ UNCHANGED <<entitled, granted>>
             \/ entitled' = entitled \cup {<<t, user>>} /\ granted' = granted \cup {<<t, user>>}
  /\ UNCHANGED <<org, tenants, apps, board, Metadata, events, calls, deletes,
                 late, halved, stalls, unlinked, left, appointed, spared>>

(* DELETE members/:organizationMemberId, no owner of himself and no last    *)
(* owner as counted; removeOrganizationMember deletes the places and the    *)
(* entitlements it finds, then the member, and commits.  What an acceptance *)
(* entitles him to in between stays; his new place goes with the member.    *)
Leave(k, user, member) ==
  /\ MayAdmin(user) /\ member \in people
  /\ member \in Owners => user # member /\ people \cap Owners # {member}
  /\ \A t \in Tenants : ~ Held(<<t, member>>)
  /\ Take(k, [pc |-> "leave", member |-> member,
              seats |-> {b \in belongs : b[2] = member},
              held |-> {e \in entitled : e[2] = member}])
  /\ UNCHANGED <<Rows, board, Metadata, events, deletes, History>>

Left(k) ==
  /\ calls[k].pc = "leave" /\ calls[k].member \in people
  /\ LET gone == {b \in belongs : b[2] = calls[k].member} IN
       /\ belongs' = belongs \ gone
       /\ left' = left \cup gone
  /\ entitled' = entitled \ calls[k].held
  /\ people' = people \ {calls[k].member}
  /\ Done(k)
  /\ UNCHANGED <<org, tenants, apps, board, Metadata, events, deletes,
                 late, halved, stalls, unlinked, granted, appointed, spared>>

-----------------------------------------------------------------------------
(* Places, the product and who may use it *)

(* attachMemberToTenant and removeTenantMember; the latter lets the         *)
(* entitlements of the member be.                                           *)
Attach(user, t, member) ==
  /\ MayAdmin(user) /\ Live(t) /\ member \in people
  /\ belongs' = belongs \cup {<<t, member>>}
  /\ UNCHANGED <<org, tenants, people, apps, entitled, board, Metadata, events, calls, deletes, History>>

Detach(user, t, member) ==
  /\ MayAdmin(user) /\ Live(t) /\ <<t, member>> \in belongs
  /\ belongs' = belongs \ {<<t, member>>}
  /\ left' = left \cup {<<t, member>>}
  /\ UNCHANGED <<org, tenants, people, apps, entitled, board, Metadata, events, calls, deletes,
                 late, halved, stalls, unlinked, granted, appointed, spared>>

(* POST /tenants/:tenantId/apps *)
Link(user, t) ==
  /\ MayAdmin(user) /\ Live(t)
  /\ apps' = apps \cup {t}
  /\ unlinked' = unlinked \ {t}
  /\ UNCHANGED <<org, tenants, people, belongs, entitled, board, Metadata, events, calls, deletes,
                 late, halved, stalls, granted, left, appointed, spared>>

(* DELETE /tenants/:tenantId/apps/:productId, linked or not: the link goes, *)
(* the entitlements are listed, and each of them is revoked.                *)
Unlink(k, user, t) ==
  /\ MayAdmin(user) /\ Live(t)
  /\ apps' = apps \ {t}
  /\ Take(k, [pc |-> "list", tenant |-> t])
  /\ UNCHANGED <<org, tenants, people, belongs, entitled, board, Metadata, events, deletes, History>>

(* Mutant: only those who still belong to the tenant are listed. *)
ListMembersEntitled(k) ==
  /\ calls[k].pc = "list"
  /\ LET t == calls[k].tenant IN
       /\ Becomes(k, [pc |-> "revoke", tenant |-> t,
                      todo |-> {e \in entitled \cap belongs : e[1] = t}])
       /\ granted' = {e \in granted : e[1] # t}
  /\ UNCHANGED <<Rows, board, Metadata, events, deletes, late, halved, stalls, unlinked, left, appointed, spared>>

ListEntitled(k) ==
  /\ calls[k].pc = "list"
  /\ LET t == calls[k].tenant IN
       /\ Becomes(k, [pc |-> "revoke", tenant |-> t, todo |-> {e \in entitled : e[1] = t}])
       /\ granted' = {e \in granted : e[1] # t}
  /\ UNCHANGED <<Rows, board, Metadata, events, deletes, late, halved, stalls, unlinked, left, appointed, spared>>

RevokeNext(k) ==
  /\ calls[k].pc = "revoke"
  /\ \E e \in calls[k].todo :
       /\ entitled' = entitled \ {e}
       /\ Becomes(k, [pc |-> "revoke", tenant |-> calls[k].tenant,
                      todo |-> calls[k].todo \ {e}])
  /\ UNCHANGED <<org, tenants, people, belongs, apps, board, Metadata, events, deletes, History>>

Unlinked(k) ==
  /\ calls[k].pc = "revoke" /\ calls[k].todo = {}
  /\ unlinked' = IF calls[k].tenant \in apps THEN unlinked ELSE unlinked \cup {calls[k].tenant}
  /\ Done(k)
  /\ UNCHANGED <<Rows, board, Metadata, events, deletes, late, halved, stalls, granted, left, appointed, spared>>

(* POST /tenants/:tenantId/entitlements: the member is looked up in one     *)
(* transaction and entitled in the next; the link is not asked about.       *)
Grant(k, user, t, member) ==
  /\ MayAdmin(user) /\ <<t, member>> \in belongs
  /\ Take(k, [pc |-> "grant", pair |-> <<t, member>>])
  /\ UNCHANGED <<Rows, board, Metadata, events, deletes, History>>

Entitle(k) ==
  /\ calls[k].pc = "grant" /\ Live(calls[k].pair[1]) /\ ~ Held(calls[k].pair)
  /\ entitled' = entitled \cup {calls[k].pair}
  /\ granted' = granted \cup {calls[k].pair}
  /\ Done(k)
  /\ UNCHANGED <<org, tenants, people, belongs, apps, board, Metadata, events, deletes,
                 late, halved, stalls, unlinked, left, appointed, spared>>

(* POST /super-admin/users/:userId/entitlements asks for no membership. *)
Appoint(pair) ==
  /\ Live(pair[1]) /\ ~ Held(pair)
  /\ entitled' = entitled \cup {pair}
  /\ granted' = granted \cup {pair}
  /\ appointed' = appointed \cup {pair}
  /\ UNCHANGED <<org, tenants, people, belongs, apps, board, Metadata, events, calls, deletes,
                 late, halved, stalls, unlinked, left, appointed, spared>>

(* DELETE /tenants/:tenantId/entitlements/:entitlementId *)
Revoke(user, pair) ==
  /\ MayAdmin(user) /\ pair \in entitled
  /\ entitled' = entitled \ {pair}
  /\ UNCHANGED <<org, tenants, people, belongs, apps, board, Metadata, events, calls, deletes, History>>

-----------------------------------------------------------------------------
(* The tasks of a tenant *)

Put(t, tasks) ==
  /\ board' = [board EXCEPT ![t] = tasks]
  /\ late' = IF Live(t) /\ ~ Doomed(t) THEN late ELSE late \cup {t}

(* A request of the tasks app: the context is asked of the identity service, *)
(* which wants an entitlement; the task is inserted later, into another      *)
(* schema.                                                                   *)
Begin(k, pair) ==
  /\ pair \in entitled
  /\ Take(k, [pc |-> "write", tenant |-> pair[1]])
  /\ UNCHANGED <<Rows, board, Metadata, events, deletes, History>>

Write(k) ==
  /\ calls[k].pc = "write"
  /\ LET t == calls[k].tenant IN Put(t, [work |-> TRUE, onboarding |-> board[t].onboarding])
  /\ Done(k)
  /\ UNCHANGED <<Rows, Metadata, events, deletes, halved, stalls, unlinked, granted, left, appointed, spared>>

(* The worker's handleIdentityEvent: the job is taken, the task inserted,   *)
(* whatever became of the tenant, and the job removed.  A job whose worker  *)
(* stalls is taken back; one that throws is not tried again.                *)
WorkerTakes(t) ==
  /\ events[t] = "queued"
  /\ events' = [events EXCEPT ![t] = "taken"]
  /\ UNCHANGED <<Rows, board, Metadata, calls, deletes, History>>

Onboard(t) ==
  /\ events[t] = "taken"
  /\ events' = [events EXCEPT ![t] = "onboarded"]
  /\ Put(t, [work |-> board[t].work, onboarding |-> board[t].onboarding + 1])
  /\ UNCHANGED <<Rows, Metadata, calls, deletes, halved, stalls, unlinked, granted, left, appointed, spared>>

(* Mutant: a job that is done is tried again. *)
WorkerRepeats(t) ==
  /\ events[t] \in {"taken", "onboarded"} /\ events' = [events EXCEPT ![t] = "queued"]
  /\ UNCHANGED <<Rows, board, Metadata, calls, deletes, History>>

WorkerEnds(t) ==
  /\ \/ events[t] = "onboarded" /\ events' = [events EXCEPT ![t] = "done"]
     \/ events[t] = "taken" /\ events' = [events EXCEPT ![t] = "failed"]
  /\ UNCHANGED <<Rows, board, Metadata, calls, deletes, History>>

WorkerStalls(t) ==
  /\ events[t] \in {"taken", "onboarded"} /\ stalls[t] < MaxStalls
  /\ events' = [events EXCEPT ![t] = "queued"]
  /\ stalls' = [stalls EXCEPT ![t] = @ + 1]
  /\ UNCHANGED <<Rows, board, Metadata, calls, deletes, late, halved, unlinked, granted, left, appointed, spared>>

-----------------------------------------------------------------------------
(* A request ends early: an error, or the service stops. *)
Stop(k) ==
  /\ calls[k] # Idle /\ Done(k)
  /\ events' = IF calls[k].pc = "announce"
               THEN [events EXCEPT ![calls[k].tenant] = "lost"] ELSE events
  /\ spared' = (spared \/ calls[k].pc = "strip")
  /\ granted' = IF calls[k].pc = "revoke" THEN granted \cup calls[k].todo ELSE granted
  /\ halved' = halved \cup {t \in Condemned(k) : Live(t)}
  /\ UNCHANGED <<Rows, board, Metadata, deletes, late, stalls, unlinked, left, appointed>>

Init ==
  /\ org = "unborn" /\ tenants = [t \in Tenants |-> "unborn"]
  /\ people = {} /\ belongs = {} /\ apps = {} /\ entitled = {}
  /\ pointing = FALSE /\ session = FALSE
  /\ board = [t \in Tenants |-> NoTasks]
  /\ events = [t \in Tenants |-> "none"]
  /\ calls = [k \in Calls |-> Idle] /\ deletes = 0
  /\ late = {} /\ halved = {} /\ stalls = [t \in Tenants |-> 0]
  /\ unlinked = {} /\ granted = {} /\ left = {} /\ appointed = {} /\ spared = FALSE

OrganizationStep(k) ==
  \/ CreateOrganization(k) \/ Point(k) \/ Announce(k)
  \/ RemoveTenant(k) \/ WipeNext(k) \/ Dissolve(k)
  \/ Strip(k)
  \/ /\ "organization" \in Asked
     /\ \/ DeleteOrganization(k)
        \/ \E user \in Users : \/ CreateTenant(k, user)
                               \/ \E t \in Tenants : DeleteTenant(k, user, t)

MemberStep(k) ==
  \/ Left(k)
  \/ "people" \in Asked /\ \E user, member \in Users : Leave(k, user, member)

ProductStep(k) ==
  \/ ListEntitled(k) \/ RevokeNext(k) \/ Unlinked(k) \/ Entitle(k) \/ Write(k)
  \/ \E user, member \in Users, t \in Tenants : Grant(k, user, t, member)
  \/ "product" \in Asked /\ \E user \in Users, t \in Tenants : Unlink(k, user, t)
  \/ "task" \in Asked /\ \E pair \in entitled : Begin(k, pair)

SessionStep == "organization" \in Asked /\ (RefreshSession \/ SaveProfile)

AccessStep ==
  \/ "people" \in Asked /\ \E user \in Users : Join(user)
  \/ "product" \in Asked /\ \E pair \in Tenants \X Users : Appoint(pair)

TenantStep(user, t) ==
  \/ "product" \in Asked /\ Link(user, t)
  \/ \E member \in Users :
       \/ "member" \in Asked /\ (Attach(user, t, member) \/ Detach(user, t, member))
       \/ "product" \in Asked /\ Revoke(user, <<t, member>>)

WorkerStep(t) == WorkerTakes(t) \/ Onboard(t) \/ WorkerEnds(t) \/ WorkerStalls(t)

Next ==
  \/ \E k \in Calls : OrganizationStep(k) \/ MemberStep(k) \/ ProductStep(k) \/ Stop(k)
  \/ SessionStep \/ AccessStep
  \/ \E user \in Users, t \in Tenants : TenantStep(user, t)
  \/ \E t \in Tenants : WorkerStep(t)

Spec == Init /\ [][Next]_vars

-----------------------------------------------------------------------------
(* Nothing but the order of the calls ties the tasks of a tenant to it: a   *)
(* deleted tenant leaves tasks behind only if somebody wrote to it after    *)
(* its tasks were wiped, or it was created while its organization was being *)
(* deleted.  Nor does the creator's metadata name a deleted organization,   *)
(* unless he was no member when the deletion listed the members, the call   *)
(* that clears it failed or was never made, or the name was written later,  *)
(* by a late answer or from a session older than the deletion.              *)
DeletedWithItsTraces ==
  /\ \A t \in Tenants : tenants[t] = "gone" /\ board[t] # NoTasks => t \in late
  /\ org = "gone" /\ pointing => spared \/ \E k \in Calls : calls[k].pc = "strip"

(* Every tenant an administrator creates gets its onboarding task once, and *)
(* again only when BullMQ took the job back from a stalled worker; it stays *)
(* there as long as no deletion wipes it, and the default tenant of an      *)
(* organization gets none.                                                  *)
OnboardedOnce ==
  \A t \in Tenants :
    /\ board[t].onboarding <= 1 + stalls[t]
    /\ events[t] = "none" => board[t].onboarding = 0
    /\ events[t] = "done" /\ Live(t) =>
         board[t].onboarding >= 1 \/ Doomed(t) \/ t \in halved

(* Whoever is entitled in a tenant belongs to it, or did until the          *)
(* membership was removed and the entitlement left - by an administrator of *)
(* the tenant, or with the member while an acceptance entitled him - or a   *)
(* super administrator entitled him; and once the tasks product is unlinked *)
(* nobody is entitled but those granted it after the last unlink listed the *)
(* entitlements, or left over by one that stopped.                          *)
EntitledForAReason ==
  \A e \in entitled :
    /\ e \in belongs \cup left \cup appointed
    /\ e[1] \in unlinked =>
         \/ e \in granted
         \/ \E k \in Calls : calls[k].pc \in {"list", "revoke"} /\ calls[k].tenant = e[1]
=============================================================================
