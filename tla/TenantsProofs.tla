---------------------------- MODULE TenantsProofs ----------------------------
(* Theorems about Tenants, for any number of users, tenants, calls and      *)
(* deletions, and whichever requests are asked for.                         *)
EXTENDS Tenants, TLAPS

-----------------------------------------------------------------------------
(* The shapes of the tables and of the requests in flight *)

Pairs == Tenants \X Users

Requested ==
       {Idle} \cup [pc: {"point", "strip"}]
  \cup [pc: {"announce", "remove", "list", "write"}, tenant: Tenants]
  \cup {call \in [pc: {"dissolve"}, listed: SUBSET Tenants, todo: SUBSET Tenants,
                 members: SUBSET Users] : call.todo \subseteq call.listed}
  \cup [pc: {"leave"}, member: Users, seats: SUBSET Pairs, held: SUBSET Pairs]
  \cup {call \in [pc: {"revoke"}, tenant: Tenants, todo: SUBSET Pairs] :
          \A e \in call.todo : e[1] = call.tenant}
  \cup [pc: {"grant"}, pair: Pairs]

Boards == [work: BOOLEAN, onboarding: Nat]
JobStates == {"none", "queued", "taken", "onboarded", "done", "failed", "lost"}

TablesOK ==
  /\ org \in {"unborn", "live", "gone"}
  /\ tenants \in [Tenants -> {"unborn", "live", "gone"}]
  /\ people \subseteq Users
  /\ belongs \subseteq Pairs /\ apps \subseteq Tenants /\ entitled \subseteq Pairs
  /\ board \in [Tenants -> Boards]
  /\ pointing \in BOOLEAN /\ session \in BOOLEAN

HistoriesOK ==
  /\ events \in [Tenants -> JobStates] /\ stalls \in [Tenants -> Nat]
  /\ late \subseteq Tenants /\ halved \subseteq Tenants /\ unlinked \subseteq Tenants
  /\ granted \subseteq Pairs /\ left \subseteq Pairs /\ appointed \subseteq Pairs
  /\ spared \in BOOLEAN

CallsOK == calls \in [Calls -> Requested]

Shape == TablesOK /\ HistoriesOK /\ CallsOK

(* The columns of a request, by its program counter. *)
LEMMA CallShape ==
  ASSUME CallsOK, NEW k \in Calls
  PROVE  /\ calls[k].pc \in {"idle", "point", "announce", "remove", "list", "write",
                             "dissolve", "strip", "leave", "revoke", "grant"}
         /\ calls[k].pc \in {"announce", "remove", "list", "write"} =>
              calls[k] = [pc |-> calls[k].pc, tenant |-> calls[k].tenant]
         /\ calls[k].pc \in {"announce", "remove", "list", "write", "revoke"} =>
              calls[k].tenant \in Tenants
         /\ calls[k].pc = "dissolve" =>
              /\ calls[k].listed \subseteq Tenants /\ calls[k].todo \subseteq calls[k].listed
              /\ calls[k].members \subseteq Users
              /\ calls[k] = [pc |-> "dissolve", listed |-> calls[k].listed, todo |-> calls[k].todo,
                             members |-> calls[k].members]
         /\ calls[k].pc = "leave" => calls[k].member \in Users
         /\ calls[k].pc = "revoke" =>
              /\ calls[k].todo \subseteq Pairs /\ \A e \in calls[k].todo : e[1] = calls[k].tenant
              /\ calls[k] = [pc |-> "revoke", tenant |-> calls[k].tenant, todo |-> calls[k].todo]
         /\ calls[k].pc = "grant" => calls[k].pair \in Pairs
         /\ calls[k].pc = "idle" => calls[k] = Idle
<1>1. calls[k] \in Requested
  BY DEF CallsOK
<1>2. CASE calls[k] \in [pc: {"announce", "remove", "list", "write"}, tenant: Tenants]
  BY <1>2
<1>3. CASE calls[k] \in {call \in [pc: {"dissolve"}, listed: SUBSET Tenants, todo: SUBSET Tenants,
                                  members: SUBSET Users] : call.todo \subseteq call.listed}
  BY <1>3
<1>4. CASE calls[k] \in [pc: {"leave"}, member: Users, seats: SUBSET Pairs, held: SUBSET Pairs]
  BY <1>4
<1>5. CASE calls[k] \in {call \in [pc: {"revoke"}, tenant: Tenants, todo: SUBSET Pairs] :
                           \A e \in call.todo : e[1] = call.tenant}
  BY <1>5
<1>6. CASE calls[k] \in [pc: {"grant"}, pair: Pairs]
  BY <1>6
<1>7. CASE calls[k] \in {Idle} \cup [pc: {"point", "strip"}]
  BY <1>7 DEF Idle
<1> QED
  BY <1>1, <1>2, <1>3, <1>4, <1>5, <1>6, <1>7 DEF Requested

LEMMA Shortened ==
  ASSUME CallsOK, NEW k \in Calls, NEW t, calls[k].pc = "dissolve"
  PROVE  [calls[k] EXCEPT !.todo = @ \ {t}]
           = [pc |-> "dissolve", listed |-> calls[k].listed, todo |-> calls[k].todo \ {t},
              members |-> calls[k].members]
<1>1. \E listed, todo, members :
        calls[k] = [pc |-> "dissolve", listed |-> listed, todo |-> todo, members |-> members]
  <2>1. calls[k] = [pc |-> "dissolve", listed |-> calls[k].listed, todo |-> calls[k].todo,
                    members |-> calls[k].members]
    BY CallShape
  <2> QED
    BY <2>1, Zenon
<1> PICK listed, todo, members :
        calls[k] = [pc |-> "dissolve", listed |-> listed, todo |-> todo, members |-> members]
  BY <1>1
<1>2. [[pc |-> "dissolve", listed |-> listed, todo |-> todo, members |-> members]
         EXCEPT !.todo = @ \ {t}]
        = [pc |-> "dissolve", listed |-> listed, todo |-> todo \ {t}, members |-> members]
  OBVIOUS
<1>3. calls[k].listed = listed /\ calls[k].todo = todo /\ calls[k].members = members
  OBVIOUS
<1> QED
  BY <1>2, <1>3

LEMMA BecomesCall ==
  ASSUME CallsOK, NEW k \in Calls, NEW call \in Requested, Becomes(k, call)
  PROVE  /\ CallsOK'
         /\ calls'[k] = call
         /\ \A j \in Calls : j # k => calls'[j] = calls[j]
BY DEF CallsOK, Becomes

(* Every action takes its request to another one of the right shape.        *)
LEMMA NextCalls ==
  ASSUME Shape, [Next]_vars
  PROVE  CallsOK'
<1> USE CallShape DEF Shape
<1>1. ASSUME NEW k \in Calls, NEW call \in Requested, Becomes(k, call)
      PROVE  CallsOK'
  BY <1>1, BecomesCall
<1>2. Idle \in Requested
  BY DEF Requested
<1>3. ASSUME NEW k \in Calls, OrganizationStep(k)
      PROVE  CallsOK'
  <2>1. CASE CreateOrganization(k)
    BY <1>1, <2>1 DEF CreateOrganization, Take, Requested
  <2>2. CASE Point(k) \/ Announce(k) \/ RemoveTenant(k)
    BY <1>1, <1>2, <2>2 DEF Point, Announce, RemoveTenant, Done, CallsOK
  <2>3. CASE WipeNext(k)
    <3>1. PICK t \in calls[k].todo : Becomes(k, [calls[k] EXCEPT !.todo = @ \ {t}])
      BY <2>3 DEF WipeNext
    <3>2. [calls[k] EXCEPT !.todo = @ \ {t}]
            = [pc |-> "dissolve", listed |-> calls[k].listed, todo |-> calls[k].todo \ {t},
               members |-> calls[k].members]
      BY <2>3, Shortened DEF WipeNext
    <3> QED
      BY <1>1, <2>3, <3>1, <3>2 DEF WipeNext, Requested
  <2>4. CASE Dissolve(k)
    BY <1>1, <1>2, <2>4 DEF Dissolve, Done, Requested
  <2>5. CASE Strip(k)
    BY <1>1, <1>2, <2>5 DEF Strip, Done
  <2>6. CASE DeleteOrganization(k)
    BY <1>1, <2>6 DEF DeleteOrganization, Take, Requested, TablesOK
  <2>7. ASSUME NEW user \in Users, CreateTenant(k, user)
        PROVE  CallsOK'
    BY <1>1, <2>7 DEF CreateTenant, Take, Requested
  <2>8. ASSUME NEW user \in Users, NEW t \in Tenants, DeleteTenant(k, user, t)
        PROVE  CallsOK'
    BY <1>1, <2>8 DEF DeleteTenant, Take, Requested
  <2> QED
    BY <1>3, <2>1, <2>2, <2>3, <2>4, <2>5, <2>6, <2>7, <2>8 DEF OrganizationStep
<1>4. ASSUME NEW k \in Calls, ProductStep(k)
      PROVE  CallsOK'
  <2>1. CASE ListEntitled(k)
    BY <1>1, <2>1 DEF ListEntitled, Requested, TablesOK
  <2>2. CASE RevokeNext(k)
    BY <1>1, <2>2 DEF RevokeNext, Requested
  <2>3. CASE Unlinked(k) \/ Entitle(k) \/ Write(k)
    BY <1>1, <1>2, <2>3 DEF Unlinked, Entitle, Write, Done
  <2>4. ASSUME NEW user \in Users, NEW member \in Users, NEW t \in Tenants,
               Grant(k, user, t, member)
        PROVE  CallsOK'
    BY <1>1, <2>4 DEF Grant, Take, Requested, Pairs
  <2>5. ASSUME NEW user \in Users, NEW t \in Tenants, Unlink(k, user, t)
        PROVE  CallsOK'
    BY <1>1, <2>5 DEF Unlink, Take, Requested
  <2>6. ASSUME NEW pair \in entitled, Begin(k, pair)
        PROVE  CallsOK'
    BY <1>1, <2>6 DEF Begin, Take, Requested, TablesOK, Pairs
  <2> QED
    BY <1>4, <2>1, <2>2, <2>3, <2>4, <2>5, <2>6 DEF ProductStep
<1>5. ASSUME NEW k \in Calls, Stop(k)
      PROVE  CallsOK'
  BY <1>1, <1>2, <1>5 DEF Stop, Done
<1>6. CASE calls' = calls
  BY <1>6 DEF CallsOK
<1>7. ASSUME NEW k \in Calls, MemberStep(k)
      PROVE  CallsOK'
  <2>1. CASE Left(k)
    BY <1>1, <1>2, <2>1 DEF Left, Done
  <2>2. ASSUME NEW user \in Users, NEW member \in Users, Leave(k, user, member)
        PROVE  CallsOK'
    BY <1>1, <2>2 DEF Leave, Take, Requested, TablesOK
  <2> QED
    BY <1>7, <2>1, <2>2 DEF MemberStep
<1> QED
  BY <1>3, <1>4, <1>5, <1>6, <1>7
     DEF Next, SessionStep, RefreshSession, SaveProfile, AccessStep, Join, Appoint, TenantStep, Link, Attach, Detach, Revoke, WorkerStep, WorkerTakes, Onboard,
         WorkerEnds, WorkerStalls, vars

LEMMA WipedBoard ==
  NoTasks \in Boards
BY DEF NoTasks, Boards

(* What a deletion leaves of the tables. *)
LEMMA CascadeTables ==
  ASSUME TablesOK, NEW dead, Cascade(dead)
  PROVE  /\ tenants' \in [Tenants -> {"unborn", "live", "gone"}]
         /\ belongs' \subseteq Pairs /\ apps' \subseteq Tenants /\ entitled' \subseteq Pairs
BY DEF TablesOK, Cascade

(* What an acceptance adds. *)
LEMMA JoinAdds ==
  ASSUME NEW user \in Users, Join(user)
  PROVE  \E new \in SUBSET {pair \in Pairs : pair[2] = user /\ Live(pair[1])} :
           /\ belongs' = belongs \cup new
           /\ entitled \subseteq entitled' /\ entitled' \subseteq entitled \cup new
           /\ granted' \subseteq granted \cup new
           /\ granted \subseteq granted' /\ entitled' \subseteq entitled \cup granted'
<1>1. CASE UNCHANGED <<belongs, entitled, granted>>
  <2> WITNESS {} \in SUBSET {pair \in Pairs : pair[2] = user /\ Live(pair[1])}
  <2> QED
    BY <1>1
<1>2. ASSUME NEW t \in Tenants, Live(t), belongs' = belongs \cup {<<t, user>>},
             \/ UNCHANGED <<entitled, granted>>
             \/ entitled' = entitled \cup {<<t, user>>} /\ granted' = granted \cup {<<t, user>>}
      PROVE  \E new \in SUBSET {pair \in Pairs : pair[2] = user /\ Live(pair[1])} :
               /\ belongs' = belongs \cup new
               /\ entitled \subseteq entitled' /\ entitled' \subseteq entitled \cup new
               /\ granted' \subseteq granted \cup new
               /\ granted \subseteq granted' /\ entitled' \subseteq entitled \cup granted'
  <2>1. {<<t, user>>} \in SUBSET {pair \in Pairs : pair[2] = user /\ Live(pair[1])}
    BY <1>2 DEF Pairs
  <2> WITNESS {<<t, user>>} \in SUBSET {pair \in Pairs : pair[2] = user /\ Live(pair[1])}
  <2> QED
    BY <1>2
<1>3. \/ UNCHANGED <<belongs, entitled, granted>>
      \/ \E t \in Tenants :
           /\ Live(t) /\ belongs' = belongs \cup {<<t, user>>}
           /\ \/ UNCHANGED <<entitled, granted>>
              \/ entitled' = entitled \cup {<<t, user>>} /\ granted' = granted \cup {<<t, user>>}
  BY Zenon DEF Join
<1> QED
  BY <1>1, <1>2, <1>3

LEMMA NextTables ==
  ASSUME Shape, [Next]_vars
  PROVE  TablesOK'
<1> USE TenantsAssumption, CallShape DEF Shape, TablesOK
<1>1. 1 \in Tenants
  BY DEF Tenants
<1>2. ASSUME NEW k \in Calls, OrganizationStep(k)
      PROVE  TablesOK'
  <2>1. CASE CreateOrganization(k)
    BY <1>1, <2>1 DEF CreateOrganization, Pairs, Metadata
  <2>2. CASE Point(k)
    BY <2>2 DEF Point, Name, Rows
  <2>3. CASE Announce(k)
    BY <2>3 DEF Announce, Rows, Metadata
  <2>4. CASE RemoveTenant(k)
    BY <2>4, CascadeTables DEF RemoveTenant, Metadata
  <2>5. CASE WipeNext(k)
    <3>1. calls[k].todo \subseteq Tenants
      BY <2>5 DEF WipeNext
    <3> QED
      BY <2>5, <3>1, WipedBoard DEF WipeNext, Wipe, Rows, Metadata
  <2>6. CASE Dissolve(k)
    <3>1. PICK dead : Cascade(dead)
      BY <2>6 DEF Dissolve
    <3>2. org' = "gone" /\ people' = {} /\ UNCHANGED <<board, pointing, session>>
      BY <2>6 DEF Dissolve, Metadata
    <3> QED
      BY <3>1, <3>2, CascadeTables
  <2>7. CASE Strip(k)
    BY <2>7 DEF Strip, Rows
  <2>8. CASE DeleteOrganization(k)
    BY <2>8 DEF DeleteOrganization, Rows, Metadata
  <2>9. ASSUME NEW user \in Users, CreateTenant(k, user)
        PROVE  TablesOK'
    BY <2>9 DEF CreateTenant, Pairs, Metadata
  <2>10. ASSUME NEW user \in Users, NEW t \in Tenants, DeleteTenant(k, user, t)
         PROVE  TablesOK'
    BY <2>10, WipedBoard DEF DeleteTenant, Wipe, Rows, Metadata
  <2> QED
    BY <1>2, <2>1, <2>2, <2>3, <2>4, <2>5, <2>6, <2>7, <2>8, <2>9, <2>10 DEF OrganizationStep
<1>3. ASSUME NEW k \in Calls, ProductStep(k)
      PROVE  TablesOK'
  <2>1. CASE Write(k)
    BY <2>1 DEF Write, Put, Boards, Rows, Metadata
  <2>2. CASE Entitle(k)
    BY <2>2, ZenonT(40) DEF Entitle, Metadata
  <2>3. CASE ListEntitled(k)
    BY <2>3 DEF ListEntitled, Rows, Metadata
  <2>4. CASE RevokeNext(k)
    BY <2>4 DEF RevokeNext, Metadata
  <2>5. CASE Unlinked(k)
    BY <2>5 DEF Unlinked, Rows, Metadata
  <2>6. ASSUME NEW user \in Users, NEW t \in Tenants, Unlink(k, user, t)
        PROVE  TablesOK'
    BY <2>6 DEF Unlink, Metadata
  <2> QED
    BY <1>3, <2>1, <2>2, <2>3, <2>4, <2>5, <2>6 DEF ProductStep, Grant, Begin, Rows, Metadata
<1>4. ASSUME NEW user \in Users, NEW t \in Tenants, TenantStep(user, t)
      PROVE  TablesOK'
  <2>1. CASE Link(user, t)
    BY <2>1 DEF Link, Metadata
  <2>2. ASSUME NEW member \in Users,
               Attach(user, t, member) \/ Detach(user, t, member) \/ Revoke(user, <<t, member>>)
        PROVE  TablesOK'
    BY <2>2 DEF Attach, Detach, Revoke, Pairs, Metadata
  <2> QED
    BY <1>4, <2>1, <2>2 DEF TenantStep
<1>5. ASSUME NEW t \in Tenants, WorkerStep(t)
      PROVE  TablesOK'
  <2>1. CASE Onboard(t)
    BY <2>1 DEF Onboard, Put, Boards, Rows, Metadata
  <2> QED
    BY <1>5, <2>1 DEF WorkerStep, WorkerTakes, WorkerEnds, WorkerStalls, Rows, Metadata
<1>6. ASSUME NEW k \in Calls, MemberStep(k)
      PROVE  TablesOK'
  BY <1>6 DEF MemberStep, Left, Leave, Rows, Metadata
<1>7. CASE SessionStep
  BY <1>7 DEF SessionStep, RefreshSession, SaveProfile, Name, Rows
<1>8. CASE AccessStep
  <2>1. ASSUME NEW user \in Users, Join(user)
        PROVE  TablesOK'
    <3>1. /\ people' = people \cup {user}
          /\ UNCHANGED <<org, tenants, apps, board, pointing, session>>
      BY <2>1 DEF Join, Metadata
    <3>2. belongs' \subseteq Pairs /\ entitled' \subseteq Pairs
      BY <2>1, JoinAdds
    <3> QED
      BY <3>1, <3>2
  <2>2. ASSUME NEW pair \in Pairs, Appoint(pair)
        PROVE  TablesOK'
    BY <2>2 DEF Appoint, Metadata
  <2> QED
    BY <1>8, <2>1, <2>2 DEF AccessStep, Pairs
<1> QED
  BY <1>2, <1>3, <1>4, <1>5, <1>6, <1>7, <1>8 DEF Next, Stop, Rows, Metadata, vars

LEMMA NextHistories ==
  ASSUME Shape, [Next]_vars
  PROVE  HistoriesOK'
<1> USE TenantsAssumption DEF Shape, TablesOK, HistoriesOK, JobStates, History
<1>1. ASSUME NEW k \in Calls, OrganizationStep(k)
      PROVE  HistoriesOK'
  <2>1. CASE Strip(k)
    BY <2>1, CallShape DEF Strip
  <2>2. ASSUME NEW user \in Users, NEW t \in Tenants, DeleteTenant(k, user, t)
        PROVE  HistoriesOK'
    BY <2>2 DEF DeleteTenant, Wipe
  <2>3. CASE WipeNext(k)
    BY <2>3, CallShape DEF WipeNext, Wipe
  <2>4. CASE Dissolve(k)
    BY <2>4, CallShape DEF Dissolve
  <2>5. CASE Point(k)
    BY <2>5 DEF Point, Name
  <2>6. CASE Announce(k)
    BY <2>6 DEF Announce
  <2> QED
    BY <1>1, <2>1, <2>2, <2>3, <2>4, <2>5, <2>6
       DEF OrganizationStep, CreateOrganization, CreateTenant, RemoveTenant, DeleteOrganization
<1>2. ASSUME NEW k \in Calls, ProductStep(k)
      PROVE  HistoriesOK'
  <2>1. CASE Entitle(k)
    <3>1. calls[k].pair \in Pairs
      BY <2>1, CallShape DEF Entitle
    <3> QED
      BY <2>1, <3>1 DEF Entitle
  <2>2. CASE Unlinked(k)
    <3>1. calls[k].tenant \in Tenants
      BY <2>2, CallShape DEF Unlinked
    <3> QED
      BY <2>2, <3>1 DEF Unlinked
  <2>3. CASE ListEntitled(k)
    BY <2>3 DEF ListEntitled
  <2>4. CASE Write(k)
    <3>1. calls[k].tenant \in Tenants
      BY <2>4, CallShape DEF Write
    <3>2. late' \subseteq Tenants
      BY <2>4, <3>1 DEF Write, Put
    <3> QED
      BY <2>4, <3>2 DEF Write
  <2> QED
    BY <1>2, <2>1, <2>2, <2>3, <2>4 DEF ProductStep, RevokeNext, Grant, Unlink, Begin
<1>3. ASSUME NEW k \in Calls, Stop(k)
      PROVE  HistoriesOK'
  BY <1>3, CallShape DEF Stop, Condemned
<1>4. ASSUME NEW user \in Users, NEW t \in Tenants, TenantStep(user, t)
      PROVE  HistoriesOK'
  BY <1>4 DEF TenantStep, Link, Attach, Detach, Revoke, Pairs
<1>5. ASSUME NEW t \in Tenants, WorkerStep(t)
      PROVE  HistoriesOK'
  BY <1>5 DEF WorkerStep, WorkerTakes, Onboard, Put, WorkerEnds, WorkerStalls
<1>6. ASSUME NEW k \in Calls, MemberStep(k)
      PROVE  HistoriesOK'
  BY <1>6 DEF MemberStep, Left, Leave
<1>7. CASE SessionStep
  BY <1>7 DEF SessionStep, RefreshSession, SaveProfile, Name
<1>8. CASE AccessStep
  <2>1. ASSUME NEW user \in Users, Join(user)
        PROVE  HistoriesOK'
    <3>1. granted' \subseteq Pairs
      BY <2>1, JoinAdds
    <3> QED
      BY <2>1, <3>1 DEF Join
  <2>2. ASSUME NEW pair \in Pairs, Appoint(pair)
        PROVE  HistoriesOK'
    BY <2>2 DEF Appoint
  <2> QED
    BY <1>8, <2>1, <2>2 DEF AccessStep, Pairs
<1> QED
  BY <1>1, <1>2, <1>3, <1>4, <1>5, <1>6, <1>7, <1>8 DEF Next, vars

LEMMA NextShape ==
  ASSUME Shape, [Next]_vars
  PROVE  Shape'
BY NextCalls, NextTables, NextHistories DEF Shape

LEMMA InitShape ==
  Init => Shape
<1> SUFFICES ASSUME Init
             PROVE  Shape
  OBVIOUS
<1>1. TablesOK
  BY DEF Init, TablesOK, Boards, NoTasks
<1>2. HistoriesOK
  BY DEF Init, HistoriesOK, JobStates
<1>3. CallsOK
  BY DEF Init, CallsOK, Requested
<1> QED
  BY <1>1, <1>2, <1>3 DEF Shape

(* Nobody is a member of an organization that is not there. *)
PeopleLive == people # {} => org = "live"

LEMMA PeopleLiveNext ==
  ASSUME Shape, PeopleLive, [Next]_vars
  PROVE  PeopleLive'
<1>1. CASE UNCHANGED <<org, people>>
  BY <1>1 DEF PeopleLive
<1>2. ASSUME NEW k \in Calls, OrganizationStep(k)
      PROVE  PeopleLive'
  BY <1>1, <1>2
     DEF OrganizationStep, CreateOrganization, Point, Announce, RemoveTenant, WipeNext, Dissolve,
         Strip, DeleteOrganization, CreateTenant, DeleteTenant, Rows, PeopleLive
<1>3. ASSUME NEW k \in Calls, MemberStep(k)
      PROVE  PeopleLive'
  BY <1>1, <1>3 DEF MemberStep, Left, Leave, Rows, PeopleLive
<1>4. CASE AccessStep
  BY <1>1, <1>4 DEF AccessStep, Join, Appoint, PeopleLive
<1>5. ASSUME NEW k \in Calls, ProductStep(k) \/ Stop(k)
      PROVE  PeopleLive'
  BY <1>1, <1>5
     DEF ProductStep, ListEntitled, RevokeNext, Unlinked, Entitle, Write, Grant, Unlink, Begin,
         Stop, Rows
<1> QED
  BY <1>1, <1>2, <1>3, <1>4, <1>5
     DEF Next, SessionStep, RefreshSession, SaveProfile, TenantStep, Link, Attach, Detach, Revoke,
         WorkerStep, WorkerTakes, Onboard, WorkerEnds, WorkerStalls, Rows, vars

-----------------------------------------------------------------------------
(* Tasks without a tenant *)

(* A tenant's board is empty, or has been written to behind the back of a   *)
(* deletion, or belongs to a tenant that nobody has begun to delete.        *)
TasksHaveTenants ==
  \A t \in Tenants : board[t] # NoTasks => t \in late \/ (Live(t) /\ ~ Doomed(t))

(* Who still names an organization that is gone. *)
StripsToCome ==
  org = "gone" /\ pointing => spared \/ \E k \in Calls : calls[k].pc = "strip"

LEMMA OneCallMoves ==
  ASSUME CallsOK, NEW k \in Calls, NEW call, Becomes(k, call)
  PROVE  /\ calls'[k] = call
         /\ \A j \in Calls : j # k => calls'[j] = calls[j]
BY DEF CallsOK, Becomes

(* A call that begins to condemn a tenant wipes its board, *)
LEMMA NewlyDoomed ==
  ASSUME Shape, [Next]_vars, NEW t \in Tenants, Doomed(t)'
  PROVE  Doomed(t) \/ board'[t] = NoTasks
<1> USE CallShape DEF Shape
<1>1. PICK j \in Calls : t \in Condemned(j)'
  BY DEF Doomed
<1>2. SUFFICES ASSUME t \notin Condemned(j)
               PROVE  board'[t] = NoTasks
  BY DEF Doomed
<1>3. ASSUME NEW k \in Calls, NEW call, Becomes(k, call), call.pc \notin {"remove", "dissolve"}
      PROVE  FALSE
  BY <1>1, <1>2, <1>3, OneCallMoves DEF Condemned
<1>4. CASE UNCHANGED calls
  BY <1>1, <1>2, <1>4 DEF Condemned
<1>5. ASSUME NEW k \in Calls, OrganizationStep(k)
      PROVE  board'[t] = NoTasks
  <2>1. CASE WipeNext(k)
    <3>1. PICK u \in calls[k].todo : Becomes(k, [calls[k] EXCEPT !.todo = @ \ {u}]) /\ Wipe(u)
      BY <2>1 DEF WipeNext
    <3>2. calls'[k] = [pc |-> "dissolve", listed |-> calls[k].listed, todo |-> calls[k].todo \ {u},
                       members |-> calls[k].members]
      <4>1. calls'[k] = [calls[k] EXCEPT !.todo = @ \ {u}]
        BY <3>1, OneCallMoves
      <4> QED
        BY <2>1, <4>1, Shortened DEF WipeNext
    <3> QED
      BY <1>1, <1>2, <2>1, <3>1, <3>2, OneCallMoves DEF WipeNext, Wipe, Condemned, TablesOK
  <2>2. ASSUME NEW user \in Users, NEW u \in Tenants, DeleteTenant(k, user, u)
        PROVE  board'[t] = NoTasks
    BY <1>1, <1>2, <2>2, OneCallMoves DEF DeleteTenant, Take, Wipe, Condemned, TablesOK
  <2>3. CASE DeleteOrganization(k)
    BY <1>1, <1>2, <2>3, OneCallMoves DEF DeleteOrganization, Take, Condemned
  <2>4. CASE Point(k) \/ Strip(k)
    BY <1>3, <1>4, <2>4 DEF Point, Strip, Done, Idle
  <2> QED
    BY <1>3, <1>5, <2>1, <2>2, <2>3, <2>4
       DEF OrganizationStep, CreateOrganization, Announce, RemoveTenant, Dissolve,
           CreateTenant, Take, Done, Idle
<1>6. ASSUME NEW k \in Calls, ProductStep(k) \/ MemberStep(k) \/ Stop(k)
      PROVE  FALSE
  BY <1>3, <1>6
     DEF ProductStep, ListEntitled, RevokeNext, Unlinked, Entitle, Write, Grant, Unlink, Begin,
         MemberStep, Left, Leave, Stop, Take, Done, Idle
<1> QED
  BY <1>4, <1>5, <1>6
     DEF Next, SessionStep, RefreshSession, SaveProfile, AccessStep, Join, Appoint, TenantStep, Link, Attach, Detach, Revoke, WorkerStep, WorkerTakes, Onboard,
         WorkerEnds, WorkerStalls, vars

(* and ends it with the tenant, or halved. *)
LEMMA NoLongerDoomed ==
  ASSUME Shape, [Next]_vars, NEW t \in Tenants, Doomed(t), Live(t)'
  PROVE  Doomed(t)' \/ t \in halved'
<1> USE CallShape DEF Shape
<1>1. PICK j \in Calls : t \in Condemned(j)
  BY DEF Doomed
<1>2. SUFFICES ASSUME t \notin Condemned(j)'
               PROVE  t \in halved'
  BY DEF Doomed
<1>3. calls[j].pc \in {"remove", "dissolve"}
  BY <1>1 DEF Condemned
<1>4. ASSUME NEW k \in Calls, NEW call, Becomes(k, call)
      PROVE  k = j
  BY <1>1, <1>2, <1>4, OneCallMoves DEF Condemned
<1>5. ASSUME NEW k \in Calls, NEW call, Becomes(k, call),
             calls[k].pc \notin {"remove", "dissolve"}
      PROVE  FALSE
  BY <1>3, <1>4, <1>5
<1>6. ASSUME NEW k \in Calls, NEW call, Take(k, call)
      PROVE  FALSE
  BY <1>5, <1>6 DEF Take, Idle
<1>7. CASE UNCHANGED calls
  BY <1>1, <1>2, <1>7 DEF Condemned
<1>8. ASSUME NEW k \in Calls, OrganizationStep(k)
      PROVE  t \in halved'
  <2>1. CASE WipeNext(k)
    <3>1. PICK u \in calls[k].todo : Becomes(k, [calls[k] EXCEPT !.todo = @ \ {u}])
      BY <2>1 DEF WipeNext
    <3>2. calls'[k] = [pc |-> "dissolve", listed |-> calls[k].listed, todo |-> calls[k].todo \ {u},
                       members |-> calls[k].members]
      <4>1. calls'[k] = [calls[k] EXCEPT !.todo = @ \ {u}]
        BY <3>1, OneCallMoves
      <4> QED
        BY <2>1, <4>1, Shortened DEF WipeNext
    <3> QED
      BY <1>1, <1>2, <1>4, <2>1, <3>1, <3>2 DEF WipeNext, Condemned
  <2>2. CASE RemoveTenant(k)
    BY <1>1, <1>2, <1>4, <2>2 DEF RemoveTenant, Done, Cascade, Live, Condemned, TablesOK
  <2>3. CASE Dissolve(k)
    BY <1>1, <1>2, <1>4, <2>3 DEF Dissolve, Cascade, Live, Condemned, TablesOK
  <2>4. CASE Strip(k)
    BY <1>5, <2>4 DEF Strip, Done
  <2>5. CASE CreateOrganization(k) \/ DeleteOrganization(k)
    BY <1>6, <2>5 DEF CreateOrganization, DeleteOrganization
  <2>6. ASSUME NEW user \in Users, CreateTenant(k, user)
        PROVE  FALSE
    BY <1>6, <2>6 DEF CreateTenant
  <2>7. ASSUME NEW user \in Users, NEW u \in Tenants, DeleteTenant(k, user, u)
        PROVE  FALSE
    BY <1>6, <2>7 DEF DeleteTenant
  <2>8. CASE Point(k) \/ Announce(k)
    BY <1>5, <1>7, <2>8 DEF Point, Announce, Done
  <2> QED
    BY <1>8, <2>1, <2>2, <2>3, <2>4, <2>5, <2>6, <2>7, <2>8 DEF OrganizationStep
<1>9. ASSUME NEW k \in Calls, ProductStep(k)
      PROVE  FALSE
  <2>1. CASE ListEntitled(k) \/ RevokeNext(k) \/ Unlinked(k) \/ Entitle(k) \/ Write(k)
    BY <1>5, <2>1 DEF ListEntitled, RevokeNext, Unlinked, Entitle, Write, Done
  <2>2. ASSUME NEW call, Take(k, call)
        PROVE  FALSE
    BY <1>6, <2>2
  <2> QED
    BY <1>9, <2>1, <2>2 DEF ProductStep, Grant, Unlink, Begin
<1>10. ASSUME NEW k \in Calls, Stop(k)
       PROVE  t \in halved'
  BY <1>1, <1>4, <1>10 DEF Stop, Done, Rows, Live
<1>11. ASSUME NEW k \in Calls, MemberStep(k)
       PROVE  FALSE
  BY <1>5, <1>6, <1>11 DEF MemberStep, Left, Leave, Done
<1> QED
  BY <1>7, <1>8, <1>9, <1>10, <1>11
     DEF Next, SessionStep, RefreshSession, SaveProfile, AccessStep, Join, Appoint, TenantStep, Link, Attach, Detach, Revoke, WorkerStep, WorkerTakes, Onboard,
         WorkerEnds, WorkerStalls, vars

(* What a tenant's board and status become. *)
LEMMA TasksHaveTenantsNext ==
  ASSUME Shape, TasksHaveTenants, [Next]_vars
  PROVE  TasksHaveTenants'
<1> USE CallShape DEF Shape
<1> SUFFICES ASSUME NEW t \in Tenants, board'[t] # NoTasks, t \notin late'
             PROVE  Live(t)' /\ ~ Doomed(t)'
  BY DEF TasksHaveTenants
<1>1. Doomed(t)' => Doomed(t)
  BY NewlyDoomed
<1>2. CASE board'[t] = board[t] /\ t \notin late /\ (Live(t) => Live(t)')
  BY <1>1, <1>2 DEF TasksHaveTenants
<1>3. ASSUME NEW k \in Calls, OrganizationStep(k)
      PROVE  Live(t)' /\ ~ Doomed(t)'
  <2>1. CASE WipeNext(k)
    BY <1>2, <2>1 DEF WipeNext, Wipe, Rows, Live, TablesOK
  <2>2. ASSUME NEW user \in Users, NEW u \in Tenants, DeleteTenant(k, user, u)
        PROVE  Live(t)' /\ ~ Doomed(t)'
    BY <1>2, <2>2 DEF DeleteTenant, Wipe, Rows, Live, TablesOK
  <2>3. CASE RemoveTenant(k)
    <3>1. t # calls[k].tenant
      BY <2>3 DEF RemoveTenant, History, TasksHaveTenants, Doomed, Condemned
    <3> QED
      BY <1>2, <2>3, <3>1 DEF RemoveTenant, Cascade, History, Live, TablesOK
  <2>4. CASE Dissolve(k)
    <3>1. ~ Live(t)
      BY <2>4 DEF Dissolve, TasksHaveTenants, Doomed, Condemned
    <3> QED
      BY <1>2, <2>4, <3>1 DEF Dissolve
  <2>5. CASE CreateOrganization(k) \/ DeleteOrganization(k) \/ Point(k) \/ Announce(k)
    BY <1>2, <2>5
       DEF CreateOrganization, DeleteOrganization, Point, Announce, Rows, History, Live, TablesOK
  <2>6. ASSUME NEW user \in Users, CreateTenant(k, user)
        PROVE  Live(t)' /\ ~ Doomed(t)'
    BY <1>2, <2>6 DEF CreateTenant, Rows, History, Live, TablesOK
  <2>7. CASE Strip(k)
    BY <1>2, <2>7 DEF Strip, Rows, Live
  <2> QED
    BY <1>3, <2>1, <2>2, <2>3, <2>4, <2>5, <2>6, <2>7 DEF OrganizationStep
<1>4. ASSUME NEW k \in Calls, ProductStep(k)
      PROVE  Live(t)' /\ ~ Doomed(t)'
  <2>1. CASE Write(k)
    BY <1>1, <1>2, <2>1 DEF Write, Put, Rows, Live, TablesOK
  <2> QED
    BY <1>2, <1>4, <2>1
       DEF ProductStep, ListEntitled, RevokeNext, Unlinked, Entitle, Grant, Unlink, Begin, Rows,
           History, Live
<1>5. ASSUME NEW u \in Tenants, WorkerStep(u)
      PROVE  Live(t)' /\ ~ Doomed(t)'
  BY <1>1, <1>2, <1>5
     DEF WorkerStep, WorkerTakes, Onboard, Put, WorkerEnds, WorkerStalls, Rows, History, Live, TablesOK
<1> QED
  BY <1>2, <1>3, <1>4, <1>5
     DEF Next, MemberStep, Left, Leave, Stop, SessionStep, RefreshSession, SaveProfile, AccessStep,
         Join, Appoint, TenantStep, Link, Attach, Detach, Revoke, Rows, History, Live, vars

LEMMA StripsToComeNext ==
  ASSUME Shape, PeopleLive, StripsToCome, [Next]_vars
  PROVE  StripsToCome'
<1> USE CallShape DEF Shape, TablesOK, HistoriesOK
<1> SUFFICES ASSUME org' = "gone", pointing', ~ spared'
             PROVE  \E j \in Calls : calls'[j].pc = "strip"
  BY DEF StripsToCome
(* A step of another request, or none, while the organization is gone. *)
<1>1. ASSUME org = "gone", pointing, ~ spared,
             \A k \in Calls : calls[k].pc = "strip" => calls'[k] = calls[k]
      PROVE  \E j \in Calls : calls'[j].pc = "strip"
  BY <1>1 DEF StripsToCome
<1>2. ASSUME UNCHANGED <<org, pointing, spared>>, NEW k \in Calls, calls[k].pc # "strip",
             NEW call, Becomes(k, call)
      PROVE  \E j \in Calls : calls'[j].pc = "strip"
  BY <1>1, <1>2, OneCallMoves
<1>3. ASSUME UNCHANGED <<org, pointing, spared>>, NEW k \in Calls, NEW call, Take(k, call)
      PROVE  \E j \in Calls : calls'[j].pc = "strip"
  <2>1. calls[k].pc # "strip" /\ Becomes(k, call)
    BY <1>3 DEF Take, Idle
  <2> QED
    BY <1>2, <1>3, <2>1
<1>4. CASE UNCHANGED <<org, pointing, spared, calls>>
  BY <1>1, <1>4
<1>5. ASSUME NEW k \in Calls, OrganizationStep(k)
      PROVE  \E j \in Calls : calls'[j].pc = "strip"
  <2>1. CASE Dissolve(k)
    BY <2>1, OneCallMoves DEF Dissolve
  <2>2. CASE Strip(k)
    BY <2>2 DEF Strip
  <2>3. CASE Point(k)
    BY <2>3 DEF Point, Name, Rows
  <2>4. CASE Announce(k) \/ RemoveTenant(k) \/ WipeNext(k)
    BY <1>2, <2>4 DEF Announce, RemoveTenant, WipeNext, Done, Rows, Metadata, History
  <2>5. CASE DeleteOrganization(k)
    BY <1>3, <2>5 DEF DeleteOrganization, Rows, Metadata, History
  <2>6. ASSUME NEW user \in Users, CreateTenant(k, user) \/ \E t \in Tenants : DeleteTenant(k, user, t)
        PROVE  \E j \in Calls : calls'[j].pc = "strip"
    BY <2>6 DEF CreateTenant, DeleteTenant, MayAdmin, PeopleLive, Rows
  <2>7. ~ CreateOrganization(k)
    BY DEF CreateOrganization
  <2> QED
    BY <1>5, <2>1, <2>2, <2>3, <2>4, <2>5, <2>6, <2>7 DEF OrganizationStep
<1>6. ASSUME NEW k \in Calls, ProductStep(k)
      PROVE  \E j \in Calls : calls'[j].pc = "strip"
  <2>1. CASE ListEntitled(k) \/ RevokeNext(k) \/ Unlinked(k) \/ Entitle(k) \/ Write(k)
    BY <1>2, <2>1
       DEF ListEntitled, RevokeNext, Unlinked, Entitle, Write, Done, Rows, Metadata, History
  <2>2. ASSUME NEW call, Take(k, call), UNCHANGED <<org, pointing, spared>>
        PROVE  \E j \in Calls : calls'[j].pc = "strip"
    BY <1>3, <2>2
  <2> QED
    BY <1>6, <2>1, <2>2 DEF ProductStep, Grant, Unlink, Begin, Rows, Metadata, History
<1>7. ASSUME NEW k \in Calls, Stop(k)
      PROVE  \E j \in Calls : calls'[j].pc = "strip"
  BY <1>2, <1>7 DEF Stop, Done, Rows, Metadata
<1>8. ASSUME NEW k \in Calls, MemberStep(k)
      PROVE  \E j \in Calls : calls'[j].pc = "strip"
  BY <1>2, <1>3, <1>8 DEF MemberStep, Left, Leave, Done, Rows, Metadata, History
<1>9. CASE SessionStep
  BY <1>4, <1>9 DEF SessionStep, RefreshSession, SaveProfile, Name, Rows, History
<1> QED
  BY <1>4, <1>5, <1>6, <1>7, <1>8, <1>9
     DEF Next, AccessStep, Join, Appoint, TenantStep, Link, Attach, Detach, Revoke, WorkerStep,
         WorkerTakes, Onboard, WorkerEnds, WorkerStalls, Rows, Metadata, History, vars

-----------------------------------------------------------------------------
(* The onboarding task of a tenant *)

(* A job has added one task for each time it was taken back, and one more   *)
(* once the worker has added it; then the tenant has the task, or is or was *)
(* being deleted.                                                           *)
Provisioned ==
  \A t \in Tenants :
    /\ board[t].onboarding <= 1 + stalls[t]
    /\ events[t] \in {"none", "queued", "taken", "failed", "lost"} =>
         board[t].onboarding <= stalls[t]
    /\ events[t] = "none" => board[t].onboarding = 0
    /\ events[t] \in {"onboarded", "done"} /\ Live(t) =>
         board[t].onboarding >= 1 \/ Doomed(t) \/ t \in halved

(* The job of a tenant is queued once, by the request that created it. *)
AnnouncedOnce ==
  /\ \A t \in Tenants : tenants[t] = "unborn" => events[t] = "none"
  /\ \A k \in Calls : calls[k].pc = "announce" =>
       /\ tenants[calls[k].tenant] # "unborn" /\ events[calls[k].tenant] = "none"
       /\ \A j \in Calls : calls[j].pc = "announce" /\ calls[j].tenant = calls[k].tenant => j = k
  /\ org = "unborn" => \A t \in Tenants : tenants[t] = "unborn"

LEMMA AnnouncedOnceNext ==
  ASSUME Shape, PeopleLive, AnnouncedOnce, [Next]_vars
  PROVE  AnnouncedOnce'
<1> USE CallShape DEF Shape
<1>1. ASSUME UNCHANGED events, \A t \in Tenants : tenants'[t] = "unborn" => tenants[t] = "unborn",
             org' = "unborn" => org = "unborn" /\ UNCHANGED tenants,
             \A k \in Calls : calls'[k].pc = "announce" => calls'[k] = calls[k]
      PROVE  AnnouncedOnce'
  <2>1. ASSUME NEW k \in Calls, calls'[k].pc = "announce"
        PROVE  /\ tenants'[calls'[k].tenant] # "unborn" /\ events'[calls'[k].tenant] = "none"
               /\ \A j \in Calls : calls'[j].pc = "announce" /\ calls'[j].tenant = calls'[k].tenant
                                    => j = k
    <3>1. calls'[k] = calls[k] /\ calls[k].pc = "announce" /\ calls[k].tenant \in Tenants
      BY <1>1, <2>1
    <3>2. tenants[calls[k].tenant] # "unborn" /\ events[calls[k].tenant] = "none"
      BY <3>1 DEF AnnouncedOnce
    <3>3. ASSUME NEW j \in Calls, calls'[j].pc = "announce", calls'[j].tenant = calls'[k].tenant
          PROVE  j = k
      <4>1. calls'[j] = calls[j]
        BY <1>1, <3>3
      <4> QED
        BY <3>1, <3>3, <4>1 DEF AnnouncedOnce
    <3> QED
      BY <1>1, <3>1, <3>2, <3>3
  <2> QED
    BY <1>1, <2>1 DEF AnnouncedOnce
<1>2. ASSUME NEW k \in Calls, NEW call, Becomes(k, call), call.pc # "announce",
             UNCHANGED <<org, tenants, events>>
      PROVE  AnnouncedOnce'
  BY <1>1, <1>2, OneCallMoves
<1>3. CASE UNCHANGED <<org, tenants, events, calls>>
  BY <1>1, <1>3
<1>4. ASSUME NEW k \in Calls, OrganizationStep(k)
      PROVE  AnnouncedOnce'
  <2>1. ASSUME NEW user \in Users, CreateTenant(k, user)
        PROVE  AnnouncedOnce'
    <3>1. PICK t \in Tenants : /\ Newest(t) /\ tenants' = [tenants EXCEPT ![t] = "live"]
                               /\ Take(k, [pc |-> "announce", tenant |-> t])
      BY <2>1 DEF CreateTenant
    <3>2. /\ calls'[k] = [pc |-> "announce", tenant |-> t]
          /\ \A j \in Calls : j # k => calls'[j] = calls[j]
      BY <3>1, OneCallMoves DEF Take
    <3> QED
      BY <2>1, <3>1, <3>2 DEF CreateTenant, Newest, MayAdmin, PeopleLive, AnnouncedOnce, TablesOK
  <2>2. CASE CreateOrganization(k)
    <3>1. /\ calls'[k] = [pc |-> "point"]
          /\ \A j \in Calls : j # k => calls'[j] = calls[j]
      BY <2>2, OneCallMoves DEF CreateOrganization, Take
    <3> QED
      BY <1>1, <2>2, <3>1 DEF CreateOrganization, TablesOK
  <2>3. CASE Announce(k)
    <3>1. /\ calls'[k].pc = "idle"
          /\ \A j \in Calls : j # k => calls'[j] = calls[j]
      BY <2>3, OneCallMoves DEF Announce, Done, Idle
    <3> QED
      BY <2>3, <3>1 DEF Announce, AnnouncedOnce, Rows, HistoriesOK
  <2>4. CASE RemoveTenant(k) \/ Dissolve(k)
    <3>1. /\ calls'[k].pc # "announce"
          /\ \A j \in Calls : j # k => calls'[j] = calls[j]
      BY <2>4, OneCallMoves DEF RemoveTenant, Dissolve, Done, Idle
    <3>2. org # "unborn"
      BY <2>4 DEF RemoveTenant, Dissolve, AnnouncedOnce, Live
    <3> QED
      BY <1>1, <2>4, <3>1, <3>2 DEF RemoveTenant, Dissolve, Cascade
  <2>5. CASE Point(k) \/ WipeNext(k) \/ DeleteOrganization(k) \/ Strip(k)
    BY <1>2, <1>3, <2>5
       DEF Point, WipeNext, DeleteOrganization, Strip, Take, Done, Idle, Rows
  <2>6. ASSUME NEW user \in Users, NEW t \in Tenants, DeleteTenant(k, user, t)
        PROVE  AnnouncedOnce'
    BY <1>2, <2>6 DEF DeleteTenant, Take, Idle, Rows
  <2> QED
    BY <1>4, <2>1, <2>2, <2>3, <2>4, <2>5, <2>6 DEF OrganizationStep
<1>5. ASSUME NEW k \in Calls, ProductStep(k)
      PROVE  AnnouncedOnce'
  BY <1>2, <1>5
     DEF ProductStep, ListEntitled, RevokeNext, Unlinked, Entitle, Write, Grant, Unlink, Begin,
         Take, Done, Idle, Rows
<1>6. ASSUME NEW k \in Calls, Stop(k)
      PROVE  AnnouncedOnce'
  <2>1. /\ calls'[k].pc = "idle"
        /\ \A j \in Calls : j # k => calls'[j] = calls[j]
    BY <1>6, OneCallMoves DEF Stop, Done, Idle
  <2>2. CASE calls[k].pc = "announce"
    BY <1>6, <2>1, <2>2 DEF Stop, AnnouncedOnce, Rows, HistoriesOK
  <2>3. CASE calls[k].pc # "announce"
    BY <1>1, <1>6, <2>1, <2>3 DEF Stop, Rows
  <2> QED
    BY <2>2, <2>3
<1>7. ASSUME NEW t \in Tenants, WorkerStep(t)
      PROVE  AnnouncedOnce'
  <2>1. UNCHANGED <<org, tenants, calls>>
    BY <1>7 DEF WorkerStep, WorkerTakes, Onboard, WorkerEnds, WorkerStalls, Rows
  <2>2. events[t] # "none" /\ \A u \in Tenants : u # t => events'[u] = events[u]
    BY <1>7 DEF WorkerStep, WorkerTakes, Onboard, WorkerEnds, WorkerStalls, HistoriesOK
  <2> QED
    BY <2>1, <2>2, ZenonT(40) DEF AnnouncedOnce
<1>8. ASSUME NEW user \in Users, NEW t \in Tenants, TenantStep(user, t)
      PROVE  AnnouncedOnce'
  BY <1>3, <1>8 DEF TenantStep, Link, Attach, Detach, Revoke, Rows
<1>9. CASE SessionStep \/ AccessStep
  BY <1>3, <1>9
     DEF SessionStep, RefreshSession, SaveProfile, AccessStep, Join, Appoint, Rows
<1>10. ASSUME NEW k \in Calls, MemberStep(k)
       PROVE  AnnouncedOnce'
  BY <1>2, <1>10 DEF MemberStep, Left, Leave, Take, Done, Idle, Rows
<1> QED
  BY <1>3, <1>4, <1>5, <1>6, <1>7, <1>8, <1>9, <1>10 DEF Next, Rows, vars

LEMMA ProvisionedNext ==
  ASSUME Shape, AnnouncedOnce, Provisioned, [Next]_vars
  PROVE  Provisioned'
<1> USE CallShape DEF Shape
<1> SUFFICES ASSUME NEW t \in Tenants
             PROVE  /\ board'[t].onboarding <= 1 + stalls'[t]
                    /\ events'[t] \in {"none", "queued", "taken", "failed", "lost"} =>
                         board'[t].onboarding <= stalls'[t]
                    /\ events'[t] = "none" => board'[t].onboarding = 0
                    /\ events'[t] \in {"onboarded", "done"} /\ Live(t)' =>
                         board'[t].onboarding >= 1 \/ Doomed(t)' \/ t \in halved'
  BY DEF Provisioned
<1> DEFINE Goal == /\ board'[t].onboarding <= 1 + stalls'[t]
                   /\ events'[t] \in {"none", "queued", "taken", "failed", "lost"} =>
                        board'[t].onboarding <= stalls'[t]
                   /\ events'[t] = "none" => board'[t].onboarding = 0
                   /\ events'[t] \in {"onboarded", "done"} /\ Live(t)' =>
                        board'[t].onboarding >= 1 \/ Doomed(t)' \/ t \in halved'
<1>1. board[t].onboarding \in Nat /\ stalls[t] \in Nat
  BY DEF TablesOK, HistoriesOK, Boards
<1>2. Live(t)' /\ Doomed(t) => Doomed(t)' \/ t \in halved'
  BY NoLongerDoomed
<1>3. tenants[t] = "unborn" => events[t] = "none"
  BY DEF AnnouncedOnce
<1>4. halved \subseteq halved'
  BY ZenonT(40) DEF Next, OrganizationStep, CreateOrganization, Point, Announce, RemoveTenant, WipeNext,
         Dissolve, CreateTenant, Strip, DeleteOrganization, DeleteTenant, ProductStep,
         ListEntitled, RevokeNext, Unlinked, Entitle, Write, Grant, Unlink, Begin, TenantStep, Link,
         Attach, Detach, Revoke, WorkerStep, WorkerTakes, Onboard, WorkerEnds, WorkerStalls, Stop,
         MemberStep, Left, Leave, SessionStep, RefreshSession, SaveProfile, AccessStep, Join,
         Appoint, History, vars
<1>5. ASSUME Live(t)' => Live(t) \/ tenants[t] = "unborn",
             UNCHANGED <<events, stalls>>, board'[t].onboarding = board[t].onboarding
      PROVE  Goal
  BY <1>1, <1>2, <1>3, <1>4, <1>5 DEF Provisioned
<1>6. ASSUME NEW k \in Calls, OrganizationStep(k)
      PROVE  Goal
  <2>1. CASE Announce(k)
    <3>1. events[calls[k].tenant] = "none" /\ calls[k].tenant \in Tenants
      BY <2>1 DEF Announce, AnnouncedOnce
    <3>2. CASE t = calls[k].tenant
      BY <1>1, <2>1, <3>1, <3>2 DEF Announce, Provisioned, Rows, History, HistoriesOK
    <3>3. CASE t # calls[k].tenant
      <4>1. Live(t)' = Live(t) /\ UNCHANGED <<board, stalls>> /\ events'[t] = events[t]
        BY <2>1, <3>3 DEF Announce, Rows, History, Live, HistoriesOK
      <4> QED
        BY <1>1, <1>2, <1>4, <4>1 DEF Provisioned
    <3> QED
      BY <3>2, <3>3
  <2>2. ASSUME NEW u \in Tenants, Wipe(u), Doomed(u)', UNCHANGED <<tenants, events, stalls>>
        PROVE  Goal
    <3>1. CASE t = u
      BY <1>1, <2>2, <3>1 DEF Wipe, NoTasks, TablesOK
    <3>2. CASE t # u
      BY <1>5, <2>2, <3>2 DEF Wipe, Live, TablesOK
    <3> QED
      BY <3>1, <3>2
  <2>3. CASE WipeNext(k)
    <3>1. PICK u \in calls[k].todo :
             /\ Becomes(k, [calls[k] EXCEPT !.todo = @ \ {u}])
             /\ Wipe(u)
      BY <2>3 DEF WipeNext
    <3>2. u \in calls[k].listed
      BY <2>3 DEF WipeNext
    <3>3. u \in Tenants
      BY <2>3, <3>2 DEF WipeNext
    <3>4. calls'[k] = [pc |-> "dissolve", listed |-> calls[k].listed, todo |-> calls[k].todo \ {u},
                       members |-> calls[k].members]
      <4>1. calls'[k] = [calls[k] EXCEPT !.todo = @ \ {u}]
        BY <3>1, OneCallMoves
      <4> QED
        BY <2>3, <4>1, Shortened DEF WipeNext
    <3>5. u \in Condemned(k)'
      BY <3>2, <3>3, <3>4 DEF Condemned
    <3> QED
      BY <2>2, <2>3, <3>1, <3>3, <3>5 DEF WipeNext, Rows, Doomed
  <2>4. ASSUME NEW user \in Users, NEW u \in Tenants, DeleteTenant(k, user, u)
        PROVE  Goal
    <3>1. u \in Condemned(k)'
      BY <2>4, OneCallMoves DEF DeleteTenant, Take, Condemned
    <3> QED
      BY <2>2, <2>4, <3>1 DEF DeleteTenant, Rows, Doomed
  <2>5. CASE RemoveTenant(k) \/ Dissolve(k)
    BY <1>5, <2>5 DEF RemoveTenant, Dissolve, Cascade, Live, History, TablesOK
  <2>6. CASE CreateOrganization(k)
    BY <1>5, <2>6 DEF CreateOrganization, Live, History, AnnouncedOnce
  <2>7. ASSUME NEW user \in Users, CreateTenant(k, user)
        PROVE  Goal
    BY <1>5, <2>7 DEF CreateTenant, Newest, Live, History, TablesOK
  <2>8. CASE Point(k) \/ DeleteOrganization(k)
    BY <1>5, <2>8 DEF Point, DeleteOrganization, Live, Rows, History
  <2>9. CASE Strip(k)
    BY <1>5, <2>9 DEF Strip, Live, Rows
  <2> QED
    BY <1>6, <2>1, <2>3, <2>4, <2>5, <2>6, <2>7, <2>8, <2>9 DEF OrganizationStep
<1>7. ASSUME NEW k \in Calls, ProductStep(k)
      PROVE  Goal
  <2>1. CASE Write(k)
    BY <1>5, <2>1 DEF Write, Put, Rows, Live, TablesOK
  <2> QED
    BY <1>5, <1>7, <2>1
       DEF ProductStep, ListEntitled, RevokeNext, Unlinked, Entitle, Grant, Unlink, Begin, Rows,
           History, Live
<1>8. ASSUME NEW k \in Calls, Stop(k)
      PROVE  Goal
  <2>1. Live(t)' = Live(t) /\ UNCHANGED <<board, stalls>>
    BY <1>8 DEF Stop, Rows, Live
  <2>2. CASE calls[k].pc = "announce" /\ calls[k].tenant = t
    <3>1. events[t] = "none" /\ events'[t] = "lost"
      BY <1>8, <2>2 DEF Stop, AnnouncedOnce, HistoriesOK
    <3> QED
      BY <1>1, <2>1, <3>1 DEF Provisioned
  <2>3. CASE ~ (calls[k].pc = "announce" /\ calls[k].tenant = t)
    <3>1. events'[t] = events[t]
      BY <1>8, <2>3 DEF Stop, HistoriesOK
    <3> QED
      BY <1>1, <1>2, <1>4, <2>1, <3>1 DEF Provisioned
  <2> QED
    BY <2>2, <2>3
<1>9. ASSUME NEW u \in Tenants, WorkerStep(u)
      PROVE  Goal
  <2>1. Live(t)' = Live(t)
    BY <1>9 DEF WorkerStep, WorkerTakes, Onboard, WorkerEnds, WorkerStalls, Rows, Live
  <2>2. CASE t # u
    <3>1. events'[t] = events[t] /\ stalls'[t] = stalls[t] /\ board'[t] = board[t]
      BY <1>9, <2>2
         DEF WorkerStep, WorkerTakes, Onboard, Put, WorkerEnds, WorkerStalls, Rows, History,
             HistoriesOK, TablesOK
    <3> QED
      BY <1>1, <1>2, <1>4, <2>1, <3>1 DEF Provisioned
  <2>3. CASE t = u /\ WorkerTakes(u)
    BY <1>1, <2>3 DEF WorkerTakes, Provisioned, Rows, History, HistoriesOK
  <2>4. CASE t = u /\ Onboard(u)
    BY <1>1, <2>4 DEF Onboard, Put, Provisioned, Rows, HistoriesOK, TablesOK
  <2>5. CASE t = u /\ WorkerEnds(u)
    BY <1>1, <1>2, <1>4, <2>1, <2>5 DEF WorkerEnds, Provisioned, Rows, History, HistoriesOK
  <2>6. CASE t = u /\ WorkerStalls(u)
    BY <1>1, <2>6 DEF WorkerStalls, Provisioned, Rows, HistoriesOK
  <2> QED
    BY <1>9, <2>2, <2>3, <2>4, <2>5, <2>6 DEF WorkerStep
<1> QED
  BY <1>5, <1>6, <1>7, <1>8, <1>9
     DEF Next, MemberStep, Left, Leave, SessionStep, RefreshSession, SaveProfile, AccessStep, Join,
         Appoint, TenantStep, Link, Attach, Detach, Revoke, Rows, History, Live, vars

-----------------------------------------------------------------------------
(* Entitlements *)

(* Rows are of tenants that live; before the organization there are none.   *)
RowsLive ==
  /\ \A b \in belongs : Live(b[1])
  /\ org = "unborn" => \A t \in Tenants : tenants[t] = "unborn"

(* A grant that has found its member: the pair still belongs, or was        *)
(* removed, or its tenant is gone.                                          *)
GrantsHaveMembers ==
  \A k \in Calls : calls[k].pc = "grant" =>
    /\ calls[k].pair \in belongs \cup left \/ tenants[calls[k].pair[1]] = "gone"
    /\ tenants[calls[k].pair[1]] # "unborn"

EntitledBelong == \A e \in entitled : e \in belongs \cup left \cup appointed

(* An unlink that has listed the entitlements of its tenant knows of each:  *)
(* it was granted since, or some unlink still has it to revoke.             *)
Unlinking(t) == \E k \in Calls : calls[k].pc = "revoke" /\ calls[k].tenant = t

ToRevoke(e) == \E k \in Calls : calls[k].pc = "revoke" /\ e \in calls[k].todo

UnlinksKnow ==
  \A e \in entitled : e[1] \in unlinked \/ Unlinking(e[1]) => e \in granted \/ ToRevoke(e)

LEMMA RowsLiveNext ==
  ASSUME Shape, PeopleLive, RowsLive, [Next]_vars
  PROVE  RowsLive'
<1> USE CallShape, TenantsAssumption DEF Shape, TablesOK
<1>1. 1 \in Tenants
  BY DEF Tenants
<1>2. ASSUME NEW dead \in SUBSET Tenants, Cascade(dead), org' # "unborn"
      PROVE  RowsLive'
  BY <1>2 DEF Cascade, RowsLive, Live, Pairs
<1>3. CASE UNCHANGED <<tenants, belongs, org>>
  BY <1>3 DEF RowsLive, Live
<1>4. ASSUME NEW k \in Calls, OrganizationStep(k)
      PROVE  RowsLive'
  <2>1. CASE CreateOrganization(k)
    BY <1>1, <2>1 DEF CreateOrganization, RowsLive, Live
  <2>2. CASE RemoveTenant(k)
    <3>1. /\ Cascade({calls[k].tenant}) /\ calls[k].tenant \in Tenants
          /\ org # "unborn" /\ org' = org
      BY <2>2 DEF RemoveTenant, RowsLive, Live
    <3> QED
      BY <1>2, <3>1
  <2>3. CASE Dissolve(k)
    BY <1>2, <2>3 DEF Dissolve
  <2>4. ASSUME NEW user \in Users, CreateTenant(k, user)
        PROVE  RowsLive'
    BY <2>4 DEF CreateTenant, MayAdmin, PeopleLive, RowsLive, Live, Pairs
  <2> QED
    BY <1>3, <1>4, <2>1, <2>2, <2>3, <2>4
       DEF OrganizationStep, Point, Announce, WipeNext, Strip, DeleteOrganization, DeleteTenant, Rows
<1>5. ASSUME NEW user \in Users, NEW t \in Tenants, TenantStep(user, t)
      PROVE  RowsLive'
  <2>1. CASE Link(user, t)
    BY <1>3, <2>1 DEF Link
  <2>2. ASSUME NEW member \in Users, Attach(user, t, member)
        PROVE  RowsLive'
    BY <2>2 DEF Attach, MayAdmin, PeopleLive, RowsLive, Live
  <2>3. ASSUME NEW member \in Users, Detach(user, t, member) \/ Revoke(user, <<t, member>>)
        PROVE  RowsLive'
    BY <2>3 DEF Detach, Revoke, RowsLive, Live
  <2> QED
    BY <1>5, <2>1, <2>2, <2>3 DEF TenantStep
<1>6. CASE AccessStep
  <2>1. ASSUME NEW user \in Users, Join(user)
        PROVE  RowsLive'
    <3>1. org = "live" /\ org' = org /\ tenants' = tenants
      BY <2>1 DEF Join
    <3>2. \A b \in belongs' : b \in belongs \/ Live(b[1])
      BY <2>1, JoinAdds
    <3> QED
      BY <3>1, <3>2 DEF RowsLive, Live
  <2>2. ASSUME NEW pair \in Pairs, Appoint(pair)
        PROVE  RowsLive'
    BY <1>3, <2>2 DEF Appoint
  <2> QED
    BY <1>6, <2>1, <2>2 DEF AccessStep, Pairs
<1>7. ASSUME NEW k \in Calls, MemberStep(k)
      PROVE  RowsLive'
  <2>1. CASE Left(k)
    <3>1. org' = org /\ tenants' = tenants /\ belongs' \subseteq belongs
      BY <2>1 DEF Left
    <3> QED
      BY <3>1 DEF RowsLive, Live
  <2>2. ASSUME NEW user \in Users, NEW member \in Users, Leave(k, user, member)
        PROVE  RowsLive'
    BY <1>3, <2>2 DEF Leave, Rows
  <2> QED
    BY <1>7, <2>1, <2>2 DEF MemberStep
<1> QED
  BY <1>3, <1>4, <1>5, <1>6, <1>7
     DEF Next, ProductStep, ListEntitled, RevokeNext, Unlinked, Entitle, Write, Grant, Unlink,
         Begin, Stop, SessionStep, RefreshSession, SaveProfile, WorkerStep, WorkerTakes, Onboard, WorkerEnds, WorkerStalls, Rows, vars

LEMMA EntitledBelongNext ==
  ASSUME Shape, RowsLive, GrantsHaveMembers, EntitledBelong, [Next]_vars
  PROVE  EntitledBelong' /\ GrantsHaveMembers'
<1> USE CallShape DEF Shape, TablesOK
(* Whoever belonged does, or left, or the tenant is gone; nobody is entitled *)
(* anew, and no grant has begun.                                            *)
<1>1. ASSUME entitled' \subseteq entitled, left \subseteq left', appointed \subseteq appointed',
             \A b \in belongs : b \in belongs' \cup left' \/ tenants'[b[1]] = "gone",
             \A e \in entitled' : tenants'[e[1]] = "gone" => e \in belongs' \cup left' \cup appointed',
             \A t \in Tenants : /\ tenants[t] = "gone" => tenants'[t] = "gone"
                                /\ tenants[t] # "unborn" => tenants'[t] # "unborn",
             \A k \in Calls : calls'[k].pc = "grant" => calls'[k] = calls[k]
      PROVE  EntitledBelong' /\ GrantsHaveMembers'
  <2>1. EntitledBelong'
    BY <1>1 DEF EntitledBelong
  <2>2. ASSUME NEW k \in Calls, calls'[k].pc = "grant"
        PROVE  /\ calls'[k].pair \in belongs' \cup left' \/ tenants'[calls'[k].pair[1]] = "gone"
               /\ tenants'[calls'[k].pair[1]] # "unborn"
    <3>1. calls'[k] = calls[k] /\ calls[k].pc = "grant" /\ calls[k].pair[1] \in Tenants
      BY <1>1, <2>2 DEF Pairs
    <3> QED
      BY <1>1, <3>1 DEF GrantsHaveMembers
  <2> QED
    BY <2>1, <2>2 DEF GrantsHaveMembers
<1>2. ASSUME NEW k \in Calls, NEW call, Becomes(k, call), call.pc # "grant",
             entitled' \subseteq entitled, UNCHANGED <<tenants, belongs, left, appointed>>
      PROVE  EntitledBelong' /\ GrantsHaveMembers'
  BY <1>1, <1>2, OneCallMoves DEF EntitledBelong
<1>3. CASE UNCHANGED <<tenants, calls>> /\ entitled' \subseteq entitled
           /\ belongs \subseteq belongs' \cup left' /\ left \subseteq left'
           /\ appointed \subseteq appointed'
  BY <1>1, <1>3 DEF EntitledBelong
<1>4. ASSUME NEW k \in Calls, NEW dead \in SUBSET Tenants, Cascade(dead), calls'[k].pc # "grant",
             \A j \in Calls : j # k => calls'[j] = calls[j], UNCHANGED <<left, appointed>>,
             \A t \in dead : tenants[t] = "live"
      PROVE  EntitledBelong' /\ GrantsHaveMembers'
  <2>1. \A e \in entitled' : e \in belongs' \cup left' \cup appointed'
    BY <1>4 DEF Cascade, EntitledBelong
  <2>2. \A b \in belongs : b \in belongs' \cup left' \/ tenants'[b[1]] = "gone"
    BY <1>4 DEF Cascade, Pairs
  <2> QED
    BY <1>1, <1>4, <2>1, <2>2 DEF Cascade
<1>5. ASSUME NEW k \in Calls, OrganizationStep(k)
      PROVE  EntitledBelong' /\ GrantsHaveMembers'
  <2>1. CASE CreateOrganization(k)
    <3>1. /\ calls'[k].pc # "grant" /\ \A j \in Calls : j # k => calls'[j] = calls[j]
      BY <2>1, OneCallMoves DEF CreateOrganization, Take
    <3>2. belongs = {} /\ \A t \in Tenants : tenants[t] = "unborn"
      BY <2>1 DEF CreateOrganization, RowsLive, Live, Pairs
    <3>3. /\ entitled' = entitled /\ left' = left /\ appointed' = appointed
          /\ \A t \in Tenants : tenants'[t] # "gone"
          /\ \A t \in Tenants : tenants[t] # "unborn" => tenants'[t] # "unborn"
      BY <2>1, <3>2 DEF CreateOrganization, History
    <3>4. \A e \in entitled' : e[1] \in Tenants
      BY <3>3 DEF Pairs
    <3> QED
      BY <1>1, <3>1, <3>2, <3>3, <3>4
  <2>2. CASE RemoveTenant(k)
    <3>1. /\ calls'[k].pc # "grant" /\ \A j \in Calls : j # k => calls'[j] = calls[j]
      BY <2>2, OneCallMoves DEF RemoveTenant, Done, Idle
    <3> QED
      BY <1>4, <2>2, <3>1, ZenonT(40) DEF RemoveTenant, Live, History
  <2>3. CASE Dissolve(k)
    <3>1. /\ calls'[k].pc # "grant" /\ \A j \in Calls : j # k => calls'[j] = calls[j]
      BY <2>3, OneCallMoves DEF Dissolve, Done, Idle
    <3> QED
      BY <1>4, <2>3, <3>1 DEF Dissolve, Live
  <2>4. ASSUME NEW user \in Users, CreateTenant(k, user)
        PROVE  EntitledBelong' /\ GrantsHaveMembers'
    <3>1. PICK t \in Tenants : /\ Newest(t) /\ tenants' = [tenants EXCEPT ![t] = "live"]
                               /\ Take(k, [pc |-> "announce", tenant |-> t])
      BY <2>4 DEF CreateTenant
    <3>2. /\ calls'[k].pc # "grant" /\ \A j \in Calls : j # k => calls'[j] = calls[j]
      BY <3>1, OneCallMoves DEF Take
    <3> QED
      BY <1>1, <2>4, <3>1, <3>2 DEF CreateTenant, Newest, EntitledBelong, History
  <2>5. CASE Point(k) \/ Announce(k) \/ WipeNext(k) \/ DeleteOrganization(k) \/ Strip(k)
    BY <1>2, <1>3, <2>5
       DEF Point, Announce, WipeNext, DeleteOrganization, Strip, Take, Done, Idle, Rows, History
  <2>6. ASSUME NEW user \in Users, NEW t \in Tenants, DeleteTenant(k, user, t)
        PROVE  EntitledBelong' /\ GrantsHaveMembers'
    BY <1>2, <2>6 DEF DeleteTenant, Take, Idle, Rows, History
  <2> QED
    BY <1>5, <2>1, <2>2, <2>3, <2>4, <2>5, <2>6 DEF OrganizationStep
<1>6. ASSUME NEW k \in Calls, ProductStep(k)
      PROVE  EntitledBelong' /\ GrantsHaveMembers'
  <2>1. ASSUME NEW user \in Users, NEW member \in Users, NEW t \in Tenants,
               Grant(k, user, t, member)
        PROVE  EntitledBelong' /\ GrantsHaveMembers'
    <3>1. /\ calls'[k] = [pc |-> "grant", pair |-> <<t, member>>]
          /\ \A j \in Calls : j # k => calls'[j] = calls[j]
      BY <2>1, OneCallMoves DEF Grant, Take
    <3>2. <<t, member>> \in belongs /\ Live(t)
      BY <2>1 DEF Grant, RowsLive
    <3> QED
      BY <2>1, <3>1, <3>2 DEF Grant, Rows, History, Live, EntitledBelong, GrantsHaveMembers
  <2>2. CASE Entitle(k)
    <3>1. /\ calls'[k].pc # "grant" /\ \A j \in Calls : j # k => calls'[j] = calls[j]
      BY <2>2, OneCallMoves DEF Entitle, Done, Idle
    <3>2. calls[k].pair \in belongs \cup left
      BY <2>2 DEF Entitle, GrantsHaveMembers, Live
    <3>3. EntitledBelong'
      BY <2>2, <3>2 DEF Entitle, EntitledBelong
    <3>4. GrantsHaveMembers'
      BY <2>2, <3>1 DEF Entitle, GrantsHaveMembers
    <3> QED
      BY <3>3, <3>4
  <2>3. CASE ListEntitled(k) \/ RevokeNext(k)
    BY <1>2, <2>3 DEF ListEntitled, RevokeNext, Rows, History
  <2>4. CASE Unlinked(k) \/ Write(k)
    BY <1>2, <2>4 DEF Unlinked, Write, Done, Idle, Rows
  <2>5. ASSUME NEW user \in Users, NEW t \in Tenants, Unlink(k, user, t)
        PROVE  EntitledBelong' /\ GrantsHaveMembers'
    BY <1>2, <2>5 DEF Unlink, Take, History
  <2>6. ASSUME NEW pair \in entitled, Begin(k, pair)
        PROVE  EntitledBelong' /\ GrantsHaveMembers'
    BY <1>2, <2>6 DEF Begin, Take, Rows, History
  <2> QED
    BY <1>6, <2>1, <2>2, <2>3, <2>4, <2>5, <2>6 DEF ProductStep
<1>7. ASSUME NEW k \in Calls, Stop(k)
      PROVE  EntitledBelong' /\ GrantsHaveMembers'
  BY <1>2, <1>7 DEF Stop, Done, Idle, Rows
<1>8. ASSUME NEW user \in Users, NEW t \in Tenants, TenantStep(user, t)
      PROVE  EntitledBelong' /\ GrantsHaveMembers'
  <2>1. CASE Link(user, t)
    BY <1>3, <2>1 DEF Link
  <2>2. ASSUME NEW member \in Users, Attach(user, t, member)
        PROVE  EntitledBelong' /\ GrantsHaveMembers'
    BY <1>3, <2>2 DEF Attach, History
  <2>3. ASSUME NEW member \in Users, Detach(user, t, member)
        PROVE  EntitledBelong' /\ GrantsHaveMembers'
    BY <1>3, <2>3 DEF Detach
  <2>4. ASSUME NEW member \in Users, Revoke(user, <<t, member>>)
        PROVE  EntitledBelong' /\ GrantsHaveMembers'
    BY <1>3, <2>4 DEF Revoke, History
  <2> QED
    BY <1>8, <2>1, <2>2, <2>3, <2>4 DEF TenantStep
<1>9. ASSUME NEW k \in Calls, MemberStep(k)
      PROVE  EntitledBelong' /\ GrantsHaveMembers'
  <2>1. CASE Left(k)
    <3>1. /\ calls'[k].pc # "grant" /\ \A j \in Calls : j # k => calls'[j] = calls[j]
      BY <2>1, OneCallMoves DEF Left, Done, Idle
    <3>2. /\ entitled' \subseteq entitled /\ left \subseteq left' /\ appointed' = appointed
          /\ \A b \in belongs : b \in belongs' \cup left'
          /\ tenants' = tenants
      BY <2>1 DEF Left
    <3> QED
      BY <1>1, <3>1, <3>2 DEF EntitledBelong
  <2>2. ASSUME NEW user \in Users, NEW member \in Users, Leave(k, user, member)
        PROVE  EntitledBelong' /\ GrantsHaveMembers'
    BY <1>2, <2>2 DEF Leave, Take, Rows, History
  <2> QED
    BY <1>9, <2>1, <2>2 DEF MemberStep
<1>10. CASE AccessStep
  <2>1. ASSUME NEW user \in Users, Join(user)
        PROVE  EntitledBelong' /\ GrantsHaveMembers'
    BY <2>1 DEF Join, EntitledBelong, GrantsHaveMembers
  <2>2. ASSUME NEW pair \in Pairs, Appoint(pair)
        PROVE  EntitledBelong' /\ GrantsHaveMembers'
    BY <2>2 DEF Appoint, EntitledBelong, GrantsHaveMembers
  <2> QED
    BY <1>10, <2>1, <2>2 DEF AccessStep, Pairs
<1> QED
  BY <1>3, <1>5, <1>6, <1>7, <1>8, <1>9, <1>10
     DEF Next, SessionStep, RefreshSession, SaveProfile, WorkerStep, WorkerTakes, Onboard,
         WorkerEnds, WorkerStalls, Rows, History, vars

LEMMA UnlinksKnowNext ==
  ASSUME Shape, UnlinksKnow, [Next]_vars
  PROVE  UnlinksKnow'
<1> USE CallShape DEF Shape, TablesOK
<1>1. ASSUME entitled' \subseteq entitled, unlinked' \subseteq unlinked, granted \subseteq granted',
             \A k \in Calls : calls[k].pc = "revoke" \/ calls'[k].pc = "revoke" => calls'[k] = calls[k]
      PROVE  UnlinksKnow'
  BY <1>1 DEF UnlinksKnow, Unlinking, ToRevoke
<1>2. ASSUME NEW k \in Calls, NEW call, Becomes(k, call), calls[k].pc # "revoke",
             call.pc # "revoke", entitled' \subseteq entitled, unlinked' \subseteq unlinked,
             granted \subseteq granted'
      PROVE  UnlinksKnow'
  BY <1>1, <1>2, OneCallMoves
<1>3. ASSUME NEW k \in Calls, NEW call, Take(k, call), call.pc # "revoke",
             entitled' \subseteq entitled, UNCHANGED <<unlinked, granted>>
      PROVE  UnlinksKnow'
  BY <1>2, <1>3 DEF Take, Idle
<1>4. CASE UNCHANGED <<calls, granted>> /\ entitled' \subseteq entitled /\ unlinked' \subseteq unlinked
  BY <1>1, <1>4
<1>5. ASSUME NEW k \in Calls, OrganizationStep(k)
      PROVE  UnlinksKnow'
  <2>1. CASE CreateOrganization(k) \/ DeleteOrganization(k)
    BY <1>3, <2>1 DEF CreateOrganization, DeleteOrganization, Rows, History
  <2>2. ASSUME NEW user \in Users, CreateTenant(k, user)
        PROVE  UnlinksKnow'
    BY <1>3, <2>2 DEF CreateTenant, History
  <2>3. ASSUME NEW user \in Users, NEW t \in Tenants, DeleteTenant(k, user, t)
        PROVE  UnlinksKnow'
    BY <1>3, <2>3 DEF DeleteTenant, Rows
  <2>4. CASE Point(k) \/ Announce(k) \/ RemoveTenant(k)
    BY <1>2, <1>4, <2>4 DEF Point, Announce, RemoveTenant, Cascade, Done, Idle, Rows, History
  <2>5. CASE WipeNext(k) \/ Dissolve(k)
    BY <1>2, <2>5 DEF WipeNext, Dissolve, Cascade, Done, Idle, Rows
  <2>6. CASE Strip(k)
    BY <1>2, <2>6 DEF Strip, Done, Idle, Rows
  <2> QED
    BY <1>5, <2>1, <2>2, <2>3, <2>4, <2>5, <2>6 DEF OrganizationStep
<1>6. ASSUME NEW k \in Calls, ProductStep(k)
      PROVE  UnlinksKnow'
  <2>1. CASE ListEntitled(k)
    <3> DEFINE t == calls[k].tenant
    <3>1. /\ calls'[k] = [pc |-> "revoke", tenant |-> t, todo |-> {e \in entitled : e[1] = t}]
          /\ \A j \in Calls : j # k => calls'[j] = calls[j]
      BY <2>1, OneCallMoves DEF ListEntitled
    <3>2. ASSUME NEW e \in entitled, e[1] = t
          PROVE  ToRevoke(e)'
      BY <3>1, <3>2 DEF ToRevoke
    <3>3. ASSUME NEW e \in entitled, e[1] # t
          PROVE  /\ Unlinking(e[1])' => Unlinking(e[1])
                 /\ e \in granted => e \in granted'
                 /\ ToRevoke(e) => ToRevoke(e)'
      BY <2>1, <3>1, <3>3 DEF ListEntitled, Unlinking, ToRevoke
    <3> QED
      BY <2>1, <3>2, <3>3 DEF ListEntitled, UnlinksKnow, Rows
  <2>2. CASE RevokeNext(k)
    <3>1. PICK gone \in calls[k].todo :
             /\ entitled' = entitled \ {gone}
             /\ Becomes(k, [pc |-> "revoke", tenant |-> calls[k].tenant,
                           todo |-> calls[k].todo \ {gone}])
      BY <2>2 DEF RevokeNext
    <3>2. /\ calls'[k] = [pc |-> "revoke", tenant |-> calls[k].tenant, todo |-> calls[k].todo \ {gone}]
          /\ \A j \in Calls : j # k => calls'[j] = calls[j]
      BY <3>1, OneCallMoves
    <3>3. ASSUME NEW e \in entitled'
          PROVE  (Unlinking(e[1])' => Unlinking(e[1])) /\ (ToRevoke(e) => ToRevoke(e)')
      BY <2>2, <3>1, <3>2 DEF RevokeNext, Unlinking, ToRevoke
    <3> QED
      BY <2>2, <3>1, <3>3 DEF RevokeNext, UnlinksKnow, History
  <2>3. CASE Unlinked(k)
    <3>1. /\ calls'[k] = Idle
          /\ \A j \in Calls : j # k => calls'[j] = calls[j]
      BY <2>3, OneCallMoves DEF Unlinked, Done
    <3>2. ASSUME NEW e \in entitled
          PROVE  /\ e[1] \in unlinked' \/ Unlinking(e[1])' => e[1] \in unlinked \/ Unlinking(e[1])
                 /\ ToRevoke(e) => ToRevoke(e)'
      BY <2>3, <3>1 DEF Unlinked, Unlinking, ToRevoke, Idle
    <3> QED
      BY <2>3, <3>2 DEF Unlinked, UnlinksKnow, Rows
  <2>4. CASE Entitle(k)
    <3>1. /\ calls'[k] = Idle
          /\ \A j \in Calls : j # k => calls'[j] = calls[j]
      BY <2>4, OneCallMoves DEF Entitle, Done
    <3>2. ASSUME NEW e \in entitled
          PROVE  (Unlinking(e[1])' => Unlinking(e[1])) /\ (ToRevoke(e) => ToRevoke(e)')
      BY <2>4, <3>1 DEF Entitle, Unlinking, ToRevoke, Idle
    <3> QED
      BY <2>4, <3>2 DEF Entitle, UnlinksKnow
  <2>5. CASE Write(k)
    BY <1>2, <2>5 DEF Write, Done, Idle, Rows
  <2>6. ASSUME NEW user \in Users, NEW member \in Users, NEW t \in Tenants,
               Grant(k, user, t, member) \/ Unlink(k, user, t)
        PROVE  UnlinksKnow'
    BY <1>3, <2>6 DEF Grant, Unlink, Rows, History
  <2>7. ASSUME NEW pair \in entitled, Begin(k, pair)
        PROVE  UnlinksKnow'
    BY <1>3, <2>7 DEF Begin, Rows, History
  <2> QED
    BY <1>6, <2>1, <2>2, <2>3, <2>4, <2>5, <2>6, <2>7 DEF ProductStep
<1>7. ASSUME NEW k \in Calls, Stop(k)
      PROVE  UnlinksKnow'
  <2>1. /\ calls'[k] = Idle
        /\ \A j \in Calls : j # k => calls'[j] = calls[j]
    BY <1>7, OneCallMoves DEF Stop, Done
  <2>2. ASSUME NEW e \in entitled
        PROVE  /\ Unlinking(e[1])' => Unlinking(e[1])
               /\ e \in granted \/ ToRevoke(e) => e \in granted' \/ ToRevoke(e)'
    BY <1>7, <2>1 DEF Stop, Unlinking, ToRevoke, Idle
  <2> QED
    BY <1>7, <2>2 DEF Stop, UnlinksKnow, Rows
<1>8. ASSUME NEW user \in Users, NEW t \in Tenants, TenantStep(user, t)
      PROVE  UnlinksKnow'
  BY <1>4, <1>8 DEF TenantStep, Link, Attach, Detach, Revoke, History
<1>9. ASSUME NEW k \in Calls, MemberStep(k)
      PROVE  UnlinksKnow'
  <2>1. CASE Left(k)
    BY <1>2, <2>1 DEF Left, Done, Idle
  <2>2. ASSUME NEW user \in Users, NEW member \in Users, Leave(k, user, member)
        PROVE  UnlinksKnow'
    BY <1>3, <2>2 DEF Leave, Rows, History
  <2> QED
    BY <1>9, <2>1, <2>2 DEF MemberStep
<1>10. CASE AccessStep
  <2>1. ASSUME NEW user \in Users, Join(user)
        PROVE  UnlinksKnow'
    <3>1. UNCHANGED <<calls, unlinked>> /\ granted \subseteq granted'
      BY <2>1 DEF Join
    <3>2. \A e \in entitled' : e \in entitled \/ e \in granted'
      BY <2>1 DEF Join
    <3> QED
      BY <3>1, <3>2 DEF UnlinksKnow, Unlinking, ToRevoke
  <2>2. ASSUME NEW pair \in Pairs, Appoint(pair)
        PROVE  UnlinksKnow'
    BY <2>2 DEF Appoint, UnlinksKnow, Unlinking, ToRevoke
  <2> QED
    BY <1>10, <2>1, <2>2 DEF AccessStep, Pairs
<1> QED
  BY <1>4, <1>5, <1>6, <1>7, <1>8, <1>9, <1>10
     DEF Next, SessionStep, RefreshSession, SaveProfile, WorkerStep, WorkerTakes, Onboard, WorkerEnds, WorkerStalls, Rows, History, vars

-----------------------------------------------------------------------------
(* Theorems *)

TenantsInv ==
  /\ Shape /\ PeopleLive
  /\ TasksHaveTenants /\ StripsToCome
  /\ AnnouncedOnce /\ Provisioned
  /\ RowsLive /\ GrantsHaveMembers /\ EntitledBelong /\ UnlinksKnow

LEMMA TenantsInvInit ==
  Init => TenantsInv
<1> SUFFICES ASSUME Init
             PROVE  TenantsInv
  OBVIOUS
<1>1. Shape
  BY InitShape
<1>2. \A k \in Calls : calls[k].pc = "idle"
  BY DEF Init, Idle
<1> QED
  BY <1>1, <1>2
     DEF Init, TenantsInv, PeopleLive, TasksHaveTenants, StripsToCome, AnnouncedOnce, Provisioned, RowsLive,
         GrantsHaveMembers, EntitledBelong, UnlinksKnow, NoTasks, Live

LEMMA TenantsInvNext ==
  TenantsInv /\ [Next]_vars => TenantsInv'
BY NextShape, PeopleLiveNext, TasksHaveTenantsNext, StripsToComeNext, AnnouncedOnceNext, ProvisionedNext,
   RowsLiveNext, EntitledBelongNext, UnlinksKnowNext DEF TenantsInv

LEMMA TenantsInvHolds == Spec => []TenantsInv
<1>1. TenantsInv /\ UNCHANGED vars => TenantsInv'
  BY TenantsInvNext
<1> QED
  BY TenantsInvInit, TenantsInvNext, PTL DEF Spec

(* The tables, the boards, the jobs and the requests keep their types.      *)
THEOREM TenantTypesHold == Spec => []Shape
<1>1. TenantsInv => Shape
  BY DEF TenantsInv
<1> QED
  BY <1>1, TenantsInvHolds, PTL

(* A deleted tenant leaves tasks behind only if somebody wrote to it after  *)
(* they were wiped or it was made while its organization was deleted, and a *)
(* deleted organization is named by nobody's metadata unless its creator    *)
(* was not among the members the deletion had listed, the call that clears  *)
(* it failed or was never made, or it was written later (DELETE of a tenant *)
(* and of an organization).                                                 *)
THEOREM DeletionsAreThorough == Spec => []DeletedWithItsTraces
<1>1. TenantsInv => DeletedWithItsTraces
  BY DEF TenantsInv, TasksHaveTenants, StripsToCome, DeletedWithItsTraces, Live
<1> QED
  BY <1>1, TenantsInvHolds, PTL

(* A tenant gets its onboarding task once, and again only as often as its   *)
(* job was taken back (handleIdentityEvent of the worker).                  *)
THEOREM OnboardingComesOnce == Spec => []OnboardedOnce
<1>1. TenantsInv => OnboardedOnce
  BY DEF TenantsInv, Provisioned, OnboardedOnce
<1> QED
  BY <1>1, TenantsInvHolds, PTL

(* Nobody is entitled without having belonged to the tenant, but by a super *)
(* administrator; and an unlink leaves only what was granted after it       *)
(* listed the entitlements, or what one that stopped had left to revoke.    *)
THEOREM EntitlementsHaveReasons == Spec => []EntitledForAReason
<1>1. TenantsInv => EntitledForAReason
  <2> SUFFICES ASSUME TenantsInv, NEW e \in entitled
               PROVE  /\ e \in belongs \cup left \cup appointed
                      /\ e[1] \in unlinked =>
                           \/ e \in granted
                           \/ \E k \in Calls : /\ calls[k].pc \in {"list", "revoke"}
                                               /\ calls[k].tenant = e[1]
    BY DEF EntitledForAReason
  <2>1. ToRevoke(e) => \E k \in Calls : calls[k].pc = "revoke" /\ calls[k].tenant = e[1]
    BY CallShape DEF TenantsInv, Shape, ToRevoke
  <2> QED
    BY <2>1 DEF TenantsInv, EntitledBelong, UnlinksKnow
<1> QED
  BY <1>1, TenantsInvHolds, PTL
=============================================================================
