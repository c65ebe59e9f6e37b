# GrowNext in TLA+

Specifications of the parts of GrowNext whose correctness depends on the order in which
things happen: tokens, memberships, tenants and their tasks, bulk jobs, impersonation,
SAML, permissions, and the pages that show them. They are checked with TLC on small
instances; the safety properties of the services, and of the console's banner and the
permissions page, are also proved with TLAPS, for all instances.

All paths below are relative to the repository. `PROJECT.json` maps each definition to
the lines it models, and lists the runs, the hazards and the theorems.

## 1. The system

GrowNext is a set of Node processes around two PostgreSQL schemas and a Redis:

- `apps/identity` (Fastify): OIDC, portal, admin, super-admin, SAML and internal routes;
- `apps/worker`: BullMQ consumers and a clean-up timer; it calls back into identity by HTTP;
- `apps/portal`, `apps/tasks`, `apps/admin` (Next.js): user interfaces; the routes of the
  tasks app also hold its business logic;
- `packages/db` (core schema), `packages/tasks-db` (tasks schema): one function per query;
- `packages/contracts`, `packages/core`, `packages/identity-client`: schemas, configuration,
  clients.

The services keep nothing in memory between requests. Every database helper is one
`prisma.$transaction` (`withAuthorizationTransaction`), at PostgreSQL's default level,
READ COMMITTED, and handlers await several of them in a row. So the services' concurrency
is that of handlers interleaving between transactions, of two statements of one
transaction seeing different states, and of handlers that die half way. The pages add
another: they abort no request and compare no answer with what is shown, so answers are
taken up in whatever order they come, by handlers of renders that are gone.

### Inventory

| Component | State | Operations | Interacts with | What is hard | What makes it correct | Module |
|---|---|---|---|---|---|---|
| Token path (`routes/oidc`, `token-service.ts`, `authorization-code-store.ts`) | `authorization_codes`, `refresh_tokens` | authorize, code exchange, refresh with rotation, sign-out, prune | entitlements (read), audit log | racing exchanges, refreshes and sign-outs; stale entitlements; lost audit | one redemption per code, one live token per family, identity and roles kept, final revocation, complete trail | `OAuthGrants`, `OneTimeCodes` |
| Bulk jobs (`super-admin/index.ts`, `queues.ts`, worker processor) | `super_admin_bulk_jobs`, BullMQ queue, the processor's locals | create, retry, cancel, progress update, process | HTTP from worker to identity, Redis | stale `previousStatus`, cancel and retry against a running job, crash and re-run, handlers that outlive their worker | every job settles, its outcome is audited, SUCCEEDED means complete | `BulkJobs` |
| The console's panel of jobs (`bulk-operations-panel.tsx`) | the list it shows | queue, poll, refresh | the list route | a late or truncated list ends the polling | a job it queued is shown finished | `BulkPanel` |
| Membership (`admin/index.ts`, `organizations.ts`, `entitlements.ts`) | `organization_members`, `tenant_members`, `product_entitlements`, `organization_invitations` | invite, withdraw, accept, remove, attach, detach, grant, revoke, super-admin edit, grant and revocation | token path (entitlements), e-mail queue | check-then-act over several transactions; a removal's statements against grants and acceptances | an owner remains, entitlements end with membership, an invitation counts once and never lowers a role | `Membership` |
| Tenant and organization lifecycle (`tenants.ts`, `products.ts`, `admin/index.ts`) | organizations, members, tenants, linked apps, Supabase metadata | create, delete, join, leave, attach, link, unlink, grant, provision | tasks database, `tenant.created`, Supabase | deletion across stores, redelivered events, stale metadata, unlink against grant | nothing is left behind, one onboarding task, entitled for a reason | `Tenants` |
| Impersonation (`super-admin/index.ts`, `super-admin.ts`, worker timer) | `super_admin_impersonation_tokens` | start, stop, clean up | audit log, worker timer | overlapping starts, clean-up against stop, crash before the audit | one active session per pair, every end told | `Impersonation` |
| The console's banner (`impersonation-session-provider.tsx`) | session of each tab, `localStorage` | start, count down, stop, reload | the routes above | tabs that do not hear of each other, failed stops | what is in force is shown, what is over is not | `ImpersonationConsole` |
| SAML (`routes/saml`, `lib/saml`, `saml.ts`) | connection, accounts | configure, sign in | identity provider, membership | edits that overlap; linking in three transactions | applied as configured; one user per name | `Saml` |
| Portal permissions (`routes/portal`, `portal-permissions.ts`, the permissions page) | `portal_role_permissions`, the page's switches | read, save, toggle | membership (role) | optimistic switches, whole-list rollback | the page shows what holds | `PortalPermissions` |
| Tasks (`tasks.ts`, `apps/tasks/app/api`, its queue) | tasks, subtasks, comments, followers, projects, reminders | CRUD, status, ordering, wiping | reminder and notice queue | handlers overlapping between table and queue; concurrent ordering | reminders and notices follow the tasks, places are own, counts agree | `TaskBoard` |
| Task permissions (`tasks.ts`, settings page) | `task_permission_policies`, the page's drafts | upsert, delete, evaluate, edit | every task route | upsert without unique index; drafts rebuilt from late lists | one row per scope, the page is true | `TaskPolicies`, `TaskPermissions` |
| Contexts (`internal/tasks.ts`, `portal/index.ts`, `identity-context.ts`) | none | resolve organization and tenant, launch, open | membership, entitlements | three services decide separately, with fallbacks | the tenant asked for is given; what is written is kept under the tenant's organization | `Contexts` |
| Tasks page (`tasks-page-content.tsx`, `tenant-context.tsx`) | list, panel, details, filters, tenant | some twenty handlers | task routes | late answers, captured values | the page shows the table, the panel its task; it comes to rest | `TasksPage`, `TaskControls` |
| Projects page (`projects/page.tsx`) | rows, summaries, dialog | create, edit, delete, switch tenant | project routes | late answers, two sources of summaries | cards are those of the tenant | `ProjectsPage` |
| Audit log, users, request authentication, clients, contracts, infrastructure | append-only, single-row or none | - | everything | - | - | not modelled (section 8) |

## 2. Plan

Done: the modules above, and the proofs of section 5. What is left:

1. proofs about the one module that is only model-checked, `TasksPage` (`PanelIsOfTheTask`,
   `ShowsTheTable`);
2. the remaining single writes of super administrators (status, tenant roles).

## 3. Modules

### How code becomes actions

- A handler is a slot of a CONSTANT set with a program counter (`reqs[r]`, `calls[k]`, `slots[h]`):
  `pc` names its next transaction and the other fields are the local variables it has read.
  One action is one transaction together with the code up to the next `await` that touches
  shared state.
- Guards are the handler's early returns. Answers without effect (400, 401, 403, 404 before
  the first write) are left out, or return the slot to idle, except where a page takes them up.
- Where two statements of one READ COMMITTED transaction can see different states, they are
  actions of their own (consuming a code, removing a member, accepting an invitation, ending
  and creating an impersonation session, upserting a policy, placing a task); rows a
  transaction has updated or deleted are locked until it ends.
- `Fail` and its like (`AdminCallFails`, `UpdateFails`, `MetricFails`, `Crash` in `BulkJobs`,
  `Stop` in `Tenants`) end a handler between two transactions: a database error, a lost
  connection or a dead process.
- A request of a page is sent, decided, carried out and answered in actions of their own; React
  applies the state a continuation sets, renders and runs the effects in one step.
- Time is one fact per row: its `expiresAt` or due date has passed or it has not.
- Random identifiers are drawn from a set of fresh ones.
- Variables called histories (`missed`, `met`, `excuses`, `late`, ...) record what properties need
  to say; actions read them at most as bounds (one failure per behaviour, so many
  redeliveries).

Many properties have the form "P, unless X". The exceptions are the code's, not the
model's: each names an overlap or a failure that the code admits and that can break P, and the
property says that nothing else does. Section 7 lists them.

### The services

**OAuthGrants.** `ent` is `product_entitlements`, `codes` and `tokens` the two tables; a deleted
row keeps its columns for the properties. `AuthorizeRead`, `AuthorizeMint` are GET
/oauth/authorize; `ConsumeFind` and one of `ConsumeAccept`, `ConsumeBurn`, `ConsumeConflict` the
SELECT and DELETE of `consumeAuthorizationCodeRecord`, then `IssueFirst` and `Audit`;
`RefreshFind`, `RefreshExpire`, `RefreshEntitle`, `RefreshRotate` or `RefreshRotateFails`,
`RefreshIssue`, `Audit` the refresh grant; `SignOutFind`, `SignOutToken`, `SignOutSession`,
`Audit` DELETE /portal/sessions/:sessionId; `Prune` the store's timer. A token's *family* is the
code its chain of rotations began with; `missed` collects the families with a rotation that
revoked nothing. The redirect URI and PKCE verifier are one Boolean, `proof`. **OneTimeCodes**
is what the route may assume of the code store; `CodesAreOneTime` is the refinement.

**BulkJobs.** One job. `post` is the handler of POST, `call[c]` the PATCH handler a worker or an
administrator waits for, `work[w]` the processor's locals, `queue` the number of waiting BullMQ
jobs. `BodyOf` is the body of an update, with the route's treatment of null. A worker that
crashes, or whose call breaks off, leaves its handler ended or running on in the identity
service, as a handler of `Orphans` (`Without`); nothing orders what that one still writes and the
next run. `overlap` records that two runs, or two PATCHes of a run, were under way at once. A
crash queues the job again; this is BullMQ's and the only external definition.

**Membership.** One organization. `members` keeps the rows by id, so that leaving and joining
again are different rows. A removal is `RemoveAuthorize`, `RemoveTarget`, `RemoveCount`, and
then one transaction of three statements, `RemoveTenants`, `RemoveEntitlements`, `Remove`: what
it has deleted others still read, and wait for if they write it (`TenantRowHeld`,
`EntitlementHeld`), and what is inserted between two statements only the later one sees. An
acceptance is `AcceptFind`, `AcceptOpen`, then `AcceptJoin`, `AcceptRaise` or `AcceptKeep`;
`AcceptOpen` updates the user's profile before it reads the membership, so two acceptances of
one user take turns (`ProfileHeld`). A grant is `Authorize`, `GrantLookup`, `Grant`. `met`
records which kinds of handlers overlapped between reading and writing. `SuperEdit`,
`SuperGrant` and `SuperRevoke` are what super administrators do to the same tables, in one
transaction each and without looking; `SuperSpec` includes them. `Asked` and `Offers` choose the
requests an instance looks at.

**Tenants.** The tables of one organization (`org`, `tenants`, `people`, `belongs`, `apps`,
`entitled`), the tasks of each tenant in the other database (`board`) and the `tenant.created`
job of each (`events`). Deleting the organization lists its tenants and its members, wipes the
tasks of one listed tenant after the other, deletes the row and then clears the metadata of the
listed members, each in another store. Only the creator's metadata ever name an organization:
`pointing` says whether they do, `session` whether the copy in the creator's portal session
does, which PATCH /api/profile writes back (`Point`, `RefreshSession`, `SaveProfile`). Users
join by accepting an invitation, perhaps with a place and the product (`Join`), and leave by a
removal whose deletions commit together (`Leave`, `Left`). Entitlements come of grants,
acceptances and super administrators (`Appoint`). Unlinking deletes the link, lists the
entitlements and revokes them. The worker may stall and its job be taken back. The histories
`left`, `appointed`, `spared`, `late`, `halved`, `unlinked` and `granted` are what the
properties excuse.

**Saml.** One connection behind a slug. A PATCH reads the row (`PatchRead`), computes every column
(`Edited`) and writes them all (`PatchWrite`). The consumer service reads the connection and
validates (`Receive`; `InForce` is `buildIdentityProvider`: metadata if stored, else the columns),
then `Find`, `Link`, `CheckMember`, `SignIn`.

**Impersonation.** `StartEnd` and `StartCreate` are the UPDATE and the INSERT of a start, `Stop` the
DELETE and the comparison after it, `CleanFind` and `CleanDelete` the clean-up, `Report` one turn
of its audit loop. `unsaid` records the sessions whose end the code has given up announcing,
`raced` the pairs with overlapping starts. The clean-up begins at its handler, and nothing is
assumed of its being reached (section 7).

**TaskBoard.** The handlers under `apps/tasks/app/api` with the helpers of `tasks-db`: a request
of the `agenda` is taken by a slot, and `Cancel`, `Notify` and the reminder's enqueue follow the
writes in the order of the route. An agenda comes with the tasks and projects that are there at
first; the reminders of those tasks are queued. BullMQ refuses to add or remove the reminder job
while a worker holds it. `Board`, `Stats`, `Counts` and `Listed` are the columns, statistics,
summaries and lists.

**TaskPermissions** has the capabilities of roles and their merge as operators; **TaskPolicies**
the table, its routes and each administrator's settings page, with `drafts` rebuilt from
whichever list comes.

**Contexts.** `TasksOrg` and `PortalOrg` are the two ways an organization is chosen (claims
first, then the oldest or the latest membership: rows have `since`, the order of `createdAt`),
`Active` the tenant (asked for, claimed, or first), and `Visible` and `Opens` what the launcher
shows and what the page behind it admits. A write resolves its organization and its tenant anew
(`ResolveOrg`, `ResolveTenant`, `GoOn`, `Store`). `Grant` gives anybody the product in any
tenant, kept under any organization, as the route of super administrators does; `abroad` records
the tenants the user was given without ever having been in their organization. `Promised` is
what the tasks context asks for: the product, and an organization, of a claim or a membership.

### The pages

**TasksPage** has `calls` in flight in the order they were sent; a call keeps the environment of
the render that made it (`env`) and what its handler does next (`then`). `UserActs` draws from a
`plan`; `Serves` decides one request, `Applies` takes up one answer, with the effects it
triggers. A list is loaded whenever what `loadTasks` depends on (`Key`) is new: the tenant,
view, filter and selection (`Env`), and the provider's `tenantLoading`, so once when a context
is asked for - with the tenant that is about to be left - and once when the answer, or the
failure, comes. The user modelled has all permissions, so the dependency on `isReadOnly` never
changes. **TaskControls** has `Gate`, the permission each control is drawn by, beside what each
route demands. **ProjectsPage**, **PortalPermissions**, **ImpersonationConsole** and
**BulkPanel** are built likewise; the last two take the services as tables with atomic requests,
whose transactions are in `Impersonation` and `BulkJobs`.

### Composition

Components that share state are one module: tokens, entitlements and sessions in
`OAuthGrants`; members, tenant members, entitlements and invitations in `Membership`; the two
databases, the queue and Supabase in `Tenants`; table, queue and handlers in `TaskBoard`; page
and service in the modules of pages. `product_entitlements` is in several: `Membership` and
`Tenants` decide who holds an entitlement, `OAuthGrants` and `Contexts` take grants and
revocations as free actions. In both anybody may be granted anything at any time, so
everything the former do, super administrators included, is among what the latter consider.

`MCIdentity`, `MCTasks` and `MCConsole` put modules side by side that share nothing: one is
extended (`Tenants`, `TaskBoard`, `Impersonation`), the others are instances. A variable
`focus`, chosen at the start, says which one moves, so the state space is the sum and not the
product of theirs: interleaving components that share nothing would add no behaviour a
property of one of them could tell apart.

## 4. Runs

| Run | Instance | Shows |
|---|---|---|
| `oauth_races` | 2 requests; a family: 1 code, 3 tokens, everything that can befall them; or a session: 2 codes, 2 tokens, no expiry, no revocation | `OneLiveUnlessMissed`, `TrailMatchesTable`, `SignOutLeavesOnlyRacers` over all interleavings of two handlers; `CodesAreOneTime` |
| `bulk_settle` | 2 workers, 1 administrator, 1 user who fails or not, 1 retry, no faults | `OutcomeIsAudited`, `JobsSettle`; deadlock checked |
| `bulk_throws` | 1 worker, faults | violated: the runbook's retry of throwing jobs |
| `member_owners` | 2 requests, 2 invitations of the highest or lowest rank, 2 member rows, super administrators who edit roles | `OwnerlessOnlyByRace`, `TwoOpenOnlyByRace`, `InvitationsOnlyRaise` |
| `member_access` | 2 requests, 1 invitation that may expire, 3 member rows, super administrators who grant and revoke | `OrphansOnlyByRace`, `AdmittedOnce` |
| `member_ownerless` | 2 requests, 1 invitation | violated: an organization without an owner |
| `admin_console` | routes: 2 requests, 1 clean-up of 1 session at a time, 2 sessions, faults; tabs: 2 tabs, 2 sessions, 2 requests, 1 reload, 1 failure; panel: 2 jobs, lists of 1, 2 requests, 1 failure | `OneActiveUnlessRaced`, `EndsAreTold`; `ActiveIsShown`, `ShownEnds`; `JobsAreFollowed` |
| `impersonation_confirmed` | 1 request, 2 users, no faults | violated: every stop is in the audit log |
| `identity_services` | tenants: 2 tenants and 2 deletions, or 2 owners and 1 tenant, or 2 owners and what 2 tenants hold; SAML: 2 providers, or 2 users with 1 name; portal: 2 roles, 1 editor with 2 requests or 2 editors with 1; tokens: 2 clients, or 2 tenants; jobs: 2 users, 1 retry, 1 crash, 1 orphan, faults, up to an overlap | `DeletedWithItsTraces`, `OnboardedOnce`, `EntitledForAReason`; `AppliedAsConfigured`, `OneUserPerName`; `PageShowsWhatHolds`; `TokensAsGranted`; `SucceededIsComplete` |
| `tasks_page` | 2 tenants, 4 tasks, 2 projects, 13 plans of two or three acts, one failing request | `ShowsTheTable`, `PanelIsOfTheTask`, `ComesToRest` |
| `tasks_services` | policies: 1 user, 1 administrator, 2 rows, 2 calls; board: 7 agendas of four to eight requests on 1 to 3 tasks, 2 handlers; controls: 18 controls, 3 role sets, 2 changes; projects: 4 in 2 tenants, 2 acts; contexts: 2 organizations, 3 tenants, 2 changes, 2 requests | `OneRowUnlessDoubled`, `PageIsTrue`; `RemindersFollowTasks`, `AssigneeIsInformed`, `PlacesAreOwn`, `CountsAgree`; `RefusedOnlyInRows`, `ReadOnlyAtRest`; `ShowsTheProjects`; `WritesStayInTheOrganization`, `AskedTenantIsGiven` |
| `overrides_stack` | the policies of `tasks_services` | violated: project overrides stack |

Every property has a mutant: a plausible wrong form of one of the definitions it is about, under
which TLC finds it violated.

### Why these bounds

- *Handlers.* Each race is between two handlers: the properties relate a pair of transactions
  of one handler to one write of another. Two slots give every such pair, and a slot is
  reused, so sequences of handlers are arbitrarily long within the other bounds.
- *Tokens.* Three are a first token and two successors, which a double rotation needs. The
  instances of `TokensAsGranted` have two clients or two tenants instead, and two tokens: a
  refresh may go astray to the other one.
- *Codes.* A second one is what a sign-out of the session can miss: not yet exchanged, or in
  the hands of the other request. How a family fares is a matter of one code.
- *Users of a job, workers and orphans.* With two users, one can fail and one succeed, and a
  crash can fall between them. The properties of `bulk_settle` are about the status, which only
  the first and the last update of a processor change. A retry gives the queue a second job, and
  a second worker takes it while the first is busy. One orphan is the handler of the one crash;
  `SucceededIsComplete` claims nothing once two runs have overlapped, so the instance stops
  there.
- *Member rows and invitations.* The founder, a joiner, and a row for the joiner to come back
  with; two invitations let one follow, overlap or undercut another.
- *Tenants.* Two: one doomed with its organization and one created while it is deleted. Whose
  metadata are cleared depends on who is a member then, so that instance has two owners, who
  remove and replace each other, and one tenant.
- *Sessions and tabs.* Two of one pair are the violation of interest; the second tab is the
  one that does not hear. The clean-up's limit is one (200 in the code) and the panel's list has
  one job (50), so that the second session and the second job are beyond them.
- *Policies.* A new project override turns managing on: the routes never look at it, and the switch
  that decides, the app-level one, takes both values.
- *Plans and agendas.* A page's or a board's requests are chosen in groups around one subject
  (switching tenants, the panel, dating, assigning, ordering, moving, talking): the requests of
  a group race each other in every order, those of different groups touch different state.
- *Changes.* Two per behaviour, one before and one after a decision.
- `MaxRetries`, `MaxCrashes`, `MaxInvitations`, `MaxTenants`, `MaxStalls`, `MaxConnections`,
  `MaxRows`, `MaxActs`, `MaxChanges`, `MaxAsked`, `MaxPresses`, `MaxCalls`, `MaxReloads`,
  `MaxFailures`, `MaxSessions`, `MaxJobs` and `Deletes` are bounds of the models; the code has
  none.

Runs with `CHECK_DEADLOCK FALSE` stop because fresh ids, retries or acts are used up, or
because nobody needs to act. `bulk_settle` checks deadlock, since an administrator can always
cancel once there is a row.

### Fairness

- `BulkJobs!FairSpec`: a handler that is not interrupted runs to its end, whoever waits for it,
  and an idle worker takes a queued job. Nothing is assumed of administrators. `Next` has no
  faults; with those of `FaultyNext` a job can stay RUNNING, as `bulk_throws` shows.
- `ImpersonationConsole!Fairness`: time passes, a tab's countdown interval fires, requests are
  answered or fail. Nobody is assumed to press anything: `ShownEnds` rests on the countdown.
- `BulkPanel!Fairness`: workers work, requests are answered, and the polling timer has strong
  fairness: its effect is set up anew whenever the list changes, so it is not continuously
  enabled, but it fires again as long as something unfinished is shown.
- `TasksPage!Spec`: as long as there are requests to serve or answers to take up, one of them is,
  in no order. `ComesToRest` then says that effects and handlers do not keep causing loads.

The other modules are checked for safety only: their handlers wait for no one. `Impersonation` has
no fairness although a timer calls its clean-up: the worker's POST does not reach the handler
as the code stands (section 7), so nothing the code does makes a session go.

## 5. Proofs

The theorems hold for all values of the constants: any number of requests, users, rows,
invitations, sessions and jobs. What they assume, besides the named ASSUMEs of the modules
(which TLC evaluates on every run), is said with each.

| Module | Proves, of the specification | Assumes |
|---|---|---|
| `OAuthGrantsProofs` | `TypeCorrect`, `CodesAreRedeemedOnce`, `RotationLeavesOneLive` (`OneLiveUnlessMissed`), `RevocationIsFinal` (`ExtinctStaysExtinct`), `TrailIsTrue` (`TrailMatchesTable`), `CodesImplementTheStore` (`CodesAreOneTime`, a refinement), `TokensAreAsGranted`, `RevocationTakesEffect` (`RevokedKeyStaysBarren`), `SignOutIsThorough` (`SignOutLeavesOnlyRacers`) | `SessionAssumption`: a session belongs to a user and differs from `NoSession`; `EntitlementAssumption`: `NoEntitlement` is no role set |
| `MembershipProofs` | `TypesHold`, `OwnerRemainsButForRaces` (`OwnerlessOnlyByRace`), `NoOrphansButForRaces` (`OrphansOnlyByRace`), `OneOpenButForRaces` (`TwoOpenOnlyByRace`), `AdmittedOnceButForRaces` (`AdmittedOnce`), `RolesOnlyRise` (`InvitationsOnlyRaise`), all of `SuperSpec`, in which super administrators act too; `WithoutSuperAdministrators` gives them for `Spec` | `MembershipAssumption`: what offers and the founder are made of |
| `BulkJobsProofs` | `JobTypesHold` and `SuccessIsComplete` (`SucceededIsComplete`) of `FaultySpec`; `OutcomesAreAudited` (`OutcomeIsAudited`) of `Spec`; for any number of workers and of handlers that outlive them | `JobAssumption` |
| `TenantsProofs` | `TenantTypesHold`, `DeletionsAreThorough` (`DeletedWithItsTraces`), `OnboardingComesOnce` (`OnboardedOnce`), `EntitlementsHaveReasons` (`EntitledForAReason`) | `TenantsAssumption` |
| `OrganizationProofs` | of `Saml`: `SamlTypesHold`, `ConnectionsAreAsConfigured` (`AppliedAsConfigured`), `NamesKeepTheirUsers` (`OneUserPerName`); of `PortalPermissions`: `PortalTypesHold`, `SwitchesShowWhatHolds` (`PageShowsWhatHolds`); of `Contexts`: `WritesAreStoredAtHome` (`WritesStayInTheOrganization`), `TenantsAreGivenAsAsked` (`AskedTenantIsGiven`) | `SamlAssumption`, `PortalAssumption`, `ContextsAssumption`: what the model values differ from, and which sets the constants range over |
| `ImpersonationProofs` | `OneActiveButForRaces` (`OneActiveUnlessRaced`), `EndsAreToldAlways` (`EndsAreTold`), `ImpersonationTypesHold`, with faults or without; of `ImpersonationConsole`: `SessionsInForceAreShown` (`ActiveIsShown`) | `ImpersonationAssumption`, and for the types that the handlers are finitely many, since they are counted; `ConsoleAssumption` |
| `TaskBoardProofs` | `BoardTypesHold`, `AssigneesAreInformed` (`AssigneeIsInformed`), `QueueFollowsTasks` (`RemindersFollowTasks`), `TasksHaveTheirPlaces` (`PlacesAreOwn`), `SummariesCountTheLists` (`CountsAgree`) | `BoardAssumption`: the tasks are finitely many, the requests are what the routes' schemas let through, and a board begins as the routes leave it |
| `TaskPoliciesProofs` | `OneRowButForOverlaps` (`OneRowUnlessDoubled`); `MergeTwice`, `AdminsMayDoEverything`, `OverridesOnlyAdd`; of `TaskControls`: `ControlsAreGranted` (`RefusedOnlyInRows`), `ReadOnlyOffersNothing` (`ReadOnlyAtRest`); of `ProjectsPage`: `CardsShowTheProjects` (`ShowsTheProjects`) | nothing; for the controls `ControlsAssumption`: the user goes for controls there are; for the cards `ProjectsAssumption`: every project has a tenant, and what the model values differ from |

### Arguments

Hardly any of these properties is inductive: each says something of the tables at rest, and is
kept because of what handlers under way have read. So each invariant adds that knowledge.

**Tokens.** A state in which a handler is about to issue the first token of a code whose row is
still stored satisfies `RedeemedOnce`, and another handler may then consume the code. `IInv` adds:

- `HandlersHaveRows`: what a handler has read still leaves a trace in the tables; in particular a
  handler that will issue has deleted its code's row;
- `FamiliesAreSpent`: a family with a token has had its code deleted. With the previous part, a
  code that is stored has neither tokens nor an issuer, so accepting it is the first time;
- `RotationHolds`: a handler between revoking and inserting is the only holder of its family, or
  the family has missed. This is what makes the insert of the successor safe.

`WorthInv` says that entitlements, codes and the roles a handler carries were granted to exactly
their user, client and tenant, and that a handler's token has the identity of its family's
code; it is proved relative to `IInv`. `Trail` counts an event a handler is about to write as
written: then a token is recorded from the step that inserts it, and only a dying handler
loses an event. The first token of a family is the one `CodesAreRedeemedOnce` allows, hence one
TOKEN_ISSUED. The action properties need no invariant of their own: a family without live
token and carrier has a deleted code, so no exchange starts, no token to refresh, so no rotation
starts, and no handler to insert. For a sign-out, `WorthInv` says that all tokens of a family have
its session, so the transaction that revokes by session revokes them all; a family that is then
not extinct has a code still stored or is carried by a handler.

**The refinement.** `Stage` maps a code to one of the five stages of `OneTimeCodes`: by its row
as long as it has one, then by whether a handler is about to issue its first token (`Claimed`)
or has (`Paid`). With `IInv` a code with a row is neither (`StoredIsUntouched`), and a claimed
one has paid nothing and is in the hands of one handler (`ClaimIsSingle`). Then every step
leaves all stages, advances one code by one stage, or drops some: the pruner many at once, a
handler that refuses, dies or finds the code expired one (`StepsOfTheStore`).

**Memberships.** `met` records which kinds of work overlapped, so the proofs start from
`RacesMet`: any two handlers that are both between reading and writing have their race in `met`.
All invariants then have the form "short of these races, ..." and say what a handler about to
write may rely on:

- `OwnerRemains`: there is an owner, and one other than the member any removal is about to take,
  from the count to the last of its statements (`Removing`). `RemoveCount` establishes it
  (`AnotherOwner`: more than one owner leaves one whoever goes; this needs no finiteness), and
  a second removal that could take the other owner has met the first;
- `ServedAlone`: the profile row serves one acceptance of a user at a time. With it
  `FoundIsCurrent`: short of an edit, the role an acceptance has read is the role the member
  has, so comparing ranks with it never overwrites a higher one;
- `OneOpen`, with `InOrder`: only the latest invitation of a user can be open, and none is when a
  handler is about to create one. The first half is stronger than the property, and needed: the
  route looks only at the latest pending invitation;
- `NoOrphans`: whoever holds an entitlement, or is about to be given one, is a member, and a
  removal that has deleted its user's entitlements has deleted all there are;
- `NotYetAccepted`: an acceptance on its way is of an invitation that nobody has accepted.

**Bulk jobs.** `OneRun`: short of an overlap, one worker or orphan at most has work under way.
So `NoEarlySuccess`: as long as the processor is between its first and its last update, or a
progress update is still to be written, by whomever, the row is not SUCCEEDED. Cancels and
retries never write SUCCEEDED, so the only way there is the last update, whose counts the
processor has added up, and no progress update can change them afterwards. `OutcomeTold` says of
each final status that the event for it is written, or in the hands of a handler (`Told`), or
that a run still to come will start over (`ToCome`); and the same of the status a report
compares its own with, which is where a stale `previousStatus` would suppress an event. That it
is kept rests on `OneRun`: the comparison and the write are two transactions, and what an
administrator does between them is an audited outcome itself. `JobTypesHold` needs a bound of
the queue, which counts retries that have yet to enqueue.

**Impersonation.** `StartsSee`: an open start of a pair that was never raced will end every
active session of the pair, and is the only open one. `EndsAreTold` is inductive with
`LeftAreRows`, which says that what a handler has left to report is gone. `StopsBound` counts,
for each session, the events written and the handlers that will still write one.

**The console.** As long as no excuse has come about: `OneStart`, there is one start at a time,
before it is served nothing is in force and a number is left, afterwards nothing but what it
made; `InForce`, a session in force is not due and none whose stop was served, so an answer to a
stop never takes a banner that is needed; `StoredAndShown`, what a tab was told of and is in
force is shown by a tab *and* stored, which is what a reload of that tab rests on. Excuses never
go away, so a step after which there are none has begun with none.

**Tenants.** What holds of a deleted tenant rests on who was in time. `TasksHaveTenants`: a
tenant's board is empty, or was written to behind the back of a deletion, or nobody has begun to
delete the tenant; the step that begins (`NewlyDoomed`) wipes the board, and the one that ends
takes the tenant or counts it as halved (`NoLongerDoomed`). `StripsToCome`: metadata that still
name a deleted organization a call will clear, or they were spared; an organization that is not
there has no members (`PeopleLive`). `AnnouncedOnce` says that a job is queued by its tenant's
creation only, and `Provisioned` counts: a job has added as many tasks as it was taken back, and
one more once the worker is done with it. Of entitlements, `EntitledBelong` is kept because each
way to get one is excused or has a place: `GrantsHaveMembers` is what a grant has found, an
acceptance makes the place itself, and what takes a place away is recorded. `RowsLive` says that
rows are of tenants that live, and `UnlinksKnow` that each entitlement of a tenant whose link is
being or has been deleted was granted since or is still some unlink's to revoke.

**SAML.** The columns and the metadata of a row agree; whatever a PATCH has read agrees in
itself, and the edit keeps that (`EditsAgree`), so a write that overwrites another's columns
still leaves a row of one provider. `InForceAsSet` says of a connection that counts as disabled
that every PATCH in flight which did not ask for the flag has read it disabled. `OneAccount`: a
name that was not seen by two requests at once is linked only while it has no account, and by
one request; `NothingBefore` that a connection to come has neither accounts nor requests, since
names are per connection; `SeenInside` that whoever is about to be signed in has been a member.

**Portal permissions.** `SavesTell`: a page has one call for a role in flight, or the role is
excused; and until the call is saved, the list it would put back agrees with what holds, from
then on what holds is the set it was sent with. A failure puts back the list of every role, so
the argument is about the roles that were not being saved as well.

**Contexts.** `Directories`: `been` has every organization of the user, and those of the tenants
the user has the product in, but for tenants given abroad. `Sound` is a claim at each program
counter of a request: still open, it asks for a tenant that is still promised (whatever breaks
the promise closes it, in the same step, so it finds an organization: `FoundOrganization`); past
the organization, it was given the only one there is; past the tenant, it goes on in an
organization the user has been in, or abroad. Joining a second organization settles nothing more
(`SettledBefore`), so what was stored stays right. `Shows` is the launcher as long as nothing
has changed. That the oldest of the rows is one of them (`OldestIsOne`) is a property of finite
sets, by a least counterexample (`WellFoundedInduction`).

**The task board.** `RacesSeen`: two handlers are never at work on one task without it having an
excuse. So each property is proved of one task and its one handler, and most steps are of others
(`Beside`: they leave its row, its job and its handler alone, or excuse it). What the handler
knows is a claim at each program counter: `ToTell`, that the assignee was told before it wrote,
and will be once it has; `ToRemind`, that the row is still what it wrote when it comes to the
queue, and the old job is gone when it queues the new one; `PlaceKept`, that the place it has
read is still free. `Agrees` is stronger than the property: a task without a job that needs one
was reminded for the very date it has. `NextIsBeyond`, that `getNextSortOrder` is beyond all
places of a column, is a property of finite sets, proved by a least counterexample
(`WellFoundedInduction`), and `SummariesCountTheLists` one of their disjoint unions.

**Policies.** A call about to insert has seen no row of its user and scope, and there is still
none, or the pair is in `doubled`; a call about to update has a row of that user and scope, or
one that is gone.

**Capabilities.** `MergeTwice` says that the order of roles and modifiers does not matter, which
lets `RoleBase` merge all at once where the code folds over the roles. The three theorems rest
on a lemma that says of one capability when it is in a merge.

**Controls.** What the page shows, and each request carries, is as old as the change it was read
before (`at`, `seen`); `ControlsInv` says that what is as new as the last change is true: rights
shown are rights the user has, and the control of a request was drawn by such a right. With
`GatesAreDemands`, that what is drawn by a permission is asked for by its route, nothing else is
refused. For the read-only page `Covered` orders the requests in flight: a list asked for
before the page became read-only is followed by one asked for after it, which will outrun it.

**Projects.** Every list and every summary on its way is as old as the moment it was read at, and
what the page shows is too. A run is `Hopeful` while nothing has gone wrong and no answer on its
way is older than what is shown; one that is not will be noted when that answer comes, and
nothing is claimed of it. While it is hopeful `CardsInv` says: the latest list of a tenant shows
every project as the table has it, but for those whose write has an answer still to come
(`ListsTell`), and the same of the page once no list is on its way (`RowsTell`); the latest
summaries count all, but for creations, whose answers bring a list and no summaries (`SumsTell`,
`SummaryTells`); and a project the page knows of is in every list to come unless it is deleted
(`Kept`), without which an edit's answer would find no card to change. At most one handler
of the dialog waits for requests (`Alone`), so at most one edit is under way.

### Only model-checked

- Liveness: `JobsSettle`, `ShownEnds`, `JobsAreFollowed`, `ComesToRest`. Fairness and ENABLED are
  out of the prover's reach.
- `PageIsTrue` (`TaskPolicies`): the list a page gets is in the order of the table, by a function
  that recurs over the rows, and what it yields would need induction over data.
- `ShowsTheTable`, `PanelIsOfTheTask` (`TasksPage`): no proof yet.
- The names `MCIdentity`, `MCTasks` and `MCConsole` give to properties of their instances are
  those properties at the focus of the run. Proved of the modules, by the theorems in brackets:
  `TokensAsGranted` (`TokensAreAsGranted`), `SucceededIsComplete` (`SuccessIsComplete`),
  `AppliedAsConfigured` (`ConnectionsAreAsConfigured`), `OneUserPerName`
  (`NamesKeepTheirUsers`), `PageShowsWhatHolds` (`SwitchesShowWhatHolds`), `OneRowUnlessDoubled`
  (`OneRowButForOverlaps`), `ActiveIsShown` (`SessionsInForceAreShown`), `RefusedOnlyInRows`
  (`ControlsAreGranted`), `ReadOnlyAtRest` (`ReadOnlyOffersNothing`), `ShowsTheProjects`
  (`CardsShowTheProjects`), `WritesStayInTheOrganization` (`WritesAreStoredAtHome`),
  `AskedTenantIsGiven` (`TenantsAreGivenAsAsked`).

## 6. Findings

- **Owners** (`member_ownerless`). `DELETE .../members/:id` counts the owners in one transaction and
  removes in another; two owners who remove each other both pass.
- **Throwing jobs** (`bulk_throws`). `attempts: 1` leaves a job RUNNING when its processor throws;
  `docs/operations/runbooks/worker.md` speaks of retries.
- **Silent stops** (`impersonation_confirmed`). A stop under another user's path deletes the session
  and records nothing; `docs/operations/runbooks/identity.md` wants every stop confirmed.
- **Project overrides** (`overrides_stack`). The settings page says they stack on the app-level
  permissions; the routes never name a project when they ask.

## 7. What else the models show about the code

Stated as the exceptions properties allow, or left as facts:

- Two refreshes of one token, or a sign-out during a refresh, leave a live token more
  (`OneLiveUnlessMissed`, `SignOutLeavesOnlyRacers`). An entitlement revoked between its reading
  and the insert still yields one token. A code of the session that is not yet exchanged, or is just
  being exchanged, yields a token after the sign-out.
- Two overlapping starts leave two active sessions for a pair (`OneActiveUnlessRaced`), against
  `docs/meta/plans/identity/v0.1.1.md`.
- The banner can disappear while its session is in force: another tab's stop clears the shared
  copy, and a start overwrites it (`ActiveIsShown`). A stop that fails when the time is up is
  not tried again; the banner then shows the error.
- A cancelled job can end SUCCEEDED and still show the cancellation's `errorMessage`, because
  the route takes null for "no change". A job retried while it runs is processed twice, with its
  counts mixed; so is one whose worker crashed, by a PATCH the identity service carries out
  after the new run has begun or ended (`SucceededIsComplete`, `OutcomeIsAudited`: "unless two
  runs overlapped").
- If POST of a bulk job fails after the row is created, the job stays PENDING until somebody
  retries it; the panel, told of an error, does not follow it. A list that was read before a job
  was made and taken up after it ends the polling (`JobsAreFollowed`).
- An accepted invitation presented after its expiry becomes EXPIRED.
- A removal deletes the entitlements first and the member later: a grant, or an acceptance that
  found the membership, between the two statements leaves an entitlement without a member
  (`OrphansOnlyByRace`). A super administrator's grant asks for no membership at all.
- A deleted organization stays in its creator's metadata if the creator had left before, since only
  the members listed are cleared, or if the profile is saved from a session that is older than the
  deletion (`DeletedWithItsTraces`).
- Detaching a member from a tenant keeps the user's entitlements there, and a grant that follows
  an unlink's list survives it (`EntitledForAReason`). Tasks written between the wiping and the
  deletion of a tenant stay without one (`DeletedWithItsTraces`). A stalled worker provisions twice
  (`OnboardedOnce`).
- Two first sign-ins of one name with different e-mails overwrite each other's account; a user who
  is not in the organization is refused, but after the account was linked. A PATCH that read a
  connection enabled writes it back enabled (`AppliedAsConfigured`).
- On the permissions page a failed switch restores every role's switches as they were when it was
  flipped. The page says "Owners retain full access and cannot be downgraded"; the routes
  enforce what is stored for OWNER as for any role, and an owner's own role can be lowered by a
  super administrator (`OwnerlessOnlyByRace`).
- Two overlapping handlers of one task leave its reminder or the last notice with the older state
  (`RemindersFollowTasks`, `AssigneeIsInformed`), two of one column two tasks in one place
  (`PlacesAreOwn`). Reopening a task clears its completion date only if the handler saw one.
- In a row of the task list project, due date, priority and visibility can be edited by
  everyone, and the route refuses (`RefusedOnlyInRows`). One's own place among the collaborators
  stays drawn when the account is read-only, although the banner (`account-state-banner.tsx`)
  says that task updates are disabled: nothing draws it by a permission, and the routes know no
  account status.
- Lists of a tenant, view or filter that has been left are taken up if they come late, and a
  write that was in flight when the user moved on loads the list it was made for
  (`ShowsTheTable`). The panel reopens when it is closed while a list is under way, and its
  edits then go nowhere (`PanelIsOfTheTask`). When a switch of tenants begins, the page asks
  once more for the list of the tenant it leaves, with the task selected there: the answer can
  come after the new tenant's context and offer tasks that are not the page's.
- A user who is given the product in a tenant of another organization, as super administrators
  can, writes into that tenant with tasks kept under the organization of the claim or the
  membership; the tenant's people do not see such a user (`WritesStayInTheOrganization`,
  `AskedTenantIsGiven`). Without claim and membership every request is refused, although the
  product was given.
- The launcher draws a card for a tenant whose membership has ended as long as the entitlement
  lasts, and the page behind it is refused (`AskedTenantIsGiven`).
- The worker's clean-up POST is sent with `Content-Type: application/json` and no body
  (`packages/identity-client/src/http.ts`), which Fastify answers 400 before the handler runs.
  So nothing guarantees that expired sessions are deleted and their end told, against
  `docs/operations/runbooks/worker.md`; the models say what the handler does if it is reached,
  and claim no liveness of it.

## 8. Not modelled

- Wording, formatting, logs, HTTP status codes, pagination, telemetry, styling and layout.
- Cryptography: hashes, PKCE, signatures and random ids are perfect; samlify validates what the
  configuration in force says. Request authentication and JWT signing (`supabase-auth.ts`,
  `jwks.ts`, `userinfo.ts`) are stateless checks; the modules take the user as an input.
- Row level security: all modelled helpers run as service role.
- Identity events other than `tenant.created`, and the notices of comments: their consumers only
  log (`apps/worker/src/index.ts`).
- PostgreSQL beyond READ COMMITTED as described above; deadlocks between row locks end in an
  error, which is a `Fail`.
- A request whose client has given up while the handler continues, except for the worker's calls
  (`BulkJobs`).
- The audit log as a component: it is append-only, and the modules write the events their
  properties are about. Start events of impersonation are not among them: a stop may be
  audited before its start.
- Names, slugs, profiles, titles, priorities, visibility, descriptions; the roles of tenant members
  and entitlements; products other than the tasks product; renaming. They are written once
  and read back, and nothing modelled decides by them.
- Super administrators' changes of a user's status and of tenant roles, the search, detail views and
  the export: single writes and read-only aggregation.
- Pages that are a form or a list over one request (sign-in, profile, members, admin tables, the
  task dashboard), the directory of users on the Tasks page, the drawer of a bulk job.
- Contracts, environment parsing, HTTP clients as such: they hold no state; the bounds the schemas
  set are assumptions of the modules.
- End-to-end tests, infrastructure, migrations and scripts: not part of the running system.
