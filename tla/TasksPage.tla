------------------------------- MODULE TasksPage -------------------------------
(***************************************************************************)
(* The Tasks page of one browser: TenantProvider, which holds the active   *)
(* tenant, and TasksPageContent, which shows a list, a panel with one      *)
(* task, and the panel's details.                                          *)
(*                                                                         *)
(* Every handler works on the values of the render it was made in (env):   *)
(* what it captured may be gone when its answer comes.  React applies the  *)
(* state a continuation sets, renders and runs the effects in one step.    *)
(* Nothing is aborted and no answer is checked against what is shown.      *)
(*                                                                         *)
(* Left out: the board (the same answer carries it), statistics, toasts,   *)
(* the directory of users, fields of the inline draft other than its       *)
(* project; permissions, all of which the user has; other users' changes.  *)
(***************************************************************************)
EXTENDS Integers, Sequences, FiniteSets

CONSTANTS
  Tenants, NoTenant, Home,    \* Home: the tenant identity picks first
  Tasks, Projects, NoTask, NoProject,
  TenantOf,                   \* of each task and project
  Given,                      \* the tasks and projects that are there
  Plans                       \* sets of things the user does, and of requests
                              \* that fail, once each

(* projectFilter: null, UNASSIGNED_PROJECT or a project. *)
Filters == {"all", "unassigned"} \cup Projects

(* What the user may do, and one request that may fail. *)
Acts ==
  [kind: {"switch"}, tenant: Tenants] \cup [kind: {"view"}, to: {"list", "board", "my"}]
  \cup [kind: {"filter"}, to: Filters] \cup [kind: {"details"}, comment: BOOLEAN]
  \cup [kind: {"select", "collaborate", "create"}, task: Tasks]
  \cup [kind: {"row"}, task: Tasks, op: {"toggle", "assign", "unfile", "delete"}]
  \cup [kind: {"panel"}, op: {"toggle", "assign", "unfile"}]
  \cup [kind: {"project"}, project: Projects] \cup [kind: {"close", "failure"}]

(* New tasks and projects have ids of their own. *)
Remakes ==
  [kind: {"create"}, task: Tasks \cap Given] \cup [kind: {"project"}, project: Projects \cap Given]

ASSUME PageAssumption ==
  /\ Home \in Tenants /\ NoTenant \notin Tenants
  /\ NoTask \notin Tasks /\ NoProject \notin Projects
  /\ {"all", "unassigned"} \cap Projects = {}
  /\ TenantOf \in [Tasks \cup Projects -> Tenants]
  /\ Given \subseteq Tasks \cup Projects
  /\ \A acts \in Plans : acts \subseteq Acts \ Remakes

VARIABLES
  table,    \* the tasks the service has
  parts,    \* how often the details of a task have changed
  known,    \* the projects the service has
  page,     \* the state of the components
  calls,    \* the requests in flight, in the order they were sent
  plan,     \* what the user has yet to do
  wanted,   \* history: the tenant the user chose last
  excuses   \* history: what has happened out of the ordinary

vars == <<table, parts, known, page, calls, plan, wanted, excuses>>

Absent == [live |-> FALSE]
Rows == [live: {TRUE}, project: Projects \cup {NoProject}, done: BOOLEAN,
         created: BOOLEAN, assigned: BOOLEAN]
NoDetail == [task |-> NoTask, parts |-> 0]
Pending == [state |-> "pending"]

-----------------------------------------------------------------------------
(* What the service answers *)

TasksOf(tenant) == {t \in Tasks : table[t].live /\ TenantOf[t] = tenant}

(* GET /api/tasks: "my" lists what the user made or has, and not the done;  *)
(* the other views filter by project.                                       *)
Matches(row, view, filter) ==
  IF view = "my" THEN (row.created \/ row.assigned) /\ ~ row.done
  ELSE \/ filter = "all"
       \/ row.project = IF filter = "unassigned" THEN NoProject ELSE filter

ListOf(env) ==
  LET hits == {t \in TasksOf(env.tenant) : Matches(table[t], env.view, env.filter)}
  IN  [t \in hits |-> table[t]]

ProjectsOf(tenant) == {p \in known : TenantOf[p] = tenant}

-----------------------------------------------------------------------------
(* Requests *)

(* What a handler captures. *)
Env(p) == [tenant |-> p.tenant, view |-> p.view, filter |-> p.filter, selected |-> p.selected]

(* What loadTasks depends on, besides the context: it is made anew, and     *)
(* run, at the start of a request for a context and at its end.             *)
Key(p) == [env |-> Env(p), loaded |-> p.loaded, waiting |-> p.waiting]

(* then: what the handler goes on to do after the answer. *)
Call(what, env, target, op, then) ==
  [what |-> what, env |-> env, target |-> target, op |-> op, then |-> then,
   draft |-> page.draft, got |-> Pending, late |-> FALSE]

Load(p) == IF p.tenant = NoTenant THEN <<>> ELSE <<Call("list", Env(p), NoTask, "read", <<>>)>>

Continue(call) ==
  IF call.then = <<>> \/ Head(call.then) = "clear" THEN <<>>
  ELSE <<Call(Head(call.then), call.env, call.target, call.op, Tail(call.then))>>

InFlight(what) == {i \in DOMAIN calls : calls[i].what = what}
Without(i) == SubSeq(calls, 1, i - 1) \o SubSeq(calls, i + 1, Len(calls))

(* Handlers that will call loadTasks, fetchTaskDetails or refresh later on, *)
(* with what they captured.                                                 *)
Chained(inFlight) ==
  {i \in DOMAIN inFlight : \/ inFlight[i].what = "write" \/ Len(inFlight[i].then) > 0
                           \/ inFlight[i].op = "project"}

Rushed == IF Chained(calls) # {} THEN {"rushed"} ELSE {}

-----------------------------------------------------------------------------
(* A render and its effects *)

(* The effects on [tenantId] and [view]: another tenant starts from         *)
(* nothing, "my" has no project filter.                                     *)
Reset(before, after) ==
  IF after.tenant # before.tenant
  THEN [after EXCEPT !.filter = "all", !.selected = NoTask, !.panel = NoTask,
                     !.detail = NoDetail, !.loaded = FALSE, !.shown = << >>]
  ELSE IF after.view # before.view /\ after.view = "my"
  THEN [after EXCEPT !.filter = "all"]
  ELSE after

(* The effects on [projects] and [projectFilter], which keep the inline     *)
(* draft's project: one that is not offered is dropped when a context       *)
(* comes, a filter that is chosen is taken.                                 *)
Draft(before, after, fresh) ==
  LET kept == IF fresh /\ after.draft \notin after.projects THEN "all" ELSE after.draft
  IN  IF after.filter # before.filter /\ after.filter # "all" THEN after.filter ELSE kept

(* Mutant: it runs again for every answer. *)
LoadsForEver(before, after, fresh) ==
  IF fresh \/ Key(after) # Key(before) \/ after.shown # before.shown THEN Load(after)
  ELSE IF before.loaded /\ before = after THEN Load(after) ELSE <<>>

(* Mutant: the filter is not among the dependencies of loadTasks. *)
LoadsWithoutFilter(before, after, fresh) ==
  LET settled == Reset(before, after) IN
    (IF fresh \/ [Key(after) EXCEPT !.env.filter = before.filter] # Key(before) THEN Load(after) ELSE <<>>)
    \o (IF [Key(settled) EXCEPT !.env.filter = after.filter] # Key(after) THEN Load(settled) ELSE <<>>)

(* loadTasks runs again whenever what it depends on is new: once in the     *)
(* render that follows, before the resets, and once more after them.        *)
Loads(before, after, fresh) ==
  LET settled == Reset(before, after) IN
    (IF fresh \/ Key(after) # Key(before) THEN Load(after) ELSE <<>>)
    \o (IF Key(settled) # Key(after) THEN Load(settled) ELSE <<>>)

(* What a change of the page does: after is the state a handler or a        *)
(* continuation sets, rest the requests that stay in flight with those it   *)
(* has sent.                                                                *)
Render(after, fresh, rest, what) ==
  LET settled == Reset(page, after)
      moved == Env(settled) # Env(page)
  IN  /\ page' = [settled EXCEPT !.draft = Draft(page, settled, fresh)]
      /\ calls' = rest \o Loads(page, after, fresh)
      /\ excuses' = excuses \cup what \cup
                      (IF moved /\ Chained(rest) # {} THEN {"rushed"} ELSE {})

-----------------------------------------------------------------------------
(* The user *)

Does(act) == act \in plan /\ plan' = plan \ {act}
Service0 == <<table, parts, known>>

(* The list is hidden while the tenant's context is loading. *)
ListShown(t) == ~ page.waiting /\ page.loaded /\ t \in DOMAIN page.shown

(* The panel's controls are hidden while details are loading. *)
PanelShown == page.panel # NoTask /\ ~ page.detailing

(* switchTenant, from a select that is disabled while a context is loading. *)
(* What it says about loading makes the page ask for the list it leaves.    *)
Switch(act) ==
  /\ act.kind = "switch" /\ Does(act)
  /\ ~ page.waiting /\ page.tenant # NoTenant /\ act.tenant # page.tenant
  /\ Render([page EXCEPT !.waiting = TRUE], FALSE,
            calls \o <<Call("context", [Env(page) EXCEPT !.tenant = act.tenant],
                            NoTask, "read", <<>>)>>, Rushed)
  /\ wanted' = act.tenant
  /\ UNCHANGED Service0

ChooseView(act) ==
  /\ act.kind = "view" /\ Does(act) /\ act.to # page.view
  /\ Render([page EXCEPT !.view = act.to], FALSE, calls, {})
  /\ UNCHANGED <<Service0, wanted>>

(* The select of projects, which "my" disables. *)
ChooseFilter(act) ==
  /\ act.kind = "filter" /\ Does(act)
  /\ page.view # "my" /\ act.to # page.filter
  /\ act.to \in {"all", "unassigned"} \cup page.projects
  /\ Render([page EXCEPT !.filter = act.to], FALSE, calls, {})
  /\ UNCHANGED <<Service0, wanted>>

(* handleSelectTask: the details are asked for before the render that asks  *)
(* for the list.  A list that came after its tenant had been left offers    *)
(* tasks that are not the page's.                                           *)
Select(act) ==
  /\ act.kind = "select" /\ Does(act) /\ ListShown(act.task)
  /\ Render([page EXCEPT !.selected = act.task, !.panel = act.task, !.detailing = TRUE], FALSE,
            Append(calls, Call("details", Env(page), act.task, "read", <<>>)),
            IF TenantOf[act.task] # page.tenant THEN {"strayed"} ELSE {})
  /\ UNCHANGED <<Service0, wanted>>

(* closeTaskPanel, hasty when a list that was asked for with a selection is *)
(* still to come: its answer opens the panel again.                         *)
ClosePanel(act) ==
  /\ act.kind = "close" /\ Does(act) /\ page.panel # NoTask
  /\ Render([page EXCEPT !.selected = NoTask, !.panel = NoTask, !.detail = NoDetail], FALSE, calls,
            IF \E i \in InFlight("list") : calls[i].env.selected # NoTask THEN {"hasty"} ELSE {})
  /\ UNCHANGED <<Service0, wanted>>

Sends(call) ==
  /\ Render(page, FALSE, Append(calls, call), {})
  /\ UNCHANGED <<Service0, wanted>>

(* handleToggleStatus, handleUpdateTask and handleDeleteTask, on a row of   *)
(* the list.                                                                *)
EditRow(act) ==
  /\ act.kind = "row" /\ Does(act) /\ ListShown(act.task)
  /\ Sends(Call("write", Env(page), act.task, act.op, <<"list">>))

(* onUpdateTask of the panel, on the selected task and not on the one the   *)
(* panel shows; onAssignToMe and onUnassign, on the one it shows.           *)
EditPanel(act) ==
  /\ act.kind = "panel" /\ Does(act) /\ PanelShown
  /\ act.op # "assign" => page.selected # NoTask
  /\ Sends(Call("write", Env(page), IF act.op = "assign" THEN page.panel ELSE page.selected,
                act.op, <<"list">>))

(* Mutant: the details are not asked for again. *)
EditDetailsBlindly(act) ==
  /\ act.kind = "details" /\ Does(act) /\ PanelShown /\ page.selected # NoTask
  /\ Sends(Call("write", Env(page), page.selected, "part", <<"list">>))

(* Subtasks and following: details, then the list.  Comments: the details.  *)
EditDetails(act) ==
  /\ act.kind = "details" /\ Does(act) /\ PanelShown /\ page.selected # NoTask
  /\ Sends(Call("write", Env(page), page.selected, "part",
                IF act.comment THEN <<"details">> ELSE <<"details", "list">>))

(* handleAddCollaborator and handleRemoveCollaborator, on a row of the list. *)
Collaborate(act) ==
  /\ act.kind = "collaborate" /\ Does(act) /\ ListShown(act.task)
  /\ Sends(Call("write", Env(page), act.task, "part",
                IF page.selected = act.task THEN <<"details", "list">> ELSE <<"list">>))

Making(op) == \E i \in DOMAIN calls : calls[i].op = op

(* handleCreateTask, in the draft's project. *)
CreateTask(act) ==
  /\ act.kind = "create" /\ Does(act)
  /\ ~ page.waiting /\ page.loaded /\ page.view # "board" /\ ~ Making("create")
  /\ TenantOf[act.task] = page.tenant
  /\ Sends(Call("write", Env(page), act.task, "create", <<"list", "clear">>))

(* handleCreateProject *)
CreateProject(act) ==
  /\ act.kind = "project" /\ Does(act)
  /\ TenantOf[act.project] = page.tenant /\ ~ Making("project")
  /\ Sends(Call("write", Env(page), act.project, "project", <<"context">>))

-----------------------------------------------------------------------------
(* The service *)

Has(t, tenant) == TenantOf[t] = tenant /\ table[t].live

(* The row a write leaves. *)
Written(row, op) ==
  CASE op = "toggle" -> [row EXCEPT !.done = ~ @]
    [] op = "assign" -> [row EXCEPT !.assigned = ~ @]
    [] op = "unfile" -> [row EXCEPT !.project = NoProject]
    [] op = "delete" -> Absent
    [] OTHER -> row

(* A tenant's routes know its own tasks and projects only. *)
Accepted(call) ==
  CASE call.op = "create" /\ call.what = "write" ->
         call.draft \in {"all", "unassigned"} \cup ProjectsOf(call.env.tenant)
    [] call.what = "details" \/ (call.what = "write" /\ call.op # "project") ->
         Has(call.target, call.env.tenant)
    [] OTHER -> TRUE

Served(i, answer) == calls' = [calls EXCEPT ![i].got = answer]
Asked(i, what) == calls[i].what = what /\ calls[i].got.state = "pending"

ServeRead(i) ==
  /\ \/ /\ Asked(i, "list")
        /\ Served(i, [state |-> "ok", rows |-> ListOf(calls[i].env)])
     \/ /\ Asked(i, "details") /\ Accepted(calls[i])
        /\ Served(i, [state |-> "ok",
                      detail |-> [task |-> calls[i].target, parts |-> parts[calls[i].target]]])
     \/ /\ Asked(i, "context")
        /\ LET tenant == IF calls[i].env.tenant = NoTenant THEN Home ELSE calls[i].env.tenant
           IN  Served(i, [state |-> "ok", tenant |-> tenant, projects |-> ProjectsOf(tenant)])
  /\ UNCHANGED <<Service0, page, plan, wanted, excuses>>

ServeWrite(i) ==
  /\ Asked(i, "write") /\ Accepted(calls[i])
  /\ LET call == calls[i]
         t == call.target
     IN  \/ /\ call.op = "create"
            /\ table' = [table EXCEPT ![t] =
                           [live |-> TRUE, done |-> FALSE, created |-> TRUE, assigned |-> FALSE,
                            project |-> IF call.draft \in Projects THEN call.draft ELSE NoProject]]
            /\ UNCHANGED <<parts, known>>
         \/ /\ call.op = "project"
            /\ known' = known \cup {t}
            /\ UNCHANGED <<table, parts>>
         \/ /\ call.op = "part"
            /\ parts' = [parts EXCEPT ![t] = @ + 1]
            /\ UNCHANGED <<table, known>>
         \/ /\ call.op \in {"toggle", "assign", "unfile", "delete"}
            /\ table' = [table EXCEPT ![t] = Written(table[t], call.op)]
            /\ UNCHANGED <<parts, known>>
  /\ Served(i, [state |-> "ok"])
  /\ UNCHANGED <<page, plan, wanted, excuses>>

Refuse(i) ==
  /\ calls[i].got.state = "pending" /\ ~ Accepted(calls[i])
  /\ Served(i, [state |-> "refused"])
  /\ UNCHANGED <<Service0, page, plan, wanted, excuses>>

-----------------------------------------------------------------------------
(* The answers *)

(* Requests of the same kind that were sent before an answered one and are  *)
(* still in flight are late.                                                *)
Answered(i) ==
  LET marked == [j \in DOMAIN calls |->
                   IF j < i /\ calls[j].what = calls[i].what THEN [calls[j] EXCEPT !.late = TRUE]
                   ELSE calls[j]]
  IN  SubSeq(marked, 1, i - 1) \o SubSeq(marked, i + 1, Len(calls))

Overtaken(i) == IF calls[i].late THEN {"overtaken"} ELSE {}
Ready(i, what) == calls[i].what = what /\ calls[i].got.state = "ok"

(* What handleCreateTask does after its list: the panel is closed and the   *)
(* selection is kept.                                                       *)
Clears(call, p) ==
  IF Len(call.then) > 0 /\ Head(call.then) = "clear"
  THEN [p EXCEPT !.panel = NoTask, !.detail = NoDetail] ELSE p

(* Mutant: the panel keeps a task that is not in the list any more. *)
KeepPanel(call, p) ==
  IF call.env.selected \in DOMAIN call.got.rows THEN [p EXCEPT !.panel = call.env.selected] ELSE p

(* The panel follows the list, by the selection of the render that asked.   *)
Match(call, p) ==
  IF call.env.selected = NoTask THEN p
  ELSE [p EXCEPT !.panel = IF call.env.selected \in DOMAIN call.got.rows THEN call.env.selected
                           ELSE NoTask]

(* loadTasks *)
ApplyList(i) ==
  /\ Ready(i, "list")
  /\ LET call == calls[i]
         listed == [page EXCEPT !.shown = call.got.rows, !.loaded = TRUE]
     IN  Render(Clears(call, Match(call, listed)), FALSE, Answered(i), Overtaken(i))
  /\ UNCHANGED <<Service0, plan, wanted>>

(* fetchTaskDetails *)
ApplyDetails(i) ==
  /\ Ready(i, "details")
  /\ Render([page EXCEPT !.detail = calls[i].got.detail, !.detailing = FALSE], FALSE,
            Answered(i) \o Continue(calls[i]), Overtaken(i))
  /\ UNCHANGED <<Service0, plan, wanted>>

(* loadContext: the new context is another object even if nothing changed.  *)
ApplyContext(i) ==
  /\ Ready(i, "context")
  /\ Render([page EXCEPT !.tenant = calls[i].got.tenant, !.projects = calls[i].got.projects,
                         !.waiting = FALSE],
            TRUE, Answered(i), Overtaken(i))
  /\ UNCHANGED <<Service0, plan, wanted>>

(* The continuation of a handler after its write. *)
ApplyWrite(i) ==
  /\ Ready(i, "write")
  /\ LET call == calls[i]
         after ==
           CASE call.op = "delete" /\ call.env.selected = call.target ->
                  [page EXCEPT !.selected = NoTask, !.panel = NoTask, !.detail = NoDetail]
             [] call.op = "create" -> [page EXCEPT !.draft = "all"]
             [] call.op = "project" ->
                  [page EXCEPT !.filter = call.target, !.draft = call.target, !.waiting = TRUE]
             [] Len(call.then) > 0 /\ Head(call.then) = "details" ->
                  [page EXCEPT !.detailing = TRUE]
             [] OTHER -> page
     IN  Render(after, FALSE, Answered(i) \o Continue(call),
                IF call.op = "create" THEN {"created"} ELSE {})
  /\ UNCHANGED <<Service0, plan, wanted>>

(* A refusal or an error, before or after the service has acted: a message  *)
(* is shown.  loadTasks, fetchTaskDetails and loadContext swallow it and    *)
(* their callers go on; the handler of a write stops.                       *)
Fail(i) ==
  /\ \/ calls[i].got.state = "refused" /\ plan' = plan
     \/ Does([kind |-> "failure"])
  /\ LET call == calls[i]
         after ==
           CASE call.what = "list" -> Clears(call, page)
             [] call.what = "details" -> [page EXCEPT !.detailing = FALSE]
             [] call.what = "context" -> [page EXCEPT !.waiting = FALSE]
             [] OTHER -> page
     IN  Render(after, FALSE,
                Without(i) \o IF call.what = "write" THEN <<>> ELSE Continue(call),
                {"failed"})
  /\ UNCHANGED <<Service0, wanted>>

-----------------------------------------------------------------------------
(* The page is mounted without a tenant and TenantProvider asks for one.    *)
Mounted == [tenant |-> NoTenant, projects |-> {}, waiting |-> TRUE, view |-> "list",
            filter |-> "all", selected |-> NoTask, panel |-> NoTask, detail |-> NoDetail,
            detailing |-> FALSE, loaded |-> FALSE, shown |-> << >>, draft |-> "all"]

Init ==
  /\ table = [t \in Tasks |-> IF t \in Given
                THEN [live |-> TRUE, project |-> NoProject, done |-> FALSE,
                      created |-> FALSE, assigned |-> FALSE]
                ELSE Absent]
  /\ parts = [t \in Tasks |-> 0]
  /\ known = Given \cap Projects
  /\ page = Mounted
  /\ calls = <<Call("context", Env(Mounted), NoTask, "read", <<>>)>>
  /\ plan \in Plans
  /\ wanted = Home
  /\ excuses = {}

UserActs ==
  \E act \in plan :
    \/ Switch(act) \/ ChooseView(act) \/ ChooseFilter(act) \/ Select(act) \/ ClosePanel(act)
    \/ EditRow(act) \/ EditPanel(act) \/ EditDetails(act) \/ Collaborate(act)
    \/ CreateTask(act) \/ CreateProject(act)

Serves == \E i \in DOMAIN calls : ServeRead(i) \/ ServeWrite(i) \/ Refuse(i)

Applies ==
  \E i \in DOMAIN calls :
    ApplyList(i) \/ ApplyDetails(i) \/ ApplyContext(i) \/ ApplyWrite(i) \/ Fail(i)

Next == UserActs \/ Serves \/ Applies

(* Requests are answered and answers taken up as long as there are any: a   *)
(* pending request is served once, so neither keeps the other waiting.      *)
Spec == Init /\ [][Next]_vars /\ WF_vars(Serves \/ Applies)

-----------------------------------------------------------------------------
TypeOK ==
  /\ table \in [Tasks -> Rows \cup {Absent}]
  /\ parts \in [Tasks -> Nat]
  /\ known \subseteq Projects
  /\ page.tenant \in Tenants \cup {NoTenant} /\ page.projects \subseteq known
  /\ page.view \in {"list", "board", "my"} /\ page.filter \in Filters /\ page.draft \in Filters
  /\ {page.selected, page.panel, page.detail.task} \subseteq Tasks \cup {NoTask}
  /\ DOMAIN page.shown \subseteq Tasks
  /\ \A i \in DOMAIN calls : calls[i].what \in {"list", "details", "context", "write"}

Undisturbed(by) == excuses \cap by = {}

(* Once everything is answered the page is in the tenant the user chose     *)
(* last and shows that tenant's tasks, those of the view and filter it      *)
(* names, as the service has them: unless an answer came after that to a    *)
(* later request of its kind, a request failed, or a write was in flight    *)
(* when the user moved on: its handler loads the list it was made for.      *)
ShowsTheTable ==
  calls = <<>> /\ Undisturbed({"overtaken", "rushed", "failed"}) =>
    /\ page.tenant = wanted
    /\ page.loaded /\ page.shown = ListOf(Env(page))

(* The panel shows the task its edits go to (or nothing) once the lists are *)
(* answered, and once everything is, that task's comments, subtasks and     *)
(* followers as the service has them.  A panel that is closed while a list  *)
(* is still to come opens again, and its edits go nowhere; so does that of  *)
(* a task chosen from the list of a tenant that had been left; after a task *)
(* was made the panel may come back without details.                        *)
PanelIsOfTheTask ==
  Undisturbed({"overtaken", "rushed", "failed", "hasty", "strayed"}) =>
    /\ InFlight("list") = {} => page.panel \in {NoTask, page.selected}
    /\ calls = <<>> /\ page.panel # NoTask /\ Undisturbed({"created"}) =>
         page.detail = [task |-> page.panel, parts |-> parts[page.panel]]

(* However its loads bring about others, the page comes to rest. *)
ComesToRest == []<>(calls = <<>>)
=============================================================================
