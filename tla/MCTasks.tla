------------------------------- MODULE MCTasks -------------------------------
(* The tasks product for TLC, one part at a time: the board's service, the  *)
(* settings page and the routes of permission policies, what the controls   *)
(* of the page let a user do, the projects page, and what organization and  *)
(* tenant a request is about.  They share nothing; focus says which one     *)
(* moves.                                                                   *)
EXTENDS TaskBoard, TLC

CONSTANTS
  ann, bob, t1, t2, t3, c1, s1, p1, soon, late,
  A, B, C, q1, q2, q3, q4, NoTenant, O, P, NoOrg

VARIABLES
  focus,
  rows, pages, pCalls, doubled, behind,
  member, cPage, cCalls, changes, presses, refused, cExcuses,
  table, writes, pPage, oCalls, acts, wanted, pExcuses,
  joined, staff, places, granted, xCalls, xPage, portal, xRows, xChanges, asked, been, abroad,
  misled, shut

-----------------------------------------------------------------------------
(* ann administers by her role, bob only by an override. *)
MCRoles == (ann :> {"OWNER"}) @@ (bob :> {"VIEWER"})

(* ann manages; bob has the capabilities of a MEMBER. *)
MCRights == (ann :> {"view", "create", "edit", "comment", "assign", "manage"})
            @@ (bob :> {"view", "create", "edit", "comment"})

Seed(order, project) ==
  [status |-> "OPEN", project |-> project, order |-> order, assignee |-> Nobody,
   creator |-> ann, due |-> NoDate, done |-> FALSE]

Set(t, by, set) == [kind |-> "patch", task |-> t, by |-> by, set |-> set]
Make(t, by, project, assignee, due) ==
  [kind |-> "create", task |-> t, by |-> by, project |-> project, assignee |-> assignee,
   due |-> due, followers |-> {}]
Other(kind, t, by) == [kind |-> kind, task |-> t, by |-> by]

(* The due date of a task comes, changes and goes, and so does the task. *)
Dating ==
  [seeds |-> (t1 :> Seed(1, NoProject)), projects |-> {},
   agenda |-> {Set(t1, ann, [due |-> soon]), Set(t1, bob, [due |-> late]),
               Set(t1, bob, [status |-> "COMPLETED"]), Set(t1, ann, [status |-> "OPEN"]),
               Other("drop", t1, ann)}]

(* A task is made for bob, who leaves it, and passed around. *)
Leaving == [kind |-> "unfollow", task |-> t1, by |-> bob, user |-> bob]

Assigning ==
  [seeds |-> << >>, projects |-> {},
   agenda |-> {Make(t1, ann, NoProject, bob, soon), Set(t1, ann, [assignee |-> ann]),
               Set(t1, ann, [assignee |-> bob, status |-> "IN_PROGRESS"]), Leaving}]

Releasing ==
  [seeds |-> << >>, projects |-> {},
   agenda |-> {Make(t1, ann, NoProject, bob, soon), Set(t1, ann, [assignee |-> Nobody]),
               Set(t1, ann, [assignee |-> bob]), Leaving}]

(* Tasks change columns while another is made. *)
Sorting ==
  [seeds |-> (t1 :> Seed(1, NoProject)) @@ (t2 :> Seed(2, NoProject)), projects |-> {},
   agenda |-> {Make(t3, bob, NoProject, Nobody, NoDate), Set(t1, ann, [status |-> "COMPLETED"]),
               Set(t2, bob, [status |-> "COMPLETED"]), Set(t2, bob, [status |-> "ARCHIVED"])}]

(* A task is given a place that another may take. *)
Placing ==
  [seeds |-> (t1 :> Seed(1, NoProject)) @@ (t2 :> Seed(2, NoProject)), projects |-> {},
   agenda |-> {Make(t3, bob, NoProject, Nobody, NoDate), Set(t1, ann, [order |-> 3]),
               Set(t2, bob, [status |-> "COMPLETED"]), Set(t2, ann, [status |-> "OPEN"])}]

(* Projects come and go under the tasks that are moved to them. *)
Moving ==
  [seeds |-> (t1 :> Seed(1, p1)), projects |-> {p1},
   agenda |-> {Make(t2, ann, p1, Nobody, soon), Set(t1, bob, [project |-> NoProject]),
               Set(t2, ann, [project |-> p1, status |-> "COMPLETED"]),
               [kind |-> "project", by |-> ann, project |-> p1, state |-> "archived"],
               [kind |-> "dropProject", by |-> ann, project |-> p1],
               [kind |-> "wipe", by |-> ann]}]

(* Comments, subtasks and followers of a task that is deleted. *)
Talking ==
  [seeds |-> (t1 :> Seed(1, NoProject)), projects |-> {},
   agenda |-> {[kind |-> "comment", task |-> t1, by |-> bob, part |-> c1],
               [kind |-> "subtask", task |-> t1, by |-> bob, part |-> s1],
               [kind |-> "check", by |-> bob, part |-> s1, done |-> TRUE],
               [kind |-> "dropSubtask", by |-> bob, part |-> s1],
               [kind |-> "dropComment", by |-> ann, part |-> c1],
               [kind |-> "follow", task |-> t1, by |-> ann, user |-> bob],
               Set(t1, ann, [assignee |-> bob, due |-> late]),
               Other("drop", t1, ann)}]

MCAgendas == {Dating, Assigning, Releasing, Sorting, Placing, Moving, Talking}

-----------------------------------------------------------------------------
Policies == INSTANCE TaskPolicies WITH
  Users <- {bob}, Admins <- {ann}, RolesOf <- MCRoles, MaxRows <- 2, MaxShown <- 1,
  Offered <- {"manage"}, Created <- {{"manage"}}, Calls <- Handlers, calls <- pCalls

Controls == INSTANCE TaskControls WITH
  RoleSets <- {{"EDITOR"}, {"MEMBER"}, {"VIEWER"}}, Overrides <- {{}, {"manage"}},
  Pressed <- {"draft", "arrow", "card", "fields", "panel", "subtasks", "take", "release",
              "follow", "unfollow", "remark", "strike", "join", "leave", "invite", "drop",
              "delete", "project"},
  MaxChanges <- 2, MaxPresses <- 1, MaxCalls <- 3,
  page <- cPage, calls <- cCalls, excuses <- cExcuses

ProjectsOf == INSTANCE ProjectsPage WITH
  Tenants <- {A, B}, Home <- A, Projects <- {q1, q2, q3, q4},
  TenantOf <- (q1 :> A @@ q2 :> A @@ q3 :> A @@ q4 :> B),
  Given <- {q1, q2, q4}, Managed <- {A}, MaxActs <- 2,
  page <- pPage, calls <- oCalls, excuses <- pExcuses

Asking == INSTANCE Contexts WITH
  Orgs <- {O, P}, Tenants <- {A, B, C}, OrgOf <- (A :> O @@ B :> O @@ C :> P),
  Me <- bob, Others <- {ann}, ClaimedOrg <- NoOrg, ClaimedTenant <- B,
  Calls <- {"one", "other"}, MaxChanges <- 2, MaxAsked <- 2,
  calls <- xCalls, page <- xPage, rows <- xRows, changes <- xChanges

ASSUME
  /\ Policies!PoliciesAssumption /\ Controls!ControlsAssumption
  /\ ProjectsOf!ProjectsAssumption /\ Asking!ContextsAssumption

rVars == <<rows, pages, pCalls, doubled, behind>>
cVars == <<member, cPage, cCalls, changes, presses, refused, cExcuses>>
pVars == <<table, writes, pPage, oCalls, acts, wanted, pExcuses>>
xVars == <<joined, staff, places, granted, xCalls, xPage, portal, xRows, xChanges, asked, been,
           abroad, misled, shut>>

(* What does not move is in one state. *)
MCInit ==
  /\ focus \in {"policies", "board", "controls", "projects", "contexts"}
  /\ Init /\ Policies!Init /\ Controls!Init /\ ProjectsOf!Init /\ Asking!Init
  /\ focus # "board" => agenda = Dating.agenda
  /\ focus # "controls" => member = [roles |-> {"VIEWER"}, global |-> {}, active |-> TRUE]
  /\ focus # "contexts" =>
       /\ joined = {[org |-> P, role |-> "MEMBER", since |-> 0]}
       /\ granted = {[user |-> bob, tenant |-> C, org |-> P, since |-> 0]}

MCNext ==
  /\ UNCHANGED focus
  /\ \/ focus = "board" /\ Next /\ UNCHANGED <<rVars, cVars, pVars, xVars>>
     \/ focus = "policies" /\ Policies!Next /\ UNCHANGED <<vars, cVars, pVars, xVars>>
     \/ focus = "controls" /\ Controls!Next /\ UNCHANGED <<vars, rVars, pVars, xVars>>
     \/ focus = "projects" /\ ProjectsOf!Next /\ UNCHANGED <<vars, rVars, cVars, xVars>>
     \/ focus = "contexts" /\ Asking!Next /\ UNCHANGED <<vars, rVars, cVars, pVars>>

MCSpec == MCInit /\ [][MCNext]_<<focus, vars, rVars, cVars, pVars, xVars>>

OneRowUnlessDoubled == focus = "policies" => Policies!OneRowUnlessDoubled
PageIsTrue == focus = "policies" => Policies!PageIsTrue
RefusedOnlyInRows == focus = "controls" => Controls!RefusedOnlyInRows
ReadOnlyAtRest == focus = "controls" => Controls!ReadOnlyAtRest
ShowsTheProjects == focus = "projects" => ProjectsOf!ShowsTheProjects
WritesStayInTheOrganization == focus = "contexts" => Asking!WritesStayInTheOrganization
AskedTenantIsGiven == focus = "contexts" => Asking!AskedTenantIsGiven

Symmetry == Permutations(Handlers)
=============================================================================
