----------------------------- MODULE TaskControls -----------------------------
(***************************************************************************)
(* Which controls the Tasks page offers its user, by the permissions it    *)
(* shows, and which requests the routes let through, by what the user may  *)
(* do when they decide.  The permissions come with a context and with      *)
(* every list; meanwhile roles, overrides and the user's status change.    *)
(*                                                                         *)
(* Left out: the tasks themselves, tenants and views (TasksPage has them), *)
(* the rows of the table of overrides (TaskPolicies has them), controls    *)
(* that send nothing, and forms that are not filled in.                    *)
(***************************************************************************)
EXTENDS TaskPermissions, Sequences

CONSTANTS
  RoleSets, Overrides,   \* what the user's roles, and first app-level policy, can be
  Pressed,               \* the controls the user goes for
  MaxChanges, MaxPresses, MaxCalls

VARIABLES
  member,     \* the user's roles, overrides and status, as the services have them
  page,       \* what the components know and show
  calls,      \* requests in flight, in the order they were sent
  changes,    \* how often the user's rights have changed
  presses,    \* how often the user has pressed a control
  refused,    \* history: controls refused although the page was up to date
  excuses     \* history: what has happened out of the ordinary

vars == <<member, page, calls, changes, presses, refused, excuses>>

-----------------------------------------------------------------------------
(* The permission a control is drawn by, component by component.            *)

(* A row of the list: the arrow to the next status, and the cross.  Project,*)
(* due date, priority and visibility (fields) are drawn for everyone, and   *)
(* so is one's own place among the collaborators.                           *)
RowGate == [arrow |-> "edit", delete |-> "manage"]
FieldsGate == [fields |-> "none"]
CollaboratorGate == [join |-> "none", leave |-> "none", invite |-> "manage", drop |-> "manage"]

(* The row for a new task; a card of the board; the button for a project. *)
DraftGate == [draft |-> "create"]
CardGate == [card |-> "edit"]
ProjectGate == [project |-> "manage"]

(* The panel: description, date, priority and project; its buttons; the     *)
(* subtasks.                                                                *)
PanelGate == [panel |-> "edit"]
ButtonGate == [take |-> "assign", release |-> "assign", follow |-> "comment", unfollow |-> "none"]
SubtaskGate == [subtasks |-> "edit"]

(* Mutant: everyone who may comment is offered to delete comments. *)
CommentGateLoose == [remark |-> "comment", strike |-> "comment"]

(* The panel's comments: add and delete. *)
CommentGate == [remark |-> "comment", strike |-> "manage"]

Gates == {RowGate, FieldsGate, CollaboratorGate, DraftGate, CardGate, ProjectGate, PanelGate,
          ButtonGate, SubtaskGate, CommentGate}

Controls == UNION {DOMAIN gate : gate \in Gates}

ControlsAssumption ==
  /\ Pressed \subseteq Controls
  /\ Overrides \subseteq SUBSET Switches
  /\ {MaxChanges, MaxPresses, MaxCalls} \subseteq Nat

Gate == [control \in Controls |-> (CHOOSE gate \in Gates : control \in DOMAIN gate)[control]]

(* The permission its route asks for: those of the tasks, then those of     *)
(* what a task has, then that of the projects.                              *)
TaskNeeds ==
  [draft |-> "create", arrow |-> "edit", card |-> "edit", fields |-> "edit", panel |-> "edit",
   take |-> "assign", release |-> "assign", delete |-> "manage"]
PartNeeds ==
  [subtasks |-> "edit", remark |-> "comment", strike |-> "manage"]
FollowerNeeds ==
  [follow |-> "comment", unfollow |-> "comment", join |-> "comment", leave |-> "comment",
   invite |-> "manage", drop |-> "manage"]
ProjectNeeds == [project |-> "manage"]

Demands == {TaskNeeds, PartNeeds, FollowerNeeds, ProjectNeeds}

Needs ==
  [control \in Controls |-> (CHOOSE needs \in Demands : control \in DOMAIN needs)[control]]

(* What follows when the request is granted: the list is loaded again, only *)
(* the details are, or the whole context is.                                *)
Then(control) ==
  CASE control \in {"remark", "strike"} -> "nothing"
    [] control = "project" -> "context"
    [] OTHER -> "list"

(* Its handler looks again at the permission it is drawn by, or at nothing; *)
(* handleUpdateTask stops in a read-only page.                              *)
Drawn(control) ==
  /\ page.loaded \/ (control = "project" /\ page.known)
  /\ Gate[control] \in {"none"} \cup page.shown
  /\ control \in {"fields", "panel", "take", "release"} => page.active

-----------------------------------------------------------------------------
Pending == [state |-> "pending"]

(* readOnly: isReadOnly of the render that made the handler. *)
Call(what, readOnly) ==
  [what |-> what, readOnly |-> readOnly, got |-> Pending, seen |-> page.at, late |-> FALSE]

Rights == {a \in Actions : RouteAllows(member.roles, member.global, a)}

(* When the policies cannot be read the routes and the context do without.  *)
RightsLapsed == {a \in Actions : RouteAllows(member.roles, {}, a)}

Without(i) == SubSeq(calls, 1, i - 1) \o SubSeq(calls, i + 1, Len(calls))

(* Lists sent before the one that is taken up. *)
Outrun(i) ==
  [j \in DOMAIN calls |->
    IF j < i /\ calls[j].what = "list" THEN [calls[j] EXCEPT !.late = TRUE] ELSE calls[j]]

OutrunWithout(i) == SubSeq(Outrun(i), 1, i - 1) \o SubSeq(Outrun(i), i + 1, Len(calls))

-----------------------------------------------------------------------------
(* A control is pressed. *)
Press ==
  \E control \in Pressed :
    /\ presses < MaxPresses /\ presses' = presses + 1
    /\ Len(calls) < MaxCalls
    /\ Drawn(control)
    /\ calls' = Append(calls, Call(control, ~ page.active))
    /\ UNCHANGED <<member, page, changes, refused, excuses>>

(* Its route decides. *)
Decide(i, lapsed) ==
  /\ calls[i].what \in Controls /\ calls[i].got = Pending
  /\ LET rights == IF lapsed THEN RightsLapsed ELSE Rights
         granted == Needs[calls[i].what] \in rights
     IN  /\ calls' = [calls EXCEPT ![i].got = [state |-> "decided", granted |-> granted]]
         /\ refused' = refused \cup IF ~ granted /\ ~ lapsed /\ calls[i].seen = changes
                                    THEN {calls[i].what} ELSE {}
  /\ UNCHANGED <<member, page, changes, presses, excuses>>

(* GET /api/context and GET /api/tasks answer with the user's permissions;  *)
(* only the context tells the user's status.                                *)
Answer(i, lapsed) ==
  /\ calls[i].what \in {"context", "list"} /\ calls[i].got = Pending
  /\ calls' = [calls EXCEPT ![i].got =
        [state |-> "answered", rights |-> IF lapsed THEN RightsLapsed ELSE Rights,
         active |-> member.active, at |-> changes]]
  /\ UNCHANGED <<member, page, changes, presses, refused, excuses>>

-----------------------------------------------------------------------------
(* The handler goes on when its request was granted; loadTasks is the one   *)
(* of its render.                                                           *)
TakeUpPress(i) ==
  /\ calls[i].got.state = "decided"
  /\ LET call == calls[i]
         next == IF call.got.granted THEN Then(call.what) ELSE "nothing"
     IN  /\ calls' = Without(i) \o
                       IF next = "nothing" THEN <<>> ELSE <<Call(next, call.readOnly)>>
         /\ excuses' = excuses \cup
                         (IF next = "list" /\ call.readOnly = page.active THEN {"captured"} ELSE {})
  /\ UNCHANGED <<member, page, changes, presses, refused>>

(* Mutant: the list's permissions are shown whatever the status is. *)
TakeUpAnyList(i) ==
  /\ calls[i].what = "list" /\ calls[i].got.state = "answered"
  /\ LET call == calls[i] IN
       /\ page' = [page EXCEPT !.shown = call.got.rights, !.at = call.got.at, !.loaded = TRUE]
       /\ calls' = OutrunWithout(i) \o
                     IF page.loaded THEN <<>> ELSE <<Call("list", ~ page.active)>>
       /\ excuses' = excuses \cup (IF call.late THEN {"late"} ELSE {})
  /\ UNCHANGED <<member, changes, presses, refused>>

(* loadTasks: the permissions of the answer, unless the page was read-only  *)
(* when it asked.  The first list that comes asks for another.              *)
TakeUpList(i) ==
  /\ calls[i].what = "list" /\ calls[i].got.state = "answered"
  /\ LET call == calls[i] IN
       /\ page' = [page EXCEPT !.shown = IF call.readOnly THEN {} ELSE call.got.rights,
                               !.at = call.got.at, !.loaded = TRUE]
       /\ calls' = OutrunWithout(i) \o
                     IF page.loaded THEN <<>> ELSE <<Call("list", ~ page.active)>>
       /\ excuses' = excuses \cup (IF call.late THEN {"late"} ELSE {})
  /\ UNCHANGED <<member, changes, presses, refused>>

(* loadContext, the effect on the context, and loadTasks for it. *)
TakeUpContext(i) ==
  /\ calls[i].what = "context" /\ calls[i].got.state = "answered"
  /\ LET got == calls[i].got IN
       /\ page' = [page EXCEPT !.known = TRUE, !.active = got.active, !.at = got.at,
                               !.shown = IF got.active THEN got.rights ELSE {}]
       /\ calls' = Append(Without(i), Call("list", ~ got.active))
  /\ UNCHANGED <<member, changes, presses, refused, excuses>>

(* A request is lost or fails. *)
Fail(i) ==
  /\ "failed" \notin excuses
  /\ calls' = Without(i)
  /\ excuses' = excuses \cup {"failed"}
  /\ UNCHANGED <<member, page, changes, presses, refused>>

(* An administrator changes the user's roles, overrides or status. *)
Change ==
  /\ changes < MaxChanges /\ changes' = changes + 1
  /\ \E roles \in RoleSets, global \in Overrides, active \in BOOLEAN :
       /\ member' = [roles |-> roles, global |-> global, active |-> active]
       /\ member' # member
  /\ UNCHANGED <<page, calls, presses, refused, excuses>>

(* The page is drawn with every permission until a context comes. *)
Init ==
  /\ member \in [roles : RoleSets, global : Overrides, active : BOOLEAN]
  /\ page = [known |-> FALSE, active |-> TRUE, shown |-> Actions, at |-> 0, loaded |-> FALSE]
  /\ calls = <<Call("context", FALSE)>>
  /\ changes = 0 /\ presses = 0
  /\ refused = {} /\ excuses = {}

Next ==
  \/ Press \/ Change
  \/ \E i \in DOMAIN calls :
       \/ \E lapsed \in BOOLEAN : Decide(i, lapsed) \/ Answer(i, lapsed)
       \/ TakeUpPress(i) \/ TakeUpList(i) \/ TakeUpContext(i) \/ Fail(i)

Spec == Init /\ [][Next]_vars

-----------------------------------------------------------------------------
(* No control of an up-to-date page is refused but the row's fields, which  *)
(* are drawn for everyone (while the policies can be read, and even if they *)
(* could not be read for the page): the page and the routes of five files   *)
(* each have their own idea of who may do what.                             *)
RefusedOnlyInRows == refused \subseteq {"fields"}

(* When everything has been answered, a page that says the account is read- *)
(* only offers nothing that is drawn by a permission, unless a request      *)
(* failed or a list that was asked for before came last: an older one, or   *)
(* one a handler asked for that was made before the status changed.         *)
ReadOnlyAtRest ==
  calls = <<>> /\ ~ page.active /\ excuses \cap {"late", "captured", "failed"} = {} =>
    page.shown = {}
=============================================================================
