------------------------------ MODULE TaskBoard ------------------------------
(***************************************************************************)
(* The tasks of one tenant: the tables of packages/tasks-db, the handlers  *)
(* under apps/tasks/app/api, and the queue of task notifications.          *)
(*                                                                         *)
(* A helper of tasks-db is a READ COMMITTED transaction that reads before  *)
(* it writes; a handler awaits several, then the queue.  Reads and writes  *)
(* of one transaction are two steps where another commit in between        *)
(* matters; what was read is a field of the handler's slot.                *)
(*                                                                         *)
(* Left out: titles, descriptions, priorities and visibility, which no     *)
(* property looks at; a second tenant, whose tasks every helper refuses    *)
(* with task_not_found; the names of users the answers are dressed with;   *)
(* the notices of comments (task.commented), which no task state decides.  *)
(***************************************************************************)
EXTENDS Integers, FiniteSets

CONSTANTS
  Tasks, Parts, Projects, Users,
  Nobody, NoProject, NoDate,
  Dates, Past,       \* due dates, and those that have passed
  RightsOf,          \* what the evaluator of TaskPermissions lets each user do
  Agendas,           \* what a behaviour is about: the tasks and projects that
                     \* are there, and the requests that come, once each
  Handlers,          \* requests handled at a time
  Failing            \* whether handlers may fail half-way

Statuses == {"OPEN", "IN_PROGRESS", "COMPLETED", "ARCHIVED"}
BoardStatuses == {"OPEN", "IN_PROGRESS", "COMPLETED"}

Groups == Projects \cup {NoProject}
Has(record, field) == field \in DOMAIN record

Rows == [status: Statuses, project: Groups, order: Int, assignee: Users \cup {Nobody},
         creator: Users, due: Dates \cup {NoDate}, done: BOOLEAN]

(* updateTaskSchema, and ensureUpdatesRequested. *)
IsPatch(set) ==
  /\ DOMAIN set # {} /\ DOMAIN set \subseteq {"project", "assignee", "due", "order", "status"}
  /\ Has(set, "project") => set.project \in Groups
  /\ Has(set, "assignee") => set.assignee \in Users \cup {Nobody}
  /\ Has(set, "due") => set.due \in Dates \cup {NoDate}
  /\ Has(set, "order") => set.order \in Int
  /\ Has(set, "status") => set.status \in Statuses

(* What the schemas of the routes let through. *)
IsRequest(r) ==
  /\ r.by \in Users
  /\ r.kind \in {"create", "patch", "drop", "follow", "unfollow", "comment", "subtask", "check",
                 "dropSubtask", "dropComment", "project", "dropProject", "wipe"}
  /\ Has(r, "task") <=> r.kind \in {"create", "patch", "drop", "follow", "unfollow", "comment",
                                   "subtask"}
  /\ Has(r, "task") => r.task \in Tasks
  /\ r.kind = "create" => /\ r.project \in Groups /\ r.assignee \in Users \cup {Nobody}
                          /\ r.due \in Dates \cup {NoDate} /\ r.followers \subseteq Users
  /\ r.kind = "patch" => IsPatch(r.set)
  /\ r.kind \in {"follow", "unfollow"} => r.user \in Users
  /\ r.kind \in {"comment", "subtask", "check", "dropSubtask", "dropComment"} => r.part \in Parts
  /\ r.kind = "check" => r.done \in BOOLEAN
  /\ r.kind \in {"project", "dropProject"} => r.project \in Projects
  /\ r.kind = "project" => r.state \in {"open", "archived"}

(* A board to begin with: its tasks have places of their own.               *)
IsScenario(scenario) ==
  /\ DOMAIN scenario.seeds \subseteq Tasks
  /\ \A t \in DOMAIN scenario.seeds : scenario.seeds[t] \in Rows
  /\ \A s, t \in DOMAIN scenario.seeds :
       LET one == scenario.seeds[s]
           other == scenario.seeds[t]
       IN  s # t /\ one.project = other.project /\ one.status = other.status =>
             one.order # other.order
  /\ \A request \in scenario.agenda : IsRequest(request)

ASSUME BoardAssumption ==
  /\ IsFiniteSet(Tasks)
  /\ Nobody \notin Users /\ NoProject \notin Projects /\ NoDate \notin Dates
  /\ "all" \notin Groups    \* the scope of the whole board is no project
  /\ Past \subseteq Dates
  /\ RightsOf \in [Users -> SUBSET {"view", "create", "edit", "comment", "assign", "manage"}]
  /\ \A scenario \in Agendas : IsScenario(scenario)
  /\ Failing \in BOOLEAN

VARIABLES
  tasks,      \* tasks.tasks
  following,  \* tasks.task_followers
  parts,      \* tasks.task_subtasks and tasks.task_comments
  projects,   \* tasks.projects
  reminders,  \* the task.dueSoon job of each task
  told,       \* the assignee of the last task.assigned notice of each task
  reminded,   \* the due date the last delivered reminder named
  slots,      \* the handlers
  agenda,     \* the requests still to come
  excuses,    \* history: what has happened to a task out of the ordinary
  left        \* history: who unfollowed what

vars == <<tasks, following, parts, projects, reminders, told, reminded, slots, agenda, excuses, left>>

Unborn == [status |-> "unborn"]
Gone == [status |-> "gone"]
Idle == [pc |-> "idle"]
NoJob == [state |-> "none"]

Live(t) == tasks[t].status \in Statuses
Open(p) == p \in {NoProject} \cup {q \in Projects : projects[q] \in {"open", "archived"}}
Holds(h, pc) == slots[h].pc = pc
Becomes(h, slot) == slots' = [slots EXCEPT ![h] = slot]
May(user, action) == action \in RightsOf[user]

-----------------------------------------------------------------------------
(* What the queries return *)

InColumn(project, status) ==
  {t \in Tasks : Live(t) /\ tasks[t].project = project /\ tasks[t].status = status}

(* Mutant: the new task shares the last place. *)
LastSortOrder(project, status) ==
  LET orders == {tasks[t].order : t \in InColumn(project, status)}
  IN  IF orders = {} THEN 1 ELSE CHOOSE n \in orders : \A m \in orders : m <= n

(* getNextSortOrder: one more than the largest; an empty column starts at 1. *)
NextSortOrder(project, status) ==
  LET orders == {tasks[t].order : t \in InColumn(project, status)}
  IN  IF orders = {} THEN 1 ELSE 1 + CHOOSE n \in orders : \A m \in orders : m <= n

(* Mutant: archived tasks are listed too. *)
ListedWithArchived(scope) ==
  {t \in Tasks : Live(t) /\ (scope = "all" \/ tasks[t].project = scope)}

(* listTasksForTenant as GET /api/tasks calls it: scope "all" filters by no *)
(* project, NoProject asks for the unassigned.                              *)
Listed(scope) ==
  {t \in Tasks : /\ Live(t) /\ tasks[t].status # "ARCHIVED"
                 /\ scope = "all" \/ tasks[t].project = scope}

(* buildBoardView *)
Board(scope) == [status \in BoardStatuses |-> {t \in Listed(scope) : tasks[t].status = status}]

(* buildStats *)
Stats(scope) ==
  LET listed == Listed(scope)
      completed == {t \in listed : tasks[t].status = "COMPLETED"}
  IN  [total |-> Cardinality(listed),
       completed |-> Cardinality(completed),
       overdue |-> Cardinality({t \in listed \ completed : tasks[t].due \in Past})]

(* A group of the query of listProjectSummariesForTenant. *)
Counts(project) ==
  LET unfinished == InColumn(project, "OPEN") \cup InColumn(project, "IN_PROGRESS")
  IN  [open |-> Cardinality(unfinished),
       overdue |-> Cardinality({t \in unfinished : tasks[t].due \in Past}),
       completed |-> Cardinality(InColumn(project, "COMPLETED"))]

-----------------------------------------------------------------------------
(* A handler takes a request. *)

Of(request) == IF Has(request, "task") THEN {request.task} ELSE {}
Busy(h) == ~ Holds(h, "idle")
About(t) == {h \in Handlers : Busy(h) /\ t \in Of(slots[h].request)}

(* Handlers that overlap on one task, or anywhere on the board. *)
Meet(request) ==
  excuses' = [t \in Tasks |->
    excuses[t] \cup
      (IF t \in Of(request) /\ About(t) # {} THEN {"overlap"} ELSE {}) \cup
      (IF /\ \E h \in Handlers : Busy(h)
          /\ t \in Of(request) \/ About(t) # {}
       THEN {"crowd"} ELSE {})]

Take(h, request, slot) ==
  /\ Holds(h, "idle") /\ request \in agenda
  /\ agenda' = agenda \ {request}
  /\ Becomes(h, slot)
  /\ Meet(request)

(* A transaction that is deleting a task keeps it locked until it commits. *)
Locked(t) == \E h \in Handlers : Holds(h, "wipe") /\ t \in slots[h].doomed

Excuse(t, what) == excuses' = [excuses EXCEPT ![t] = @ \cup what]

Board0 == <<tasks, following, parts, projects, left>>
Queue0 == <<reminders, told, reminded>>

-----------------------------------------------------------------------------
(* POST /api/tasks *)

Create(h, request) ==
  /\ request.kind = "create" /\ May(request.by, "create")
  /\ Take(h, request, [pc |-> "place", request |-> request])
  /\ UNCHANGED <<Board0, Queue0>>

(* createTask reads: the project must exist, and the column is measured.    *)
CreatePlace(h) ==
  /\ Holds(h, "place")
  /\ Open(slots[h].request.project)
  /\ Becomes(h, [pc |-> "insert", request |-> slots[h].request,
                 order |-> NextSortOrder(slots[h].request.project, "OPEN")])
  /\ UNCHANGED <<Board0, Queue0, agenda, excuses>>

(* The answer of a transaction: the row with its followers. *)
Snapshot(row, t, follow) == [row |-> row, followers |-> {u \in Users : <<t, u>> \in follow}]

(* ensureFollowerForUser, an upsert, for several users. *)
Following(t, users) == following \cup ({t} \X (users \ {Nobody}))

(* createTask writes; the foreign key fails when the project has gone.      *)
CreateInsert(h) ==
  /\ Holds(h, "insert")
  /\ LET request == slots[h].request
         t == request.task
         row == [status |-> "OPEN", project |-> request.project, order |-> slots[h].order,
                 assignee |-> request.assignee, creator |-> request.by,
                 due |-> request.due, done |-> FALSE]
         fans == {request.by, request.assignee} \cup request.followers
     IN  /\ Open(request.project) /\ tasks[t] = Unborn
         /\ tasks' = [tasks EXCEPT ![t] = row]
         /\ following' = Following(t, fans)
         /\ Becomes(h, [pc |-> "notify", request |-> request, was |-> Nobody,
                        task |-> Snapshot(row, t, following')])
  /\ UNCHANGED <<parts, projects, left, Queue0, agenda, excuses>>

-----------------------------------------------------------------------------
(* PATCH /api/tasks/:taskId *)

Edits(set) == DOMAIN set \cap {"due", "project"} # {}
Assigns(set) == Has(set, "assignee")
Fields(set) == Edits(set) \/ Assigns(set) \/ (Has(set, "order") /\ ~ Has(set, "status"))

AllowedTo(user, set) ==
  /\ Edits(set) \/ Has(set, "status") \/ (Has(set, "order") /\ ~ Assigns(set)) => May(user, "edit")
  /\ Assigns(set) => May(user, "assign")

(* The checks, and previousTask.  (No task: the request is over.) *)
Patch(h, request) ==
  /\ request.kind = "patch" /\ AllowedTo(request.by, request.set)
  /\ Live(request.task)
  /\ Take(h, request, [pc |-> IF Fields(request.set) THEN "read" ELSE "weigh",
                       request |-> request, was |-> tasks[request.task].assignee])
  /\ UNCHANGED <<Board0, Queue0>>

(* updateTask reads the task, and the project it is moved to. *)
UpdateRead(h) ==
  /\ Holds(h, "read")
  /\ LET slot == slots[h]
         t == slot.request.task
     IN  /\ Live(t) /\ (Has(slot.request.set, "project") => Open(slot.request.set.project))
         /\ Becomes(h, [pc |-> "update", request |-> slot.request, was |-> slot.was,
                        seen |-> tasks[t].assignee])
  /\ UNCHANGED <<Board0, Queue0, agenda, excuses>>

Written(row, set) ==
  [status |-> row.status,
   project |-> IF Has(set, "project") THEN set.project ELSE row.project,
   order |-> IF Has(set, "order") /\ ~ Has(set, "status") THEN set.order ELSE row.order,
   assignee |-> IF Has(set, "assignee") THEN set.assignee ELSE row.assignee,
   creator |-> row.creator,
   due |-> IF Has(set, "due") THEN set.due ELSE row.due,
   done |-> row.done]

(* What a move or an explicit place does to the order of a column. *)
Shuffles(set) ==
  (IF Has(set, "project") THEN {"moved"} ELSE {}) \cup (IF Has(set, "order") THEN {"placed"} ELSE {})

(* syncFollowersAfterAssignmentChange compares the row that was read with   *)
(* the row that is there now; an old assignee stays a follower.             *)
NewAssignee(seen, row) == IF row.assignee = seen THEN {} ELSE {row.assignee}

(* updateTask writes. *)
UpdateWrite(h) ==
  /\ Holds(h, "update")
  /\ LET slot == slots[h]
         t == slot.request.task
         set == slot.request.set
         row == Written(tasks[t], set)
     IN  /\ Live(t) /\ ~ Locked(t) /\ Open(row.project)
         /\ tasks' = [tasks EXCEPT ![t] = row]
         /\ following' = Following(t, NewAssignee(slot.seen, row))
         /\ Becomes(h, [pc |-> IF Has(set, "status") THEN "weigh" ELSE "notify",
                        request |-> slot.request, was |-> slot.was,
                        task |-> Snapshot(row, t, following')])
         /\ Excuse(t, Shuffles(set))
  /\ UNCHANGED <<parts, projects, left, Queue0, agenda>>

(* setTaskStatus reads: a task that changes column goes to the end of the   *)
(* new one, unless the request says where.                                  *)
StatusRead(h) ==
  /\ Holds(h, "weigh")
  /\ LET request == slots[h].request
         row == tasks[request.task]
         order == IF Has(request.set, "order") THEN request.set.order
                  ELSE IF request.set.status = row.status THEN row.order
                  ELSE NextSortOrder(row.project, request.set.status)
     IN  /\ Live(request.task)
         /\ Becomes(h, [pc |-> "move", request |-> request, was |-> slots[h].was,
                        order |-> order, stamped |-> row.done])
  /\ UNCHANGED <<Board0, Queue0, agenda, excuses>>

Moved(row, status, order, stamped) ==
  [status |-> status, project |-> row.project, order |-> order, assignee |-> row.assignee,
   creator |-> row.creator, due |-> row.due,
   done |-> status = "COMPLETED" \/ (~ stamped /\ row.done)]

(* setTaskStatus writes; completedAt is cleared if it was seen set. *)
StatusWrite(h) ==
  /\ Holds(h, "move")
  /\ LET slot == slots[h]
         t == slot.request.task
         row == Moved(tasks[t], slot.request.set.status, slot.order, slot.stamped)
     IN  /\ Live(t) /\ ~ Locked(t)
         /\ tasks' = [tasks EXCEPT ![t] = row]
         /\ Becomes(h, [pc |-> "notify", request |-> slot.request, was |-> slot.was,
                        task |-> Snapshot(row, t, following)])
         /\ Excuse(t, Shuffles(slot.request.set))
  /\ UNCHANGED <<following, parts, projects, left, Queue0, agenda>>

-----------------------------------------------------------------------------
(* What POST and PATCH tell the queue, from the task their last transaction *)
(* answered with.                                                           *)

NeedsReminder(row) == row.due # NoDate /\ row.status # "COMPLETED"

(* The handler, further on with the same answer. *)
At(slot, pc) == [pc |-> pc, request |-> slot.request, was |-> slot.was, task |-> slot.task]

(* Mutant: an assignee is told only of a task that had none. *)
NotifyFirstAssignee(h) ==
  /\ Holds(h, "notify")
  /\ LET slot == slots[h]
         a == slot.task.row.assignee
         named == slot.request.kind = "create" \/ Assigns(slot.request.set)
     IN  told' = IF named /\ a # Nobody /\ slot.was = Nobody
                 THEN [told EXCEPT ![slot.request.task] = a] ELSE told
  /\ Becomes(h, At(slots[h], "cancel"))
  /\ UNCHANGED <<Board0, reminders, reminded, agenda, excuses>>

(* task.assigned, to an assignee the request names and the task did not     *)
(* have before.                                                             *)
Notify(h) ==
  /\ Holds(h, "notify")
  /\ LET slot == slots[h]
         a == slot.task.row.assignee
         named == slot.request.kind = "create" \/ Assigns(slot.request.set)
     IN  told' = IF named /\ a \notin {Nobody, slot.was}
                 THEN [told EXCEPT ![slot.request.task] = a] ELSE told
  /\ Becomes(h, At(slots[h], "cancel"))
  /\ UNCHANGED <<Board0, reminders, reminded, agenda, excuses>>

(* Mutant: nothing is cancelled before a new reminder is added. *)
CancelWhenDone(h) ==
  /\ Holds(h, "cancel")
  /\ LET t == slots[h].request.task
         remind == NeedsReminder(slots[h].task.row)
     IN  /\ reminders' = IF ~ remind /\ reminders[t].state = "waiting"
                         THEN [reminders EXCEPT ![t] = NoJob] ELSE reminders
         /\ Becomes(h, IF remind THEN At(slots[h], "remind") ELSE Idle)
         /\ Excuse(t, IF reminders[t].state = "active" THEN {"active"} ELSE {})
  /\ UNCHANGED <<Board0, told, reminded, agenda>>

(* The queue cannot remove a job a worker has taken. *)
Withdrawn(t) == IF reminders[t].state = "waiting" THEN NoJob ELSE reminders[t]

(* cancelDueSoonNotification: errors are swallowed. *)
Cancel(h) ==
  /\ Holds(h, "cancel")
  /\ LET t == slots[h].request.task IN
       /\ reminders' = [reminders EXCEPT ![t] = Withdrawn(t)]
       /\ Becomes(h, IF NeedsReminder(slots[h].task.row) THEN At(slots[h], "remind") ELSE Idle)
       /\ Excuse(t, IF reminders[t].state = "active" THEN {"active"} ELSE {})
  /\ UNCHANGED <<Board0, told, reminded, agenda>>

(* enqueueTaskNotification with dueSoonJobId: a job of that id that is      *)
(* there already stays as it is.                                            *)
Remind(h) ==
  /\ Holds(h, "remind")
  /\ LET t == slots[h].request.task
         task == slots[h].task
         job == [state |-> "waiting", due |-> task.row.due,
                 to |-> task.followers \cup ({task.row.assignee, task.row.creator} \ {Nobody})]
     IN  reminders' = IF reminders[t] = NoJob THEN [reminders EXCEPT ![t] = job] ELSE reminders
  /\ Becomes(h, Idle)
  /\ UNCHANGED <<Board0, told, reminded, agenda, excuses>>

(* The delay of a job is never waited for longer than the model likes. *)
WorkerTakes(t) ==
  /\ reminders[t].state = "waiting"
  /\ reminders' = [reminders EXCEPT ![t] = [state |-> "active", due |-> @.due, to |-> @.to]]
  /\ UNCHANGED <<Board0, told, reminded, slots, agenda, excuses>>

(* handleTaskNotificationJob: the reminder goes out, the job is removed. *)
WorkerDelivers(t) ==
  /\ reminders[t].state = "active"
  /\ reminded' = [reminded EXCEPT ![t] = reminders[t].due]
  /\ reminders' = [reminders EXCEPT ![t] = NoJob]
  /\ UNCHANGED <<Board0, told, slots, agenda, excuses>>

-----------------------------------------------------------------------------
(* DELETE /api/tasks/:taskId *)

(* The foreign keys of followers, subtasks and comments cascade. *)
Without(dead) ==
  /\ tasks' = [t \in Tasks |-> IF t \in dead THEN Gone ELSE tasks[t]]
  /\ following' = {f \in following : f[1] \notin dead}
  /\ parts' = [p \in Parts |-> IF parts[p].status = "live" /\ parts[p].task \in dead
                               THEN Gone ELSE parts[p]]

Drop(h, request) ==
  /\ request.kind = "drop" /\ May(request.by, "manage")
  /\ Live(request.task) /\ ~ Locked(request.task)
  /\ Take(h, request, [pc |-> "forget", request |-> request])
  /\ Without({request.task})
  /\ UNCHANGED <<projects, left, Queue0>>

DropCancel(h) ==
  /\ Holds(h, "forget")
  /\ LET t == slots[h].request.task IN
       /\ reminders' = [reminders EXCEPT ![t] = Withdrawn(t)]
       /\ Excuse(t, IF reminders[t].state = "active" THEN {"active"} ELSE {})
  /\ Becomes(h, Idle)
  /\ UNCHANGED <<Board0, told, reminded, agenda>>

-----------------------------------------------------------------------------
(* Handlers of one transaction *)

Once(request) ==
  /\ request \in agenda
  /\ agenda' = agenda \ {request}
  /\ UNCHANGED <<slots, Queue0>>

(* A user may follow and unfollow for themselves, a manager for others. *)
MayFollow(request) ==
  May(request.by, IF request.user = request.by THEN "comment" ELSE "manage")

AddFollower(t, user) == Live(t) /\ following' = Following(t, {user})

(* Who does not follow is removed without an error. *)
RemoveFollower(t, user) == Live(t) /\ following' = following \ {<<t, user>>}

(* POST and DELETE /api/tasks/:taskId/followers *)
Follow(request) ==
  /\ request.kind = "follow" /\ MayFollow(request)
  /\ AddFollower(request.task, request.user)
  /\ Once(request)
  /\ UNCHANGED <<tasks, parts, projects, excuses, left>>

Unfollow(request) ==
  /\ request.kind = "unfollow" /\ MayFollow(request)
  /\ RemoveFollower(request.task, request.user)
  /\ Once(request)
  /\ left' = left \cup {<<request.task, request.user>>}
  /\ UNCHANGED <<tasks, parts, projects, excuses>>

(* POST /api/tasks/:taskId/comments: the author follows from now on. *)
Comment(request) ==
  /\ request.kind = "comment" /\ May(request.by, "comment") /\ Live(request.task)
  /\ parts[request.part] = Unborn
  /\ Once(request)
  /\ parts' = [parts EXCEPT ![request.part] =
                 [status |-> "live", task |-> request.task, by |-> request.by, done |-> FALSE]]
  /\ following' = Following(request.task, {request.by})
  /\ UNCHANGED <<tasks, projects, excuses, left>>

(* POST /api/tasks/:taskId/subtasks *)
AddSubtask(request) ==
  /\ request.kind = "subtask" /\ May(request.by, "edit") /\ Live(request.task)
  /\ parts[request.part] = Unborn
  /\ Once(request)
  /\ parts' = [parts EXCEPT ![request.part] =
                 [status |-> "live", task |-> request.task, by |-> request.by, done |-> FALSE]]
  /\ UNCHANGED <<tasks, following, projects, excuses, left>>

HasPart(request) == parts[request.part].status = "live"

(* PATCH of a subtask. *)
CheckSubtask(request) ==
  /\ request.kind = "check" /\ May(request.by, "edit") /\ HasPart(request)
  /\ Once(request)
  /\ parts' = [parts EXCEPT ![request.part] =
                 [status |-> "live", task |-> @.task, by |-> @.by, done |-> request.done]]
  /\ UNCHANGED <<tasks, following, projects, excuses, left>>

(* DELETE of a subtask asks for "edit", of a comment for "manage". *)
RemovePart(request) ==
  /\ \/ request.kind = "dropSubtask" /\ May(request.by, "edit")
     \/ request.kind = "dropComment" /\ May(request.by, "manage")
  /\ HasPart(request)
  /\ Once(request)
  /\ parts' = [parts EXCEPT ![request.part] = Gone]
  /\ UNCHANGED <<tasks, following, projects, excuses, left>>

(* createProject and updateProject: a project is made open; one that is     *)
(* there is archived and brought back.                                      *)
StoreProject(p, state) ==
  /\ projects[p] \in IF state = "open" THEN {"unborn", "archived"} ELSE {"open"}
  /\ projects' = [projects EXCEPT ![p] = state]

(* POST and PATCH of a project *)
SaveProject(request) ==
  /\ request.kind = "project" /\ May(request.by, "manage")
  /\ StoreProject(request.project, request.state)
  /\ Once(request)
  /\ UNCHANGED <<tasks, following, parts, excuses, left>>

(* The foreign key of the tasks is set to null: they keep their orders and  *)
(* join the unassigned.                                                     *)
Loose(rows, p) ==
  [t \in Tasks |-> IF rows[t].status \in Statuses /\ rows[t].project \in p
                   THEN [rows[t] EXCEPT !.project = NoProject] ELSE rows[t]]

DropProject(request) ==
  /\ request.kind = "dropProject" /\ May(request.by, "manage")
  /\ projects[request.project] \in {"open", "archived"}
  /\ Once(request)
  /\ projects' = [projects EXCEPT ![request.project] = "gone"]
  /\ tasks' = Loose(tasks, {request.project})
  /\ excuses' = [t \in Tasks |-> excuses[t] \cup
                   IF Live(t) /\ tasks[t].project = request.project THEN {"moved"} ELSE {}]
  /\ UNCHANGED <<following, parts, left>>

-----------------------------------------------------------------------------
(* deleteTasksForTenant, which identity calls before it deletes a tenant.   *)
(* Its statements run one after another in one transaction: the tasks that  *)
(* it deletes stay locked until it commits, and one that is created after   *)
(* its delete of tasks is spared.  No reminder is cancelled.                *)

WipeTasks(h, request) ==
  /\ request.kind = "wipe"
  /\ Take(h, request, [pc |-> "wipe", request |-> request, doomed |-> {t \in Tasks : Live(t)}])
  /\ UNCHANGED <<Board0, Queue0>>

WipeCommit(h) ==
  /\ Holds(h, "wipe")
  /\ LET dead == slots[h].doomed
         kept == [t \in Tasks |-> IF t \in dead THEN Gone ELSE tasks[t]]
     IN  /\ tasks' = Loose(kept, Projects)
         /\ following' = {f \in following : f[1] \notin dead}
         /\ parts' = [p \in Parts |-> IF parts[p].status = "live" /\ parts[p].task \in dead
                                      THEN Gone ELSE parts[p]]
         /\ excuses' = [t \in Tasks |-> excuses[t] \cup
              IF t \in dead THEN {"wiped"} ELSE IF Live(t) THEN {"moved"} ELSE {}]
  /\ projects' = [p \in Projects |-> IF projects[p] \in {"open", "archived"} THEN "gone"
                                     ELSE projects[p]]
  /\ Becomes(h, Idle)
  /\ UNCHANGED <<left, Queue0, agenda>>

-----------------------------------------------------------------------------
(* An error or a crash ends a handler; what it has committed stays. *)
Fail(h) ==
  /\ Failing /\ Busy(h)
  /\ Becomes(h, Idle)
  /\ excuses' = [t \in Tasks |-> excuses[t] \cup
                   IF t \in Of(slots[h].request) THEN {"failed"} ELSE {}]
  /\ UNCHANGED <<Board0, Queue0, agenda>>

(* A board as the handlers leave it: the tasks of a scenario's seeds, with  *)
(* their reminders.                                                         *)
Seeded(scenario) ==
  /\ tasks = [t \in Tasks |-> IF t \in DOMAIN scenario.seeds THEN scenario.seeds[t] ELSE Unborn]
  /\ following = {f \in (DOMAIN scenario.seeds) \X Users :
                    f[2] \in {scenario.seeds[f[1]].creator, scenario.seeds[f[1]].assignee}}
  /\ projects = [p \in Projects |-> IF p \in scenario.projects THEN "open" ELSE "unborn"]
  /\ told = [t \in Tasks |-> IF t \in DOMAIN scenario.seeds THEN scenario.seeds[t].assignee
                             ELSE Nobody]
  /\ reminders = [t \in Tasks |->
       IF t \in DOMAIN scenario.seeds /\ NeedsReminder(scenario.seeds[t])
       THEN [state |-> "waiting", due |-> scenario.seeds[t].due,
             to |-> {scenario.seeds[t].creator, scenario.seeds[t].assignee} \ {Nobody}]
       ELSE NoJob]
  /\ agenda = scenario.agenda

Init ==
  /\ \E scenario \in Agendas : Seeded(scenario)
  /\ parts = [p \in Parts |-> Unborn]
  /\ reminded = [t \in Tasks |-> NoDate]
  /\ slots = [h \in Handlers |-> Idle]
  /\ excuses = [t \in Tasks |-> {}]
  /\ left = {}

HandlerStep(h) ==
  \/ \E request \in agenda : Create(h, request) \/ Patch(h, request) \/ Drop(h, request)
                             \/ WipeTasks(h, request)
  \/ CreatePlace(h) \/ CreateInsert(h)
  \/ UpdateRead(h) \/ UpdateWrite(h) \/ StatusRead(h) \/ StatusWrite(h)
  \/ Notify(h) \/ Cancel(h) \/ Remind(h)
  \/ DropCancel(h) \/ WipeCommit(h) \/ Fail(h)

OneStep(request) ==
  \/ Follow(request) \/ Unfollow(request)
  \/ Comment(request) \/ AddSubtask(request) \/ CheckSubtask(request) \/ RemovePart(request)
  \/ SaveProject(request) \/ DropProject(request)

Next ==
  \/ \E h \in Handlers : HandlerStep(h)
  \/ \E request \in agenda : OneStep(request)
  \/ \E t \in Tasks : WorkerTakes(t) \/ WorkerDelivers(t)

Spec == Init /\ [][Next]_vars

-----------------------------------------------------------------------------
TypeOK ==
  /\ tasks \in [Tasks -> Rows \cup {Unborn, Gone}]
  /\ following \subseteq Tasks \X Users
  /\ parts \in [Parts -> {Unborn, Gone} \cup [status: {"live"}, task: Tasks, by: Users, done: BOOLEAN]]
  /\ projects \in [Projects -> {"unborn", "open", "archived", "gone"}]
  /\ reminders \in [Tasks -> {NoJob} \cup [state: {"waiting", "active"}, due: Dates, to: SUBSET Users]]
  /\ told \in [Tasks -> Users \cup {Nobody}]
  /\ reminded \in [Tasks -> Dates \cup {NoDate}]

(* The queue agrees with the table once no handler is at work on a task:    *)
(* an unfinished task with a due date has a reminder for that date, waiting *)
(* or delivered, and no other task has one waiting.  Only two handlers of   *)
(* the task that overlapped, a handler that ended half-way, a worker that   *)
(* had taken the job, and the deletion of the whole tenant break it.        *)
RemindersFollowTasks ==
  \A t \in Tasks :
    \/ About(t) # {} \/ excuses[t] \cap {"overlap", "failed", "active", "wiped"} # {}
    \/ IF Live(t) /\ NeedsReminder(tasks[t])
       THEN \/ reminders[t] # NoJob /\ reminders[t].due = tasks[t].due
            \/ reminded[t] = tasks[t].due
       ELSE reminders[t].state # "waiting"

(* Whoever a task is assigned to was told so, and told last, and follows it *)
(* unless they left; handlers of the task that overlap, or fail between the *)
(* table and the queue, break it.                                           *)
AssigneeIsInformed ==
  \A t \in Tasks :
    Live(t) /\ tasks[t].assignee # Nobody /\ About(t) = {} /\
    excuses[t] \cap {"overlap", "failed"} = {} =>
      /\ told[t] = tasks[t].assignee
      /\ <<t, tasks[t].assignee>> \in following \cup left

(* Two tasks of a column have places of their own, unless a handler of one  *)
(* of them overlapped another's, the client chose a place, or a task came   *)
(* over from another project with the order it had there.                   *)
PlacesAreOwn ==
  \A s, t \in Tasks :
    Live(s) /\ Live(t) /\ s # t /\
    tasks[s].project = tasks[t].project /\ tasks[s].status = tasks[t].status =>
      \/ tasks[s].order # tasks[t].order
      \/ (excuses[s] \cup excuses[t]) \cap {"crowd", "placed", "moved"} # {}

(* The sidebar and the list count alike: the summary of a project (or of    *)
(* the unassigned) adds up to the statistics of its list, every task of the *)
(* whole board is in exactly one of these lists, and every task of a list   *)
(* in exactly one column.                                                   *)
CountsAgree ==
  /\ \A project \in Groups :
       LET stats == Stats(project)
           counts == Counts(project)
       IN  /\ stats.total = counts.open + counts.completed
           /\ stats.completed = counts.completed /\ stats.overdue = counts.overdue
  /\ \A t \in Listed("all") : Cardinality({project \in Groups : t \in Listed(project)}) = 1
  /\ \A scope \in Groups \cup {"all"} :
       \A t \in Listed(scope) : Cardinality({s \in BoardStatuses : t \in Board(scope)[s]}) = 1
=============================================================================
