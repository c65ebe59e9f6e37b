--------------------------- MODULE TaskBoardProofs ---------------------------
(* That reminders and notices follow the tasks, that places are own and     *)
(* counts agree, but for the cases TaskBoard names: for any number of       *)
(* tasks, users and projects, any requests, and any number of handlers.     *)
EXTENDS TaskBoard, FiniteSetTheorems, WellFoundedInduction, TLAPS

-----------------------------------------------------------------------------
(* Shapes *)

Excuses == {"overlap", "crowd", "placed", "moved", "failed", "active", "wiped"}

Answered == {"notify", "cancel", "remind"}

(* The columns of a slot, by how far its handler is. *)
IsSlot(slot) ==
  /\ slot.pc \in {"idle", "place", "insert", "read", "update", "weigh", "move", "forget", "wipe"}
                 \cup Answered
  /\ slot.pc # "idle" => IsRequest(slot.request)
  /\ slot.pc \in {"place", "insert"} => slot.request.kind = "create"
  /\ slot.pc \in {"insert", "move"} => slot.order \in Int
  /\ slot.pc \in {"read", "update", "weigh", "move"} => slot.request.kind = "patch"
  /\ slot.pc \in {"weigh", "move"} => Has(slot.request.set, "status")
  /\ slot.pc = "move" => slot.stamped \in BOOLEAN
  /\ slot.pc \in Answered => /\ slot.request.kind \in {"create", "patch"}
                             /\ slot.task.row \in Rows /\ slot.task.followers \subseteq Users
  /\ slot.pc = "remind" => NeedsReminder(slot.task.row)
  /\ slot.pc = "forget" => slot.request.kind = "drop"
  /\ slot.pc = "wipe" => slot.request.kind = "wipe" /\ slot.doomed \subseteq Tasks

SlotsOK == slots = [h \in Handlers |-> slots[h]] /\ \A h \in Handlers : IsSlot(slots[h])

Shape ==
  /\ TypeOK /\ SlotsOK
  /\ \A request \in agenda : IsRequest(request)
  /\ excuses \in [Tasks -> SUBSET Excuses]

(* The handler is at work on the task. *)
Works(h, t) == Busy(h) /\ t \in Of(slots[h].request)

(* What a step may do to a task that it is not about. *)
Untouched(t) ==
  \/ "wiped" \in excuses'[t] /\ ~ Live(t)'
  \/ /\ Live(t)' <=> Live(t)
     /\ Live(t) => /\ tasks'[t].status = tasks[t].status /\ tasks'[t].order = tasks[t].order
                   /\ tasks'[t].due = tasks[t].due /\ tasks'[t].assignee = tasks[t].assignee
                   /\ tasks'[t].project = tasks[t].project \/ "moved" \in excuses'[t]

SameWork(t) ==
  \A h \in Handlers : (Works(h, t)' <=> Works(h, t)) /\ (Works(h, t) => slots'[h] = slots[h])

Beside(t) ==
  /\ Untouched(t) /\ SameWork(t)
  /\ told'[t] = told[t] /\ reminders'[t] = reminders[t] /\ reminded'[t] = reminded[t]
  /\ Live(t)' => \A u \in Users : <<t, u>> \in following \cup left => <<t, u>> \in following' \cup left'
  /\ excuses[t] \subseteq excuses'[t]

-----------------------------------------------------------------------------
(* Lemmas about single operators *)

LEMMA RowColumns ==
  ASSUME TypeOK, NEW t \in Tasks
  PROVE  /\ tasks[t].status \in Statuses \cup {"unborn", "gone"}
         /\ Live(t) <=> tasks[t] \in Rows
         /\ Live(t) => /\ tasks[t].status \in Statuses /\ tasks[t].project \in Groups
                       /\ tasks[t].order \in Int /\ tasks[t].assignee \in Users \cup {Nobody}
                       /\ tasks[t].creator \in Users /\ tasks[t].due \in Dates \cup {NoDate}
                       /\ tasks[t].done \in BOOLEAN
         /\ ~ Live(t) => tasks[t] \in {Unborn, Gone}
<1>1. tasks[t] \in Rows \cup {Unborn, Gone}
  BY DEF TypeOK
<1>2. CASE tasks[t] \in Rows
  BY <1>2 DEF Rows, Live
<1>3. CASE tasks[t] \in {Unborn, Gone}
  <2>1. tasks[t].status \in {"unborn", "gone"}
    BY <1>3 DEF Unborn, Gone
  <2>2. ~ Live(t)
    BY <2>1 DEF Live, Statuses
  <2>3. tasks[t] \notin Rows
    BY <2>1 DEF Rows, Statuses
  <2> QED
    BY <1>3, <2>1, <2>2, <2>3
<1> QED
  BY <1>1, <1>2, <1>3

LEMMA SubjectOf ==
  ASSUME NEW request, IsRequest(request),
         request.kind \in {"create", "patch", "drop", "follow", "unfollow", "comment", "subtask"}
  PROVE  Of(request) = {request.task} /\ request.task \in Tasks
BY DEF IsRequest, Of

LEMMA NoSubject ==
  ASSUME NEW request, IsRequest(request), request.kind = "wipe"
  PROVE  Of(request) = {}
BY DEF IsRequest, Of

LEMMA SlotMoves ==
  ASSUME SlotsOK, NEW h \in Handlers, NEW slot, Becomes(h, slot)
  PROVE  /\ slots'[h] = slot
         /\ \A j \in Handlers : j # h => slots'[j] = slots[j]
         /\ IsSlot(slot) => SlotsOK'
<1>1. slots' = [slots EXCEPT ![h] = slot] /\ slots = [j \in Handlers |-> slots[j]]
  BY DEF Becomes, SlotsOK
<1>2. slots' = [j \in Handlers |-> IF j = h THEN slot ELSE slots[j]]
  BY <1>1
<1> QED
  BY <1>2 DEF SlotsOK

(* A finite set of tasks has one with the largest order.                    *)
LEMMA SomeIsLast ==
  ASSUME NEW S, IsFiniteSet(S), NEW order \in [S -> Int], S # {}
  PROVE  \E t \in S : \A s \in S : order[s] <= order[t]
<1> DEFINE HasLast(U) == \E t \in U : \A s \in U : order[s] <= order[t]
           Bad == {U \in SUBSET S : U # {} /\ ~ HasLast(U)}
<1>1. SUFFICES ASSUME Bad # {}
               PROVE  FALSE
  BY DEF Bad
<1>2. Bad \subseteq FiniteSubsetsOf(S)
  BY FS_Subset DEF FiniteSubsetsOf
<1>3. PICK U \in Bad : \A V \in Bad : <<V, U>> \notin StrictSubsetOrdering(S)
  BY <1>1, <1>2, FS_StrictSubsetOrderingWellFounded, WFMin
<1>4. PICK x \in U : TRUE
  BY <1>3
<1>5. U \ {x} \notin Bad
  BY <1>3, <1>4 DEF StrictSubsetOrdering
<1>6. CASE U \ {x} = {}
  BY <1>3, <1>4, <1>6
<1>7. CASE U \ {x} # {}
  <2>1. PICK t \in U \ {x} : \A s \in U \ {x} : order[s] <= order[t]
    BY <1>3, <1>5, <1>7
  <2>2. order[t] \in Int /\ order[x] \in Int /\ \A s \in U : order[s] \in Int
    BY <1>3, <1>4, <2>1
  <2>3. CASE order[x] <= order[t]
    BY <1>3, <1>4, <2>1, <2>2, <2>3
  <2>4. CASE order[t] <= order[x]
    <3>1. \A s \in U : order[s] <= order[x]
      BY <2>1, <2>2, <2>4
    <3> QED
      BY <1>3, <1>4, <3>1
  <2> QED
    BY <2>2, <2>3, <2>4
<1> QED
  BY <1>6, <1>7

(* getNextSortOrder gives a place beyond all of the column.                 *)
LEMMA NextIsBeyond ==
  ASSUME TypeOK, NEW project, NEW status
  PROVE  /\ NextSortOrder(project, status) \in Int
         /\ \A t \in InColumn(project, status) : tasks[t].order < NextSortOrder(project, status)
<1> DEFINE column == InColumn(project, status)
           orders == {tasks[t].order : t \in column}
           order == [t \in column |-> tasks[t].order]
<1>1. IsFiniteSet(column) /\ column \subseteq Tasks
  BY BoardAssumption, FS_Subset DEF InColumn
<1>2. \A t \in column : tasks[t].order \in Int
  BY RowColumns DEF InColumn
<1>3. CASE column = {}
  BY <1>3 DEF NextSortOrder
<1>4. CASE column # {}
  <2>1. order \in [column -> Int]
    BY <1>2
  <2> HIDE DEF column
  <2>2. PICK t \in column : \A s \in column : order[s] <= order[t]
    BY <1>1, <1>4, <2>1, SomeIsLast
  <2>3. tasks[t].order \in orders /\ \A m \in orders : m <= tasks[t].order
    BY <2>2
  <2> DEFINE last == CHOOSE n \in orders : \A m \in orders : m <= n
  <2>4. last \in orders /\ \A m \in orders : m <= last
    BY <2>3
  <2>5. last \in Int
    BY <1>2, <2>4
  <2>6. NextSortOrder(project, status) = 1 + last
    BY <2>3 DEF NextSortOrder, column
  <2> HIDE DEF last
  <2>7. \A s \in column : tasks[s].order <= last
    BY <2>4
  <2>8. \A s \in column : tasks[s].order < 1 + last
    BY <1>2, <2>5, <2>7
  <2> QED
    BY <2>5, <2>6, <2>8 DEF column
<1> QED
  BY <1>3, <1>4

-----------------------------------------------------------------------------
(* Steps of handlers *)

(* A handler that goes on with its request, or ends. *)
LEMMA GoesOn ==
  ASSUME SlotsOK, NEW h \in Handlers, NEW slot, Becomes(h, slot), Busy(h),
         slot = Idle \/ (slot.pc # "idle" /\ slot.request = slots[h].request)
  PROVE  /\ \A j \in Handlers : Busy(j)' => Busy(j)
         /\ \A j \in Handlers, t \in Tasks : Works(j, t)' => Works(j, t)
         /\ \A t \in Tasks : t \notin Of(slots[h].request) => SameWork(t)
         /\ slot.pc # "idle" => \A j \in Handlers, t \in Tasks : Works(j, t)' <=> Works(j, t)
<1>1. slots'[h] = slot /\ \A j \in Handlers : j # h => slots'[j] = slots[j]
  BY SlotMoves
<1>2. Idle.pc = "idle"
  BY DEF Idle
<1>3. \A j \in Handlers : Busy(j)' => Busy(j)
  BY <1>1 DEF Busy, Holds
<1>4. ASSUME NEW j \in Handlers, NEW t \in Tasks
      PROVE  /\ Works(j, t)' => Works(j, t)
             /\ slot.pc # "idle" => (Works(j, t)' <=> Works(j, t))
             /\ t \notin Of(slots[h].request) => /\ Works(j, t)' <=> Works(j, t)
                                                 /\ Works(j, t) => slots'[j] = slots[j]
  <2>1. CASE j # h
    BY <1>1, <2>1 DEF Works, Busy, Holds
  <2>2. CASE j = h
    BY <1>1, <1>2, <2>2 DEF Works, Busy, Holds
  <2> QED
    BY <2>1, <2>2
<1> QED
  BY <1>3, <1>4 DEF SameWork

(* What taking a request does to the slots and the excuses. *)
LEMMA TakesUp ==
  ASSUME SlotsOK, excuses \in [Tasks -> SUBSET Excuses], NEW h \in Handlers, NEW request, NEW slot,
         Take(h, request, slot), slot.pc # "idle", slot.request = request
  PROVE  /\ \A t \in Tasks : t \notin Of(request) => SameWork(t)
         /\ excuses' \in [Tasks -> SUBSET Excuses]
         /\ \A t \in Tasks : excuses[t] \subseteq excuses'[t]
         /\ slots'[h] = slot /\ \A j \in Handlers : j # h => slots'[j] = slots[j]
<1>1. Becomes(h, slot) /\ Holds(h, "idle") /\ Meet(request)
  BY DEF Take
<1>2. slots'[h] = slot /\ \A j \in Handlers : j # h => slots'[j] = slots[j]
  BY <1>1, SlotMoves
<1>3. excuses' \in [Tasks -> SUBSET Excuses] /\ \A t \in Tasks : excuses[t] \subseteq excuses'[t]
  BY <1>1 DEF Meet, Excuses
<1>4. ASSUME NEW t \in Tasks, t \notin Of(request)
      PROVE  SameWork(t)
  <2>1. ASSUME NEW j \in Handlers, j # h
        PROVE  (Works(j, t)' <=> Works(j, t)) /\ slots'[j] = slots[j]
    BY <1>2, <2>1 DEF Works, Busy, Holds
  <2>2. ~ Works(h, t) /\ ~ Works(h, t)'
    BY <1>1, <1>2, <1>4 DEF Works, Busy, Holds
  <2> QED
    BY <2>1, <2>2 DEF SameWork
<1> QED
  BY <1>2, <1>3, <1>4

LEMMA NothingElse ==
  ASSUME NEW t \in Tasks, SameWork(t), UNCHANGED <<Board0, Queue0>>, excuses[t] \subseteq excuses'[t]
  PROVE  Beside(t)
BY DEF Beside, Untouched, Board0, Queue0, Live

LEMMA TypesStay ==
  ASSUME TypeOK, UNCHANGED <<Board0, Queue0>>
  PROVE  TypeOK'
BY DEF TypeOK, Board0, Queue0

(* The steps that only look: a request is taken, or a transaction reads.    *)
LEMMA TakesLook ==
  ASSUME Shape, NEW h \in Handlers, NEW request \in agenda,
         Create(h, request) \/ Patch(h, request) \/ WipeTasks(h, request)
  PROVE  /\ Shape' /\ \A t \in Tasks : t \notin Of(request) => Beside(t)
         /\ Take(h, request, slots'[h]) /\ slots'[h].pc # "idle" /\ slots'[h].request = request
         /\ UNCHANGED <<Board0, Queue0>>
<1> USE DEF Shape
<1>1. IsRequest(request) /\ UNCHANGED <<Board0, Queue0>>
  BY DEF Create, Patch, WipeTasks
<1>2. PICK slot : Take(h, request, slot) /\ slot.pc # "idle" /\ slot.request = request /\ IsSlot(slot)
  <2>1. CASE Create(h, request)
    <3> DEFINE slot == [pc |-> "place", request |-> request]
    <3>1. Take(h, request, slot) /\ IsSlot(slot)
      BY <1>1, <2>1 DEF Create, IsSlot, Answered
    <3> QED
      BY <3>1
  <2>2. CASE Patch(h, request)
    <3> DEFINE slot == [pc |-> IF Fields(request.set) THEN "read" ELSE "weigh",
                        request |-> request, was |-> tasks[request.task].assignee]
    <3>1. Take(h, request, slot) /\ request.kind = "patch"
      BY <2>2 DEF Patch
    <3>2. IsPatch(request.set)
      BY <1>1, <3>1 DEF IsRequest
    <3>3. ~ Fields(request.set) => Has(request.set, "status")
      BY <3>2 DEF IsPatch, Fields, Edits, Assigns, Has
    <3>4. IsSlot(slot)
      BY <1>1, <3>1, <3>3 DEF IsSlot, Answered
    <3> QED
      BY <3>1, <3>4
  <2>3. CASE WipeTasks(h, request)
    <3> DEFINE slot == [pc |-> "wipe", request |-> request, doomed |-> {t \in Tasks : Live(t)}]
    <3>1. Take(h, request, slot) /\ IsSlot(slot)
      BY <1>1, <2>3 DEF WipeTasks, IsSlot, Answered
    <3> QED
      BY <3>1
  <2> QED
    BY <2>1, <2>2, <2>3
<1>3. /\ \A t \in Tasks : t \notin Of(request) => SameWork(t)
      /\ excuses' \in [Tasks -> SUBSET Excuses]
      /\ \A t \in Tasks : excuses[t] \subseteq excuses'[t]
      /\ slots'[h] = slot
  BY <1>2, TakesUp
<1>4. SlotsOK' /\ agenda' \subseteq agenda
  BY <1>2, SlotMoves DEF Take
<1>5. Shape'
  BY <1>1, <1>3, <1>4, TypesStay
<1> QED
  BY <1>1, <1>2, <1>3, <1>5, NothingElse

LEMMA ReadsLook ==
  ASSUME Shape, NEW h \in Handlers, CreatePlace(h) \/ UpdateRead(h) \/ StatusRead(h)
  PROVE  /\ Shape' /\ \A t \in Tasks : t \notin Of(slots[h].request) => Beside(t)
         /\ Busy(h) /\ slots'[h].pc # "idle" /\ slots'[h].request = slots[h].request
         /\ \A j \in Handlers : j # h => slots'[j] = slots[j]
         /\ UNCHANGED <<Board0, Queue0, excuses>>
<1> USE DEF Shape
<1>1. UNCHANGED <<Board0, Queue0, agenda, excuses>>
  BY DEF CreatePlace, UpdateRead, StatusRead
<1>2. IsSlot(slots[h])
  BY DEF SlotsOK
<1>3. PICK slot : Becomes(h, slot) /\ slot.pc # "idle" /\ slot.request = slots[h].request
                  /\ IsSlot(slot) /\ Busy(h)
  <2>1. CASE CreatePlace(h)
    <3> DEFINE slot == [pc |-> "insert", request |-> slots[h].request,
                        order |-> NextSortOrder(slots[h].request.project, "OPEN")]
    <3>1. Becomes(h, slot) /\ slots[h].pc = "place" /\ Busy(h)
      BY <2>1 DEF CreatePlace, Holds, Busy
    <3>2. slot.order \in Int
      BY NextIsBeyond
    <3>3. IsSlot(slot)
      BY <1>2, <3>1, <3>2 DEF IsSlot, Answered
    <3> QED
      BY <3>1, <3>3
  <2>2. CASE UpdateRead(h)
    <3> DEFINE slot == [pc |-> "update", request |-> slots[h].request, was |-> slots[h].was,
                        seen |-> tasks[slots[h].request.task].assignee]
    <3>1. Becomes(h, slot) /\ slots[h].pc = "read" /\ Busy(h)
      BY <2>2 DEF UpdateRead, Holds, Busy
    <3>2. IsSlot(slot)
      BY <1>2, <3>1 DEF IsSlot, Answered
    <3> QED
      BY <3>1, <3>2
  <2>3. CASE StatusRead(h)
    <3> DEFINE request == slots[h].request
               row == tasks[request.task]
               order == IF Has(request.set, "order") THEN request.set.order
                        ELSE IF request.set.status = row.status THEN row.order
                        ELSE NextSortOrder(row.project, request.set.status)
               slot == [pc |-> "move", request |-> request, was |-> slots[h].was,
                        order |-> order, stamped |-> row.done]
    <3>1. Becomes(h, slot) /\ slots[h].pc = "weigh" /\ Busy(h) /\ Live(request.task)
      BY <2>3 DEF StatusRead, Holds, Busy
    <3>2. IsRequest(request) /\ request.kind = "patch" /\ Has(request.set, "status")
      BY <1>2, <3>1 DEF IsSlot
    <3>3. request.task \in Tasks
      BY <3>2, SubjectOf
    <3>4. row.order \in Int /\ row.done \in BOOLEAN
      BY <3>1, <3>3, RowColumns
    <3>5. Has(request.set, "order") => request.set.order \in Int
      BY <3>2 DEF IsRequest, IsPatch
    <3>6. NextSortOrder(row.project, request.set.status) \in Int
      BY NextIsBeyond
    <3>7. order \in Int
      BY <3>4, <3>5, <3>6
    <3> HIDE DEF order
    <3>8. IsSlot(slot)
      BY <3>2, <3>4, <3>7 DEF IsSlot, Answered
    <3> QED
      BY <3>1, <3>8 DEF order
  <2> QED
    BY <2>1, <2>2, <2>3
<1>4. \A t \in Tasks : t \notin Of(slots[h].request) => SameWork(t)
  BY <1>3, GoesOn
<1>5. SlotsOK' /\ slots'[h] = slot /\ \A j \in Handlers : j # h => slots'[j] = slots[j]
  BY <1>3, SlotMoves
<1>6. Shape'
  BY <1>1, <1>5, TypesStay
<1> QED
  BY <1>1, <1>3, <1>4, <1>5, <1>6, NothingElse

-----------------------------------------------------------------------------
(* Steps that write *)

LEMMA OneTask ==
  ASSUME TypeOK, NEW t \in Tasks, NEW row \in Rows \cup {Unborn, Gone},
         tasks' = [tasks EXCEPT ![t] = row]
  PROVE  /\ tasks'[t] = row /\ \A s \in Tasks : s # t => tasks'[s] = tasks[s]
         /\ tasks' \in [Tasks -> Rows \cup {Unborn, Gone}]
BY DEF TypeOK

LEMMA OneExcuse ==
  ASSUME excuses \in [Tasks -> SUBSET Excuses], NEW t \in Tasks, NEW what \in SUBSET Excuses,
         Excuse(t, what)
  PROVE  /\ excuses' \in [Tasks -> SUBSET Excuses]
         /\ excuses'[t] = excuses[t] \cup what
         /\ \A s \in Tasks : excuses[s] \subseteq excuses'[s] /\ (s # t => excuses'[s] = excuses[s])
BY DEF Excuse

LEMMA WrittenColumns ==
  ASSUME NEW row, NEW set
  PROVE  /\ Written(row, set).status = row.status
         /\ Written(row, set).project = IF Has(set, "project") THEN set.project ELSE row.project
         /\ Written(row, set).order = IF Has(set, "order") /\ ~ Has(set, "status")
                                      THEN set.order ELSE row.order
         /\ Written(row, set).assignee = IF Has(set, "assignee") THEN set.assignee ELSE row.assignee
BY DEF Written, Has

LEMMA MoreFollow ==
  ASSUME TypeOK, NEW t \in Tasks, NEW users \in SUBSET (Users \cup {Nobody})
  PROVE  /\ following \subseteq Following(t, users) /\ Following(t, users) \subseteq Tasks \X Users
         /\ \A u \in users : u # Nobody => <<t, u>> \in Following(t, users)
BY DEF TypeOK, Following

LEMMA SameTask ==
  ASSUME NEW t \in Tasks, SameWork(t), tasks'[t] = tasks[t], excuses[t] \subseteq excuses'[t],
         told'[t] = told[t], reminders'[t] = reminders[t], reminded'[t] = reminded[t],
         \A u \in Users : <<t, u>> \in following \cup left => <<t, u>> \in following' \cup left'
  PROVE  Beside(t)
BY DEF Beside, Untouched, Live

(* The transactions that write a task leave the others alone and go on to   *)
(* the notice or the change of status.                                      *)
LEMMA InsertWrites ==
  ASSUME Shape, NEW h \in Handlers, CreateInsert(h)
  PROVE  LET t == slots[h].request.task IN
           /\ Shape' /\ t \in Tasks /\ Of(slots[h].request) = {t} /\ Busy(h)
           /\ \A s \in Tasks : s # t => Beside(s)
           /\ tasks'[t] \in Rows /\ tasks'[t].assignee = slots[h].request.assignee
           /\ tasks'[t].project = slots[h].request.project /\ tasks'[t].status = "OPEN"
           /\ tasks'[t].order = slots[h].order
           /\ slots'[h].pc = "notify" /\ slots'[h].request = slots[h].request
           /\ slots'[h].task.row = tasks'[t] /\ slots'[h].was = Nobody
           /\ tasks'[t].assignee # Nobody => <<t, tasks'[t].assignee>> \in following'
           /\ \A j \in Handlers : j # h => slots'[j] = slots[j]
           /\ UNCHANGED <<excuses, told, reminders, reminded>>
<1> USE DEF Shape
<1> DEFINE request == slots[h].request
           t == request.task
           row == [status |-> "OPEN", project |-> request.project, order |-> slots[h].order,
                   assignee |-> request.assignee, creator |-> request.by,
                   due |-> request.due, done |-> FALSE]
           fans == {request.by, request.assignee} \cup request.followers
           slot == [pc |-> "notify", request |-> request, was |-> Nobody,
                    task |-> Snapshot(row, t, following')]
<1>1. /\ slots[h].pc = "insert" /\ Busy(h) /\ Becomes(h, slot)
      /\ tasks' = [tasks EXCEPT ![t] = row] /\ following' = Following(t, fans)
      /\ UNCHANGED <<parts, projects, left, Queue0, agenda, excuses>>
  BY DEF CreateInsert, Holds, Busy
<1>2. IsRequest(request) /\ request.kind = "create" /\ slots[h].order \in Int
  BY <1>1 DEF SlotsOK, IsSlot
<1>3. t \in Tasks /\ Of(request) = {t}
  BY <1>2, SubjectOf
<1>4. row \in Rows /\ fans \subseteq Users \cup {Nobody} /\ request.assignee \in fans
  BY <1>2 DEF IsRequest, Rows, Statuses
<1>5. slot.task.row = row /\ slot.task.followers \subseteq Users
  BY DEF Snapshot
<1>6. slot.pc = "notify" /\ slot.request = request /\ slot.was = Nobody
  OBVIOUS
<1>7. /\ row.status = "OPEN" /\ row.project = request.project /\ row.order = slots[h].order
      /\ row.assignee = request.assignee
  OBVIOUS
<1> HIDE DEF row, fans, slot
<1>8. IsSlot(slot)
  BY <1>2, <1>4, <1>5, <1>6 DEF IsSlot, Answered
<1>9. /\ tasks'[t] = row /\ \A s \in Tasks : s # t => tasks'[s] = tasks[s]
      /\ tasks' \in [Tasks -> Rows \cup {Unborn, Gone}]
  BY <1>1, <1>3, <1>4, OneTask
<1>10. /\ following \subseteq following' /\ following' \subseteq Tasks \X Users
       /\ request.assignee # Nobody => <<t, request.assignee>> \in following'
  BY <1>1, <1>3, <1>4, MoreFollow
<1>11. slots'[h] = slot /\ SlotsOK' /\ \A j \in Handlers : j # h => slots'[j] = slots[j]
  BY <1>1, <1>8, SlotMoves
<1>12. \A s \in Tasks : s # t => SameWork(s)
  BY <1>1, <1>3, <1>6, GoesOn
<1>13. \A s \in Tasks : s # t => Beside(s)
  BY <1>1, <1>9, <1>10, <1>12, SameTask DEF Queue0
<1>14. Shape'
  BY <1>1, <1>9, <1>10, <1>11 DEF TypeOK, Queue0
<1> QED
  BY <1>1, <1>3, <1>4, <1>5, <1>6, <1>7, <1>9, <1>10, <1>11, <1>13, <1>14 DEF Queue0

LEMMA UpdateWrites ==
  ASSUME Shape, NEW h \in Handlers, UpdateWrite(h)
  PROVE  LET t == slots[h].request.task
             set == slots[h].request.set
         IN /\ Shape' /\ t \in Tasks /\ Of(slots[h].request) = {t}
            /\ slots[h].pc = "update" /\ slots[h].request.kind = "patch"
            /\ \A s \in Tasks : s # t => Beside(s)
            /\ Live(t) /\ tasks'[t] \in Rows /\ tasks'[t] = Written(tasks[t], set)
            /\ excuses'[t] = excuses[t] \cup Shuffles(set)
            /\ slots'[h].pc = IF Has(set, "status") THEN "weigh" ELSE "notify"
            /\ slots'[h].request = slots[h].request /\ slots'[h].was = slots[h].was
            /\ slots'[h].task.row = tasks'[t]
            /\ \A j \in Handlers : j # h => slots'[j] = slots[j]
            /\ following' = Following(t, NewAssignee(slots[h].seen, tasks'[t]))
            /\ following \subseteq following'
            /\ UNCHANGED <<left, told, reminders, reminded>>
<1> USE DEF Shape
<1> DEFINE request == slots[h].request
           t == request.task
           set == request.set
           row == Written(tasks[t], set)
           slot == [pc |-> IF Has(set, "status") THEN "weigh" ELSE "notify",
                    request |-> request, was |-> slots[h].was,
                    task |-> Snapshot(row, t, following')]
<1>1. /\ slots[h].pc = "update" /\ Busy(h) /\ Becomes(h, slot) /\ Live(t)
      /\ tasks' = [tasks EXCEPT ![t] = row]
      /\ following' = Following(t, NewAssignee(slots[h].seen, row)) /\ Excuse(t, Shuffles(set))
      /\ UNCHANGED <<parts, projects, left, Queue0, agenda>>
  BY DEF UpdateWrite, Holds, Busy
<1>2. IsRequest(request) /\ request.kind = "patch"
  BY <1>1 DEF SlotsOK, IsSlot
<1>3. t \in Tasks /\ Of(request) = {t} /\ IsPatch(set)
  BY <1>2, SubjectOf DEF IsRequest
<1>4. row \in Rows /\ row.assignee \in Users \cup {Nobody}
  BY <1>1, <1>3, RowColumns DEF Written, IsPatch, Rows
<1>5. slot.task.row = row /\ slot.task.followers \subseteq Users
  BY DEF Snapshot
<1>6. /\ slot.pc = IF Has(set, "status") THEN "weigh" ELSE "notify"
      /\ slot.request = request /\ slot.was = slots[h].was
  OBVIOUS
<1> HIDE DEF row, slot
<1>7. IsSlot(slot)
  BY <1>2, <1>4, <1>5, <1>6 DEF IsSlot, Answered
<1>8. /\ tasks'[t] = row /\ \A s \in Tasks : s # t => tasks'[s] = tasks[s]
      /\ tasks' \in [Tasks -> Rows \cup {Unborn, Gone}]
  BY <1>1, <1>3, <1>4, OneTask
<1>9. NewAssignee(slots[h].seen, row) \in SUBSET (Users \cup {Nobody})
  BY <1>4 DEF NewAssignee
<1>10. following \subseteq following' /\ following' \subseteq Tasks \X Users
  BY <1>1, <1>3, <1>9, MoreFollow
<1>11. slots'[h] = slot /\ SlotsOK' /\ \A j \in Handlers : j # h => slots'[j] = slots[j]
  BY <1>1, <1>7, SlotMoves
<1>12. \A s \in Tasks : s # t => SameWork(s)
  BY <1>1, <1>3, <1>6, GoesOn
<1>13. Shuffles(set) \in SUBSET Excuses
  BY DEF Shuffles, Excuses
<1>14. /\ excuses' \in [Tasks -> SUBSET Excuses] /\ excuses'[t] = excuses[t] \cup Shuffles(set)
       /\ \A s \in Tasks : excuses[s] \subseteq excuses'[s]
  BY <1>1, <1>3, <1>13, OneExcuse
<1>15. \A s \in Tasks : s # t => Beside(s)
  BY <1>1, <1>8, <1>10, <1>12, <1>14, SameTask DEF Queue0
<1>16. Shape'
  BY <1>1, <1>8, <1>10, <1>11, <1>14 DEF TypeOK, Queue0
<1> QED
  BY <1>1, <1>2, <1>3, <1>4, <1>5, <1>6, <1>8, <1>10, <1>11, <1>14, <1>15, <1>16 DEF Queue0, row

LEMMA StatusWrites ==
  ASSUME Shape, NEW h \in Handlers, StatusWrite(h)
  PROVE  LET t == slots[h].request.task
             set == slots[h].request.set
         IN /\ Shape' /\ t \in Tasks /\ Of(slots[h].request) = {t}
            /\ slots[h].pc = "move" /\ slots[h].request.kind = "patch" /\ set.status \in Statuses
            /\ \A s \in Tasks : s # t => Beside(s)
            /\ Live(t) /\ tasks'[t] \in Rows
            /\ tasks'[t] = Moved(tasks[t], set.status, slots[h].order, slots[h].stamped)
            /\ excuses'[t] = excuses[t] \cup Shuffles(set)
            /\ slots'[h].pc = "notify"
            /\ slots'[h].request = slots[h].request /\ slots'[h].was = slots[h].was
            /\ slots'[h].task.row = tasks'[t]
            /\ \A j \in Handlers : j # h => slots'[j] = slots[j]
            /\ UNCHANGED <<following, left, told, reminders, reminded>>
<1> USE DEF Shape
<1> DEFINE request == slots[h].request
           t == request.task
           set == request.set
           row == Moved(tasks[t], set.status, slots[h].order, slots[h].stamped)
           slot == [pc |-> "notify", request |-> request, was |-> slots[h].was,
                    task |-> Snapshot(row, t, following)]
<1>1. /\ slots[h].pc = "move" /\ Busy(h) /\ Becomes(h, slot) /\ Live(t)
      /\ tasks' = [tasks EXCEPT ![t] = row] /\ Excuse(t, Shuffles(set))
      /\ UNCHANGED <<following, parts, projects, left, Queue0, agenda>>
  BY DEF StatusWrite, Holds, Busy
<1>2. /\ IsRequest(request) /\ request.kind = "patch" /\ Has(set, "status")
      /\ slots[h].order \in Int /\ slots[h].stamped \in BOOLEAN
  BY <1>1 DEF SlotsOK, IsSlot
<1>3. t \in Tasks /\ Of(request) = {t} /\ set.status \in Statuses
  BY <1>2, SubjectOf DEF IsRequest, IsPatch
<1>4. row \in Rows
  BY <1>1, <1>2, <1>3, RowColumns DEF Moved, Rows
<1>5. slot.task.row = row /\ slot.task.followers \subseteq Users
  BY DEF Snapshot
<1>6. slot.pc = "notify" /\ slot.request = request /\ slot.was = slots[h].was
  OBVIOUS
<1> HIDE DEF row, slot
<1>7. IsSlot(slot)
  BY <1>2, <1>4, <1>5, <1>6 DEF IsSlot, Answered
<1>8. /\ tasks'[t] = row /\ \A s \in Tasks : s # t => tasks'[s] = tasks[s]
      /\ tasks' \in [Tasks -> Rows \cup {Unborn, Gone}]
  BY <1>1, <1>3, <1>4, OneTask
<1>9. slots'[h] = slot /\ SlotsOK' /\ \A j \in Handlers : j # h => slots'[j] = slots[j]
  BY <1>1, <1>7, SlotMoves
<1>10. \A s \in Tasks : s # t => SameWork(s)
  BY <1>1, <1>3, <1>6, GoesOn
<1>11. Shuffles(set) \in SUBSET Excuses
  BY DEF Shuffles, Excuses
<1>12. /\ excuses' \in [Tasks -> SUBSET Excuses] /\ excuses'[t] = excuses[t] \cup Shuffles(set)
       /\ \A s \in Tasks : excuses[s] \subseteq excuses'[s]
  BY <1>1, <1>3, <1>11, OneExcuse
<1>13. \A s \in Tasks : s # t => Beside(s)
  BY <1>1, <1>8, <1>10, <1>12, SameTask DEF Queue0
<1>14. Shape'
  BY <1>1, <1>8, <1>9, <1>12 DEF TypeOK, Queue0
<1> QED
  BY <1>1, <1>2, <1>3, <1>4, <1>5, <1>6, <1>8, <1>9, <1>12, <1>13, <1>14 DEF Queue0, row

-----------------------------------------------------------------------------
(* Steps that tell the queue *)

LEMMA OneJob ==
  ASSUME TypeOK, NEW t \in Tasks,
         NEW job \in {NoJob} \cup [state: {"waiting", "active"}, due: Dates, to: SUBSET Users],
         reminders' = [reminders EXCEPT ![t] = job]
  PROVE  /\ reminders'[t] = job /\ \A s \in Tasks : s # t => reminders'[s] = reminders[s]
         /\ reminders' \in [Tasks -> {NoJob} \cup [state: {"waiting", "active"}, due: Dates,
                                                   to: SUBSET Users]]
BY DEF TypeOK

LEMMA NotifySays ==
  ASSUME Shape, NEW h \in Handlers, Notify(h)
  PROVE  LET t == slots[h].request.task
             a == slots[h].task.row.assignee
             named == slots[h].request.kind = "create" \/ Assigns(slots[h].request.set)
         IN /\ Shape' /\ t \in Tasks /\ Of(slots[h].request) = {t} /\ slots[h].pc = "notify"
            /\ \A s \in Tasks : s # t => Beside(s)
            /\ told'[t] = IF named /\ a \notin {Nobody, slots[h].was} THEN a ELSE told[t]
            /\ slots'[h].pc = "cancel"
            /\ slots'[h].request = slots[h].request /\ slots'[h].task = slots[h].task
            /\ \A j \in Handlers : j # h => slots'[j] = slots[j]
            /\ UNCHANGED <<Board0, reminders, reminded, excuses>>
<1> USE DEF Shape
<1> DEFINE request == slots[h].request
           t == request.task
           a == slots[h].task.row.assignee
           named == request.kind = "create" \/ Assigns(request.set)
           slot == At(slots[h], "cancel")
<1>1. /\ slots[h].pc = "notify" /\ Busy(h) /\ Becomes(h, slot)
      /\ told' = IF named /\ a \notin {Nobody, slots[h].was} THEN [told EXCEPT ![t] = a] ELSE told
      /\ UNCHANGED <<Board0, reminders, reminded, agenda, excuses>>
  BY DEF Notify, Holds, Busy
<1>2. /\ IsRequest(request) /\ request.kind \in {"create", "patch"}
      /\ slots[h].task.row \in Rows /\ slots[h].task.followers \subseteq Users
  BY <1>1 DEF SlotsOK, IsSlot, Answered
<1>3. t \in Tasks /\ Of(request) = {t} /\ a \in Users \cup {Nobody}
  BY <1>2, SubjectOf DEF Rows
<1>4. slot.pc = "cancel" /\ slot.request = request /\ slot.task = slots[h].task
  BY DEF At
<1> HIDE DEF slot, named
<1>5. IsSlot(slot)
  BY <1>2, <1>4 DEF IsSlot, Answered
<1>6. slots'[h] = slot /\ SlotsOK' /\ \A j \in Handlers : j # h => slots'[j] = slots[j]
  BY <1>1, <1>5, SlotMoves
<1>7. \A s \in Tasks : s # t => SameWork(s)
  BY <1>1, <1>3, <1>4, GoesOn
<1>8. /\ told' \in [Tasks -> Users \cup {Nobody}]
      /\ told'[t] = IF named /\ a \notin {Nobody, slots[h].was} THEN a ELSE told[t]
      /\ \A s \in Tasks : s # t => told'[s] = told[s]
  BY <1>1, <1>3 DEF TypeOK
<1>9. \A s \in Tasks : s # t => Beside(s)
  BY <1>1, <1>7, <1>8, SameTask DEF Board0
<1>10. Shape'
  BY <1>1, <1>6, <1>8 DEF TypeOK, Board0
<1> QED
  BY <1>1, <1>3, <1>4, <1>6, <1>8, <1>9, <1>10 DEF named

LEMMA CancelSays ==
  ASSUME Shape, NEW h \in Handlers, Cancel(h)
  PROVE  LET t == slots[h].request.task
         IN /\ Shape' /\ t \in Tasks /\ Of(slots[h].request) = {t} /\ slots[h].pc = "cancel"
            /\ \A s \in Tasks : s # t => Beside(s)
            /\ reminders'[t] = Withdrawn(t) /\ excuses[t] \subseteq excuses'[t]
            /\ reminders[t].state = "active" => "active" \in excuses'[t]
            /\ IF NeedsReminder(slots[h].task.row)
               THEN /\ slots'[h].pc = "remind" /\ slots'[h].request = slots[h].request
                    /\ slots'[h].task = slots[h].task
               ELSE slots'[h].pc = "idle"
            /\ \A j \in Handlers : j # h => slots'[j] = slots[j]
            /\ UNCHANGED <<Board0, told, reminded>>
<1> USE DEF Shape
<1> DEFINE request == slots[h].request
           t == request.task
           slot == IF NeedsReminder(slots[h].task.row) THEN At(slots[h], "remind") ELSE Idle
           what == IF reminders[t].state = "active" THEN {"active"} ELSE {}
<1>1. /\ slots[h].pc = "cancel" /\ Busy(h) /\ Becomes(h, slot)
      /\ reminders' = [reminders EXCEPT ![t] = Withdrawn(t)] /\ Excuse(t, what)
      /\ UNCHANGED <<Board0, told, reminded, agenda>>
  BY DEF Cancel, Holds, Busy
<1>2. /\ IsRequest(request) /\ request.kind \in {"create", "patch"}
      /\ slots[h].task.row \in Rows /\ slots[h].task.followers \subseteq Users
  BY <1>1 DEF SlotsOK, IsSlot, Answered
<1>3. t \in Tasks /\ Of(request) = {t}
  BY <1>2, SubjectOf
<1>4. IF NeedsReminder(slots[h].task.row)
      THEN slot.pc = "remind" /\ slot.request = request /\ slot.task = slots[h].task
      ELSE slot = Idle /\ slot.pc = "idle"
  BY DEF At, Idle
<1>5. what \in SUBSET Excuses /\ (reminders[t].state = "active" => "active" \in what)
  BY DEF Excuses
<1>6. Withdrawn(t) \in {NoJob} \cup [state: {"waiting", "active"}, due: Dates, to: SUBSET Users]
  BY <1>3 DEF TypeOK, Withdrawn
<1> HIDE DEF slot, what
<1>7. IsSlot(slot)
  BY <1>2, <1>4 DEF IsSlot, Answered
<1>8. slots'[h] = slot /\ SlotsOK' /\ \A j \in Handlers : j # h => slots'[j] = slots[j]
  BY <1>1, <1>7, SlotMoves
<1>9. \A s \in Tasks : s # t => SameWork(s)
  <2>1. slot = Idle \/ (slot.pc # "idle" /\ slot.request = request)
    BY <1>4
  <2> QED
    BY <1>1, <1>3, <2>1, GoesOn
<1>10. /\ reminders'[t] = Withdrawn(t) /\ \A s \in Tasks : s # t => reminders'[s] = reminders[s]
       /\ reminders' \in [Tasks -> {NoJob} \cup [state: {"waiting", "active"}, due: Dates,
                                                 to: SUBSET Users]]
  BY <1>1, <1>3, <1>6, OneJob
<1>11. /\ excuses' \in [Tasks -> SUBSET Excuses] /\ excuses'[t] = excuses[t] \cup what
       /\ \A s \in Tasks : excuses[s] \subseteq excuses'[s]
  BY <1>1, <1>3, <1>5, OneExcuse
<1>12. \A s \in Tasks : s # t => Beside(s)
  BY <1>1, <1>9, <1>10, <1>11, SameTask DEF Board0
<1>13. Shape'
  BY <1>1, <1>8, <1>10, <1>11 DEF TypeOK, Board0
<1> QED
  BY <1>1, <1>3, <1>4, <1>5, <1>8, <1>10, <1>11, <1>12, <1>13

LEMMA RemindSays ==
  ASSUME Shape, NEW h \in Handlers, Remind(h)
  PROVE  LET t == slots[h].request.task
         IN /\ Shape' /\ t \in Tasks /\ Of(slots[h].request) = {t} /\ slots[h].pc = "remind"
            /\ \A s \in Tasks : s # t => Beside(s)
            /\ NeedsReminder(slots[h].task.row)
            /\ IF reminders[t] = NoJob
               THEN /\ reminders'[t].state = "waiting"
                    /\ reminders'[t].due = slots[h].task.row.due
               ELSE reminders'[t] = reminders[t]
            /\ slots'[h].pc = "idle"
            /\ \A j \in Handlers : j # h => slots'[j] = slots[j]
            /\ UNCHANGED <<Board0, told, reminded, excuses>>
<1> USE DEF Shape
<1> DEFINE request == slots[h].request
           t == request.task
           task == slots[h].task
           job == [state |-> "waiting", due |-> task.row.due,
                   to |-> task.followers \cup ({task.row.assignee, task.row.creator} \ {Nobody})]
           new == IF reminders[t] = NoJob THEN job ELSE reminders[t]
<1>1. /\ slots[h].pc = "remind" /\ Busy(h) /\ Becomes(h, Idle)
      /\ reminders' = IF reminders[t] = NoJob THEN [reminders EXCEPT ![t] = job] ELSE reminders
      /\ UNCHANGED <<Board0, told, reminded, agenda, excuses>>
  BY DEF Remind, Holds, Busy
<1>2. /\ IsRequest(request) /\ request.kind \in {"create", "patch"} /\ NeedsReminder(task.row)
      /\ task.row \in Rows /\ task.followers \subseteq Users
  BY <1>1 DEF SlotsOK, IsSlot, Answered
<1>3. t \in Tasks /\ Of(request) = {t}
  BY <1>2, SubjectOf
<1>4. job \in [state: {"waiting", "active"}, due: Dates, to: SUBSET Users]
  <2>1. task.row.due \in Dates /\ task.row.assignee \in Users \cup {Nobody} /\ task.row.creator \in Users
    BY <1>2 DEF Rows, NeedsReminder
  <2> QED
    BY <1>2, <2>1
<1>5. job.state = "waiting" /\ job.due = task.row.due
  OBVIOUS
<1> HIDE DEF job
<1>6. reminders' = [reminders EXCEPT ![t] = new]
  BY <1>1, <1>3 DEF TypeOK
<1>7. new \in {NoJob} \cup [state: {"waiting", "active"}, due: Dates, to: SUBSET Users]
  BY <1>3, <1>4 DEF TypeOK
<1>8. /\ reminders'[t] = new /\ \A s \in Tasks : s # t => reminders'[s] = reminders[s]
      /\ reminders' \in [Tasks -> {NoJob} \cup [state: {"waiting", "active"}, due: Dates,
                                                to: SUBSET Users]]
  <2> HIDE DEF new
  <2> QED
    BY <1>3, <1>6, <1>7, OneJob
<1>9. Idle.pc = "idle" /\ IsSlot(Idle)
  BY DEF IsSlot, Answered, Idle
<1>10. slots'[h] = Idle /\ SlotsOK' /\ \A j \in Handlers : j # h => slots'[j] = slots[j]
  BY <1>1, <1>9, SlotMoves
<1>11. \A s \in Tasks : s # t => SameWork(s)
  BY <1>1, <1>3, GoesOn
<1>12. \A s \in Tasks : s # t => Beside(s)
  BY <1>1, <1>8, <1>11, SameTask DEF Board0
<1>13. Shape'
  BY <1>1, <1>8, <1>10 DEF TypeOK, Board0
<1> QED
  BY <1>1, <1>2, <1>3, <1>5, <1>8, <1>9, <1>10, <1>12, <1>13

LEMMA DropCancels ==
  ASSUME Shape, NEW h \in Handlers, DropCancel(h)
  PROVE  LET t == slots[h].request.task
         IN /\ Shape' /\ t \in Tasks /\ Of(slots[h].request) = {t} /\ slots[h].pc = "forget"
            /\ \A s \in Tasks : s # t => Beside(s)
            /\ reminders'[t] = Withdrawn(t) /\ excuses[t] \subseteq excuses'[t]
            /\ reminders[t].state = "active" => "active" \in excuses'[t]
            /\ slots'[h].pc = "idle"
            /\ \A j \in Handlers : j # h => slots'[j] = slots[j]
            /\ UNCHANGED <<Board0, told, reminded>>
<1> USE DEF Shape
<1> DEFINE request == slots[h].request
           t == request.task
           what == IF reminders[t].state = "active" THEN {"active"} ELSE {}
<1>1. /\ slots[h].pc = "forget" /\ Busy(h) /\ Becomes(h, Idle)
      /\ reminders' = [reminders EXCEPT ![t] = Withdrawn(t)] /\ Excuse(t, what)
      /\ UNCHANGED <<Board0, told, reminded, agenda>>
  BY DEF DropCancel, Holds, Busy
<1>2. IsRequest(request) /\ request.kind = "drop"
  BY <1>1 DEF SlotsOK, IsSlot
<1>3. t \in Tasks /\ Of(request) = {t}
  BY <1>2, SubjectOf
<1>4. Idle.pc = "idle" /\ IsSlot(Idle)
  BY DEF IsSlot, Answered, Idle
<1>5. what \in SUBSET Excuses /\ (reminders[t].state = "active" => "active" \in what)
  BY DEF Excuses
<1>6. Withdrawn(t) \in {NoJob} \cup [state: {"waiting", "active"}, due: Dates, to: SUBSET Users]
  BY <1>3 DEF TypeOK, Withdrawn
<1> HIDE DEF what
<1>7. slots'[h] = Idle /\ SlotsOK' /\ \A j \in Handlers : j # h => slots'[j] = slots[j]
  BY <1>1, <1>4, SlotMoves
<1>8. \A s \in Tasks : s # t => SameWork(s)
  BY <1>1, <1>3, GoesOn
<1>9. /\ reminders'[t] = Withdrawn(t) /\ \A s \in Tasks : s # t => reminders'[s] = reminders[s]
      /\ reminders' \in [Tasks -> {NoJob} \cup [state: {"waiting", "active"}, due: Dates,
                                                to: SUBSET Users]]
  BY <1>1, <1>3, <1>6, OneJob
<1>10. /\ excuses' \in [Tasks -> SUBSET Excuses] /\ excuses'[t] = excuses[t] \cup what
       /\ \A s \in Tasks : excuses[s] \subseteq excuses'[s]
  BY <1>1, <1>3, <1>5, OneExcuse
<1>11. \A s \in Tasks : s # t => Beside(s)
  BY <1>1, <1>8, <1>9, <1>10, SameTask DEF Board0
<1>12. Shape'
  BY <1>1, <1>7, <1>9, <1>10 DEF TypeOK, Board0
<1> QED
  BY <1>1, <1>3, <1>4, <1>5, <1>7, <1>9, <1>10, <1>11, <1>12

-----------------------------------------------------------------------------
(* Steps that take tasks away, and steps of one transaction *)

LEMMA Cascades ==
  ASSUME TypeOK, NEW dead \in SUBSET Tasks, NEW rows, NEW follow, NEW rest,
         rows = [t \in Tasks |-> IF t \in dead THEN Gone ELSE tasks[t]],
         follow = {f \in following : f[1] \notin dead},
         rest = [p \in Parts |-> IF parts[p].status = "live" /\ parts[p].task \in dead
                                 THEN Gone ELSE parts[p]]
  PROVE  /\ rows \in [Tasks -> Rows \cup {Unborn, Gone}]
         /\ follow \subseteq Tasks \X Users
         /\ \A t \in Tasks \ dead, u \in Users : <<t, u>> \in following => <<t, u>> \in follow
         /\ rest \in [Parts -> {Unborn, Gone} \cup [status: {"live"}, task: Tasks, by: Users,
                                                   done: BOOLEAN]]
BY DEF TypeOK

LEMMA Drops ==
  ASSUME Shape, NEW h \in Handlers, NEW request \in agenda, Drop(h, request)
  PROVE  LET t == request.task
         IN /\ Shape' /\ t \in Tasks /\ Of(request) = {t}
            /\ \A s \in Tasks : s # t => Beside(s)
            /\ tasks'[t] = Gone /\ excuses[t] \subseteq excuses'[t]
            /\ Take(h, request, slots'[h]) /\ slots'[h].pc = "forget"
            /\ slots'[h].request = request
            /\ \A j \in Handlers : j # h => slots'[j] = slots[j]
<1> USE DEF Shape
<1> DEFINE t == request.task
           slot == [pc |-> "forget", request |-> request]
<1>1. /\ request.kind = "drop" /\ Take(h, request, slot) /\ Without({t})
      /\ UNCHANGED <<projects, left, Queue0>>
  BY DEF Drop
<1>2. IsRequest(request) /\ t \in Tasks /\ Of(request) = {t}
  BY <1>1, SubjectOf
<1>3. slot.pc = "forget" /\ slot.request = request /\ IsSlot(slot)
  BY <1>1, <1>2 DEF IsSlot, Answered
<1> HIDE DEF slot
<1>4. /\ \A s \in Tasks : s # t => SameWork(s)
      /\ excuses' \in [Tasks -> SUBSET Excuses]
      /\ \A s \in Tasks : excuses[s] \subseteq excuses'[s]
      /\ slots'[h] = slot /\ \A j \in Handlers : j # h => slots'[j] = slots[j]
  BY <1>1, <1>2, <1>3, TakesUp
<1>5. SlotsOK' /\ agenda' \subseteq agenda
  BY <1>1, <1>3, SlotMoves DEF Take
<1> DEFINE dead == {t}
<1>6. /\ tasks' = [s \in Tasks |-> IF s \in dead THEN Gone ELSE tasks[s]]
      /\ following' = {f \in following : f[1] \notin dead}
      /\ parts' = [p \in Parts |-> IF parts[p].status = "live" /\ parts[p].task \in dead
                                   THEN Gone ELSE parts[p]]
  BY <1>1 DEF Without
<1>7. /\ tasks' \in [Tasks -> Rows \cup {Unborn, Gone}] /\ following' \subseteq Tasks \X Users
      /\ \A s \in Tasks \ dead, u \in Users : <<s, u>> \in following => <<s, u>> \in following'
      /\ parts' \in [Parts -> {Unborn, Gone} \cup [status: {"live"}, task: Tasks, by: Users,
                                                   done: BOOLEAN]]
  <2>1. dead \in SUBSET Tasks
    BY <1>2
  <2> HIDE DEF dead
  <2> QED
    BY <1>6, <2>1, Cascades
<1>8. tasks'[t] = Gone /\ \A s \in Tasks : s # t => tasks'[s] = tasks[s]
  BY <1>2, <1>6
<1>9. \A s \in Tasks : s # t => Beside(s)
  BY <1>1, <1>4, <1>7, <1>8, SameTask DEF Queue0
<1>10. Shape'
  BY <1>1, <1>4, <1>5, <1>7 DEF TypeOK, Queue0
<1> QED
  BY <1>1, <1>2, <1>3, <1>4, <1>8, <1>9, <1>10

(* The foreign key that is set to null. *)
LEMMA ComeLoose ==
  ASSUME NEW rows \in [Tasks -> Rows \cup {Unborn, Gone}], NEW p, NEW t \in Tasks
  PROVE  /\ Loose(rows, p)[t] \in Rows \cup {Unborn, Gone}
         /\ Loose(rows, p)[t].status \in Statuses <=> rows[t].status \in Statuses
         /\ rows[t].status \in Statuses =>
              /\ Loose(rows, p)[t].status = rows[t].status /\ Loose(rows, p)[t].order = rows[t].order
              /\ Loose(rows, p)[t].due = rows[t].due
              /\ Loose(rows, p)[t].assignee = rows[t].assignee
              /\ rows[t].project \notin p => Loose(rows, p)[t].project = rows[t].project
         /\ rows[t].status \notin Statuses => Loose(rows, p)[t] = rows[t]
<1>1. Loose(rows, p)[t] = IF rows[t].status \in Statuses /\ rows[t].project \in p
                          THEN [rows[t] EXCEPT !.project = NoProject] ELSE rows[t]
  BY DEF Loose
<1>2. CASE rows[t].status \in Statuses
  <2>1. rows[t] \in Rows
    BY <1>2 DEF Statuses, Unborn, Gone
  <2>2. NoProject \in Groups
    BY DEF Groups
  <2>3. [rows[t] EXCEPT !.project = NoProject] \in Rows
    BY <2>1, <2>2 DEF Rows
  <2> QED
    BY <1>1, <1>2, <2>1, <2>3 DEF Rows
<1>3. CASE rows[t].status \notin Statuses
  BY <1>1, <1>3
<1> QED
  BY <1>2, <1>3

LEMMA WipeCommits ==
  ASSUME Shape, NEW h \in Handlers, WipeCommit(h)
  PROVE  /\ Shape' /\ \A t \in Tasks : Beside(t)
         /\ Busy(h) /\ slots'[h].pc = "idle" /\ Of(slots[h].request) = {}
         /\ \A j \in Handlers : j # h => slots'[j] = slots[j]
<1> USE DEF Shape
<1> DEFINE dead == slots[h].doomed
           kept == [t \in Tasks |-> IF t \in dead THEN Gone ELSE tasks[t]]
<1>1. /\ slots[h].pc = "wipe" /\ Busy(h) /\ Becomes(h, Idle)
      /\ tasks' = Loose(kept, Projects)
      /\ following' = {f \in following : f[1] \notin dead}
      /\ parts' = [p \in Parts |-> IF parts[p].status = "live" /\ parts[p].task \in dead
                                   THEN Gone ELSE parts[p]]
      /\ excuses' = [t \in Tasks |-> excuses[t] \cup
           IF t \in dead THEN {"wiped"} ELSE IF Live(t) THEN {"moved"} ELSE {}]
      /\ projects' = [p \in Projects |-> IF projects[p] \in {"open", "archived"} THEN "gone"
                                         ELSE projects[p]]
      /\ UNCHANGED <<left, Queue0, agenda>>
  BY DEF WipeCommit, Holds, Busy
<1>2. IsRequest(slots[h].request) /\ slots[h].request.kind = "wipe" /\ dead \in SUBSET Tasks
  BY <1>1 DEF SlotsOK, IsSlot
<1>3. Of(slots[h].request) = {}
  BY <1>2, NoSubject
<1>4. Idle.pc = "idle" /\ IsSlot(Idle)
  BY DEF IsSlot, Answered, Idle
<1>5. slots'[h] = Idle /\ SlotsOK' /\ \A j \in Handlers : j # h => slots'[j] = slots[j]
  BY <1>1, <1>4, SlotMoves
<1>6. \A t \in Tasks : SameWork(t)
  BY <1>1, <1>3, GoesOn
<1>7. /\ kept \in [Tasks -> Rows \cup {Unborn, Gone}] /\ following' \subseteq Tasks \X Users
      /\ \A s \in Tasks \ dead, u \in Users : <<s, u>> \in following => <<s, u>> \in following'
      /\ parts' \in [Parts -> {Unborn, Gone} \cup [status: {"live"}, task: Tasks, by: Users,
                                                   done: BOOLEAN]]
  <2> HIDE DEF dead
  <2> QED
    BY <1>1, <1>2, Cascades
<1>8. /\ excuses' \in [Tasks -> SUBSET Excuses]
      /\ \A t \in Tasks : /\ excuses[t] \subseteq excuses'[t] /\ (t \in dead => "wiped" \in excuses'[t])
                          /\ t \notin dead /\ Live(t) => "moved" \in excuses'[t]
  BY <1>1 DEF Excuses
<1>9. tasks' \in [Tasks -> Rows \cup {Unborn, Gone}]
  BY <1>1, <1>7, ComeLoose DEF Loose
<1>10. \A t \in Tasks : t \in dead => tasks'[t] = Gone
  BY <1>1, <1>7, ComeLoose, SMTT(20) DEF Gone, Statuses
<1>12. ASSUME NEW t \in Tasks
       PROVE  Untouched(t)
  <2>1. CASE t \in dead
    BY <1>8, <1>10, <2>1 DEF Untouched, Live, Gone, Statuses
  <2>2. CASE t \notin dead
    <3>1. kept[t] = tasks[t]
      BY <2>2
    <3> QED
      BY <1>1, <1>7, <1>8, <2>2, <3>1, ComeLoose DEF Untouched, Live
  <2> QED
    BY <2>1, <2>2
<1>13. ASSUME NEW t \in Tasks, Live(t)', NEW u \in Users, <<t, u>> \in following \cup left
       PROVE  <<t, u>> \in following' \cup left'
  <2>1. t \notin dead
    BY <1>10, <1>13 DEF Live, Gone, Statuses
  <2> QED
    BY <1>1, <1>7, <1>13, <2>1
<1>14. \A t \in Tasks : Beside(t)
  BY <1>1, <1>6, <1>8, <1>12, <1>13 DEF Beside, Queue0
<1>15. Shape'
  BY <1>1, <1>5, <1>7, <1>8, <1>9 DEF TypeOK, Queue0
<1> QED
  BY <1>1, <1>3, <1>4, <1>5, <1>14, <1>15

LEMMA Fails ==
  ASSUME Shape, NEW h \in Handlers, Fail(h)
  PROVE  /\ Shape' /\ \A t \in Tasks : t \notin Of(slots[h].request) => Beside(t)
         /\ \A t \in Tasks : t \in Of(slots[h].request) => "failed" \in excuses'[t]
         /\ \A t \in Tasks : excuses[t] \subseteq excuses'[t]
         /\ Busy(h) /\ slots'[h].pc = "idle"
         /\ \A j \in Handlers : j # h => slots'[j] = slots[j]
         /\ UNCHANGED <<Board0, Queue0>>
<1> USE DEF Shape
<1>1. /\ Busy(h) /\ Becomes(h, Idle) /\ UNCHANGED <<Board0, Queue0, agenda>>
      /\ excuses' = [t \in Tasks |-> excuses[t] \cup
                       IF t \in Of(slots[h].request) THEN {"failed"} ELSE {}]
  BY DEF Fail
<1>2. Idle.pc = "idle" /\ IsSlot(Idle)
  BY DEF IsSlot, Answered, Idle
<1>3. slots'[h] = Idle /\ SlotsOK' /\ \A j \in Handlers : j # h => slots'[j] = slots[j]
  BY <1>1, <1>2, SlotMoves
<1>4. \A t \in Tasks : t \notin Of(slots[h].request) => SameWork(t)
  BY <1>1, GoesOn
<1>5. /\ excuses' \in [Tasks -> SUBSET Excuses] /\ \A t \in Tasks : excuses[t] \subseteq excuses'[t]
      /\ \A t \in Tasks : t \in Of(slots[h].request) => "failed" \in excuses'[t]
  BY <1>1 DEF Excuses
<1>6. Shape'
  BY <1>1, <1>3, <1>5, TypesStay
<1> QED
  BY <1>1, <1>2, <1>3, <1>4, <1>5, <1>6, NothingElse

LEMMA StillAtWork ==
  ASSUME slots' = slots
  PROVE  \A t \in Tasks : SameWork(t)
BY DEF SameWork, Works, Busy, Holds

LEMMA OneSteps ==
  ASSUME Shape, NEW request \in agenda, OneStep(request)
  PROVE  /\ Shape' /\ \A t \in Tasks : Beside(t)
         /\ UNCHANGED slots
<1> USE DEF Shape
<1>1. IsRequest(request)
  OBVIOUS
<1>2. UNCHANGED <<slots, Queue0>> /\ agenda' \subseteq agenda
  BY DEF OneStep, Follow, Unfollow, Comment, AddSubtask, CheckSubtask, RemovePart, SaveProject,
         DropProject, Once
<1>3. SlotsOK' /\ \A t \in Tasks : SameWork(t)
  BY <1>2, StillAtWork DEF SlotsOK
<1>4. TypeOK' /\ \A t \in Tasks : Beside(t) /\ excuses' \in [Tasks -> SUBSET Excuses]
  <2>1. CASE tasks' = tasks /\ excuses' = excuses
    <3>1. CASE Follow(request)
      <4>1. /\ request.task \in Tasks /\ request.user \in Users
            /\ following' = Following(request.task, {request.user})
            /\ UNCHANGED <<tasks, parts, projects, excuses, left>>
        BY <1>1, <3>1, SubjectOf DEF Follow, AddFollower, IsRequest
      <4>2. following \subseteq following' /\ following' \subseteq Tasks \X Users
        BY <4>1, MoreFollow
      <4> QED
        BY <1>2, <1>3, <4>1, <4>2, SameTask DEF TypeOK, Queue0
    <3>2. CASE Unfollow(request)
      <4>1. /\ following' = following \ {<<request.task, request.user>>}
            /\ left' = left \cup {<<request.task, request.user>>}
            /\ UNCHANGED <<tasks, parts, projects, excuses>>
        BY <3>2 DEF Unfollow, RemoveFollower
      <4>2. following \cup left \subseteq following' \cup left' /\ following' \subseteq Tasks \X Users
        BY <4>1 DEF TypeOK
      <4> QED
        BY <1>2, <1>3, <4>1, <4>2, SameTask DEF TypeOK, Queue0
    <3>3. CASE Comment(request)
      <4>1. /\ request.task \in Tasks /\ request.by \in Users
            /\ following' = Following(request.task, {request.by})
            /\ parts' = [parts EXCEPT ![request.part] =
                 [status |-> "live", task |-> request.task, by |-> request.by, done |-> FALSE]]
            /\ UNCHANGED <<tasks, projects, excuses, left>>
        BY <1>1, <3>3, SubjectOf DEF Comment, IsRequest
      <4>2. following \subseteq following' /\ following' \subseteq Tasks \X Users
        BY <4>1, MoreFollow
      <4> QED
        BY <1>2, <1>3, <4>1, <4>2, SameTask DEF TypeOK, Queue0
    <3>4. CASE AddSubtask(request)
      <4>1. /\ request.task \in Tasks /\ request.by \in Users
            /\ parts' = [parts EXCEPT ![request.part] =
                 [status |-> "live", task |-> request.task, by |-> request.by, done |-> FALSE]]
            /\ UNCHANGED <<tasks, following, projects, excuses, left>>
        BY <1>1, <3>4, SubjectOf DEF AddSubtask, IsRequest
      <4> QED
        BY <1>2, <1>3, <4>1, SameTask DEF TypeOK, Queue0
    <3>5. CASE CheckSubtask(request)
      <4>1. /\ request.part \in Parts /\ request.done \in BOOLEAN
            /\ parts[request.part].status = "live"
            /\ parts' = [parts EXCEPT ![request.part] =
                 [status |-> "live", task |-> @.task, by |-> @.by, done |-> request.done]]
            /\ UNCHANGED <<tasks, following, projects, excuses, left>>
        BY <1>1, <3>5 DEF CheckSubtask, IsRequest, HasPart
      <4>2. parts[request.part] \in [status: {"live"}, task: Tasks, by: Users, done: BOOLEAN]
        BY <4>1 DEF TypeOK, Unborn, Gone
      <4>3. parts' \in [Parts -> {Unborn, Gone} \cup [status: {"live"}, task: Tasks, by: Users,
                                                      done: BOOLEAN]]
        BY <4>1, <4>2 DEF TypeOK
      <4> QED
        BY <1>2, <1>3, <4>1, <4>3, SameTask DEF TypeOK, Queue0
    <3>6. CASE RemovePart(request)
      <4>1. /\ request.part \in Parts /\ parts' = [parts EXCEPT ![request.part] = Gone]
            /\ UNCHANGED <<tasks, following, projects, excuses, left>>
        BY <1>1, <3>6 DEF RemovePart, IsRequest
      <4> QED
        BY <1>2, <1>3, <4>1, SameTask DEF TypeOK, Queue0
    <3>7. CASE SaveProject(request)
      <4>1. /\ request.project \in Projects /\ request.state \in {"open", "archived"}
            /\ projects' = [projects EXCEPT ![request.project] = request.state]
            /\ UNCHANGED <<tasks, following, parts, excuses, left>>
        BY <1>1, <3>7 DEF SaveProject, StoreProject, IsRequest
      <4> QED
        BY <1>2, <1>3, <4>1, SameTask DEF TypeOK, Queue0
    <3>8. CASE DropProject(request)
      <4>1. /\ request.project \in Projects
            /\ projects' = [projects EXCEPT ![request.project] = "gone"]
            /\ UNCHANGED <<following, parts, left>>
        BY <1>1, <3>8 DEF DropProject, IsRequest
      <4> QED
        BY <1>2, <1>3, <2>1, <4>1, SameTask DEF TypeOK, Queue0
    <3> QED
      BY <3>1, <3>2, <3>3, <3>4, <3>5, <3>6, <3>7, <3>8 DEF OneStep
  <2>2. CASE DropProject(request)
    <3>1. /\ request.project \in Projects
          /\ projects' = [projects EXCEPT ![request.project] = "gone"]
          /\ tasks' = Loose(tasks, {request.project})
          /\ excuses' = [t \in Tasks |-> excuses[t] \cup
                           IF Live(t) /\ tasks[t].project = request.project THEN {"moved"} ELSE {}]
          /\ UNCHANGED <<following, parts, left>>
      BY <1>1, <2>2 DEF DropProject, IsRequest
    <3>2. tasks \in [Tasks -> Rows \cup {Unborn, Gone}]
      BY DEF TypeOK
    <3>3. tasks' \in [Tasks -> Rows \cup {Unborn, Gone}]
      <4>1. \A t \in Tasks : Loose(tasks, {request.project})[t] \in Rows \cup {Unborn, Gone}
        BY <3>2, ComeLoose
      <4> QED
        BY <3>1, <4>1 DEF Loose
    <3>4. /\ excuses' \in [Tasks -> SUBSET Excuses]
          /\ \A t \in Tasks : /\ excuses[t] \subseteq excuses'[t]
                              /\ Live(t) /\ tasks[t].project = request.project => "moved" \in excuses'[t]
      BY <3>1 DEF Excuses
    <3>5. \A t \in Tasks : Untouched(t)
      BY <3>1, <3>2, <3>4, ComeLoose DEF Untouched, Live
    <3> QED
      BY <1>2, <1>3, <3>1, <3>3, <3>4, <3>5 DEF TypeOK, Queue0, Beside
  <2> QED
    BY <2>1, <2>2 DEF OneStep, Follow, Unfollow, Comment, AddSubtask, CheckSubtask, RemovePart,
                      SaveProject
<1>5. excuses' \in [Tasks -> SUBSET Excuses]
  BY DEF OneStep, Follow, Unfollow, Comment, AddSubtask, CheckSubtask, RemovePart, SaveProject,
         DropProject, Excuses
<1> QED
  BY <1>2, <1>3, <1>4, <1>5

(* The worker. *)
LEMMA WorkerWorks ==
  ASSUME Shape, NEW t \in Tasks, WorkerTakes(t) \/ WorkerDelivers(t)
  PROVE  /\ Shape' /\ \A s \in Tasks : s # t => Beside(s)
         /\ UNCHANGED <<Board0, told, slots, excuses>>
         /\ \/ /\ reminders[t].state = "waiting" /\ reminders'[t].state = "active"
               /\ reminders'[t].due = reminders[t].due /\ reminded' = reminded
            \/ /\ reminders[t].state = "active" /\ reminders'[t] = NoJob
               /\ reminded'[t] = reminders[t].due
<1> USE DEF Shape
<1>1. UNCHANGED <<Board0, told, slots, agenda, excuses>>
  BY DEF WorkerTakes, WorkerDelivers
<1>2. SlotsOK' /\ \A s \in Tasks : SameWork(s)
  BY <1>1, StillAtWork DEF SlotsOK
<1>3. CASE WorkerTakes(t)
  <2>1. /\ reminders[t].state = "waiting" /\ reminded' = reminded
        /\ reminders' = [reminders EXCEPT ![t] = [state |-> "active", due |-> @.due, to |-> @.to]]
    BY <1>3 DEF WorkerTakes
  <2> DEFINE job == [state |-> "active", due |-> reminders[t].due, to |-> reminders[t].to]
  <2>2. reminders[t] \in [state: {"waiting", "active"}, due: Dates, to: SUBSET Users]
    BY <2>1 DEF TypeOK, NoJob
  <2>3. job \in [state: {"waiting", "active"}, due: Dates, to: SUBSET Users]
    BY <2>2
  <2>4. reminders' = [reminders EXCEPT ![t] = job]
    BY <2>1
  <2>5. /\ reminders'[t] = job /\ \A s \in Tasks : s # t => reminders'[s] = reminders[s]
        /\ reminders' \in [Tasks -> {NoJob} \cup [state: {"waiting", "active"}, due: Dates,
                                                  to: SUBSET Users]]
    <3> HIDE DEF job
    <3> QED
      BY <2>3, <2>4, OneJob
  <2>6. \A s \in Tasks : s # t => Beside(s)
    BY <1>1, <1>2, <2>1, <2>5, SameTask DEF Board0
  <2>7. Shape'
    BY <1>1, <1>2, <2>1, <2>5 DEF TypeOK, Board0
  <2> QED
    BY <1>1, <2>1, <2>5, <2>6, <2>7
<1>4. CASE WorkerDelivers(t)
  <2>1. /\ reminders[t].state = "active" /\ reminded' = [reminded EXCEPT ![t] = reminders[t].due]
        /\ reminders' = [reminders EXCEPT ![t] = NoJob]
    BY <1>4 DEF WorkerDelivers
  <2>2. reminders[t] \in [state: {"waiting", "active"}, due: Dates, to: SUBSET Users]
    BY <2>1 DEF TypeOK, NoJob
  <2>3. /\ reminders'[t] = NoJob /\ \A s \in Tasks : s # t => reminders'[s] = reminders[s]
        /\ reminders' \in [Tasks -> {NoJob} \cup [state: {"waiting", "active"}, due: Dates,
                                                  to: SUBSET Users]]
    BY <2>1, OneJob
  <2>4. /\ reminded' \in [Tasks -> Dates \cup {NoDate}] /\ reminded'[t] = reminders[t].due
        /\ \A s \in Tasks : s # t => reminded'[s] = reminded[s]
    BY <2>1, <2>2 DEF TypeOK
  <2>5. \A s \in Tasks : s # t => Beside(s)
    BY <1>1, <1>2, <2>3, <2>4, SameTask DEF Board0
  <2>6. Shape'
    BY <1>1, <1>2, <2>3, <2>4 DEF TypeOK, Board0
  <2> QED
    BY <1>1, <2>1, <2>3, <2>4, <2>5, <2>6
<1> QED
  BY <1>3, <1>4

-----------------------------------------------------------------------------
(* Types *)

LEMMA InitShape ==
  ASSUME Init
  PROVE  /\ Shape /\ (\A h \in Handlers : ~ Busy(h))
         /\ \A t \in Tasks : excuses[t] = {}
<1>1. PICK scenario \in Agendas : Seeded(scenario)
  BY DEF Init
<1> DEFINE seeds == scenario.seeds
<1>2. /\ DOMAIN seeds \subseteq Tasks /\ \A t \in DOMAIN seeds : seeds[t] \in Rows
      /\ \A request \in scenario.agenda : IsRequest(request)
  BY BoardAssumption, <1>1 DEF IsScenario
<1>3. \A t \in DOMAIN seeds : /\ seeds[t].creator \in Users
                              /\ seeds[t].assignee \in Users \cup {Nobody}
                              /\ seeds[t].due \in Dates \cup {NoDate}
  BY <1>2 DEF Rows
<1> HIDE DEF seeds
<1>4. /\ tasks = [t \in Tasks |-> IF t \in DOMAIN seeds THEN seeds[t] ELSE Unborn]
      /\ following = {f \in (DOMAIN seeds) \X Users :
                        f[2] \in {seeds[f[1]].creator, seeds[f[1]].assignee}}
      /\ projects = [p \in Projects |-> IF p \in scenario.projects THEN "open" ELSE "unborn"]
      /\ told = [t \in Tasks |-> IF t \in DOMAIN seeds THEN seeds[t].assignee ELSE Nobody]
      /\ reminders = [t \in Tasks |->
           IF t \in DOMAIN seeds /\ NeedsReminder(seeds[t])
           THEN [state |-> "waiting", due |-> seeds[t].due,
                 to |-> {seeds[t].creator, seeds[t].assignee} \ {Nobody}]
           ELSE NoJob]
      /\ agenda = scenario.agenda
  BY <1>1 DEF Seeded, seeds
<1>5. /\ parts = [p \in Parts |-> Unborn] /\ reminded = [t \in Tasks |-> NoDate]
      /\ slots = [h \in Handlers |-> Idle] /\ excuses = [t \in Tasks |-> {}]
  BY DEF Init
<1>6. tasks \in [Tasks -> Rows \cup {Unborn, Gone}] /\ following \subseteq Tasks \X Users
  BY <1>2, <1>4
<1>7. /\ projects \in [Projects -> {"unborn", "open", "archived", "gone"}]
      /\ told \in [Tasks -> Users \cup {Nobody}]
      /\ reminded \in [Tasks -> Dates \cup {NoDate}]
      /\ parts \in [Parts -> {Unborn, Gone} \cup [status: {"live"}, task: Tasks, by: Users, done: BOOLEAN]]
  BY <1>3, <1>4, <1>5
<1>8. reminders \in [Tasks -> {NoJob} \cup [state: {"waiting", "active"}, due: Dates, to: SUBSET Users]]
  <2>1. ASSUME NEW t \in Tasks
        PROVE  reminders[t] \in {NoJob} \cup [state: {"waiting", "active"}, due: Dates, to: SUBSET Users]
    <3>1. CASE t \in DOMAIN seeds /\ NeedsReminder(seeds[t])
      <4>1. seeds[t].due \in Dates
        BY <1>3, <3>1 DEF NeedsReminder
      <4>2. {seeds[t].creator, seeds[t].assignee} \ {Nobody} \subseteq Users
        BY <1>3, <3>1
      <4>3. reminders[t] = [state |-> "waiting", due |-> seeds[t].due,
                            to |-> {seeds[t].creator, seeds[t].assignee} \ {Nobody}]
        BY <1>4, <3>1
      <4> QED
        BY <4>1, <4>2, <4>3
    <3>2. CASE ~ (t \in DOMAIN seeds /\ NeedsReminder(seeds[t]))
      BY <1>4, <3>2
    <3> QED
      BY <3>1, <3>2
  <2> QED
    BY <1>4, <2>1
<1>9. SlotsOK /\ \A h \in Handlers : ~ Busy(h)
  BY <1>5 DEF SlotsOK, IsSlot, Answered, Idle, Busy, Holds
<1> QED
  BY <1>2, <1>4, <1>5, <1>6, <1>7, <1>8, <1>9 DEF Shape, TypeOK

LEMMA NothingHappens ==
  ASSUME UNCHANGED vars
  PROVE  \A t \in Tasks : Beside(t)
<1>1. /\ UNCHANGED <<tasks, following, parts, projects, left, reminders, told, reminded>>
      /\ slots' = slots /\ agenda' = agenda /\ excuses' = excuses
  BY DEF vars
<1>2. \A t \in Tasks : SameWork(t)
  BY <1>1, StillAtWork
<1> QED
  BY <1>1, <1>2, SameTask

LEMMA ShapeKept ==
  ASSUME Shape, [Next]_vars
  PROVE  Shape'
<1>1. CASE UNCHANGED vars
  BY <1>1 DEF vars, Shape, TypeOK, SlotsOK
<1>2. ASSUME NEW h \in Handlers, HandlerStep(h)
      PROVE  Shape'
  BY <1>2, TakesLook, ReadsLook, InsertWrites, UpdateWrites, StatusWrites, NotifySays, CancelSays,
     RemindSays, Drops, DropCancels, WipeCommits, Fails DEF HandlerStep
<1>3. ASSUME NEW request \in agenda, OneStep(request)
      PROVE  Shape'
  BY <1>3, OneSteps
<1>4. ASSUME NEW t \in Tasks, WorkerTakes(t) \/ WorkerDelivers(t)
      PROVE  Shape'
  BY <1>4, WorkerWorks
<1> QED
  BY <1>1, <1>2, <1>3, <1>4 DEF Next

(* The tables, the queue and the histories stay what their columns say.     *)
THEOREM BoardTypesHold == Spec => []TypeOK
<1>1. Init => Shape
  BY InitShape
<1>2. Shape /\ [Next]_vars => Shape'
  BY ShapeKept
<1>3. Shape => TypeOK
  BY DEF Shape
<1> QED
  BY <1>1, <1>2, <1>3, PTL DEF Spec

-----------------------------------------------------------------------------
(* Handlers that meet *)

(* Two handlers never are about the board without the tasks of either       *)
(* having the excuse.                                                       *)
RacesSeen ==
  \A h, j \in Handlers, t \in Tasks :
    Works(h, t) /\ Busy(j) /\ h # j =>
      "crowd" \in excuses[t] /\ (Works(j, t) => "overlap" \in excuses[t])

LEMMA RacesStay ==
  ASSUME RacesSeen,
         \A j \in Handlers : Busy(j)' => Busy(j),
         \A j \in Handlers, t \in Tasks : Works(j, t)' => Works(j, t),
         \A t \in Tasks : excuses[t] \subseteq excuses'[t]
  PROVE  RacesSeen'
BY DEF RacesSeen

LEMMA RacesMeet ==
  ASSUME Shape, RacesSeen, NEW h \in Handlers, NEW request \in agenda,
         Take(h, request, slots'[h]), slots'[h].request = request,
         \A j \in Handlers : j # h => slots'[j] = slots[j]
  PROVE  RacesSeen'
<1>1. /\ slots[h].pc = "idle" /\ Meet(request)
  BY DEF Take, Holds
<1>2. \A j \in Handlers, t \in Tasks :
        j # h => (Busy(j)' <=> Busy(j)) /\ (Works(j, t)' <=> Works(j, t))
  BY DEF Works, Busy, Holds
<1>3. ~ Busy(h) /\ \A t \in Tasks : Works(h, t)' => t \in Of(request)
  BY <1>1 DEF Works, Busy, Holds
<1>4. SUFFICES ASSUME NEW g \in Handlers, NEW j \in Handlers, NEW t \in Tasks,
                      Works(g, t)', Busy(j)', g # j
               PROVE  "crowd" \in excuses'[t] /\ (Works(j, t)' => "overlap" \in excuses'[t])
  BY DEF RacesSeen
<1>5. /\ excuses[t] \subseteq excuses'[t]
      /\ t \in Of(request) /\ About(t) # {} => "overlap" \in excuses'[t]
      /\ (\E k \in Handlers : Busy(k)) /\ (t \in Of(request) \/ About(t) # {}) =>
           "crowd" \in excuses'[t]
  BY <1>1 DEF Meet
<1>6. \A k \in Handlers : Works(k, t) => k \in About(t) /\ Busy(k)
  BY DEF Works, About
<1>7. CASE g = h
  BY <1>2, <1>3, <1>4, <1>5, <1>6, <1>7
<1>8. CASE j = h
  BY <1>2, <1>3, <1>4, <1>5, <1>6, <1>8
<1>9. CASE g # h /\ j # h
  BY <1>2, <1>4, <1>5, <1>9 DEF RacesSeen
<1> QED
  BY <1>7, <1>8, <1>9

LEMMA RacesKept ==
  ASSUME Shape, RacesSeen, [Next]_vars
  PROVE  RacesSeen'
<1>1. CASE slots' = slots /\ \A t \in Tasks : Beside(t) \/ excuses' = excuses
  BY <1>1, RacesStay DEF Busy, Works, Holds, Beside
<1>2. ASSUME NEW h \in Handlers, NEW request \in agenda,
             Create(h, request) \/ Patch(h, request) \/ Drop(h, request) \/ WipeTasks(h, request)
      PROVE  RacesSeen'
  <2>1. /\ Take(h, request, slots'[h]) /\ slots'[h].request = request
    BY <1>2, TakesLook, Drops
  <2>2. \A j \in Handlers : j # h => slots'[j] = slots[j]
    BY <2>1, SlotMoves DEF Take, Shape
  <2> QED
    BY <2>1, <2>2, RacesMeet
<1>3. ASSUME NEW h \in Handlers,
             \A t \in Tasks : excuses[t] \subseteq excuses'[t],
             Busy(h), slots'[h].pc = "idle" \/ slots'[h].request = slots[h].request,
             \A j \in Handlers : j # h => slots'[j] = slots[j]
      PROVE  RacesSeen'
  <2>1. /\ \A j \in Handlers : Busy(j)' => Busy(j)
        /\ \A j \in Handlers, t \in Tasks : Works(j, t)' => Works(j, t)
    BY <1>3 DEF Busy, Works, Holds
  <2> QED
    BY <1>3, <2>1, RacesStay
<1>4. ASSUME NEW h \in Handlers,
             \/ CreatePlace(h) \/ CreateInsert(h)
             \/ UpdateRead(h) \/ UpdateWrite(h) \/ StatusRead(h) \/ StatusWrite(h)
             \/ Notify(h) \/ Cancel(h) \/ Remind(h)
             \/ DropCancel(h) \/ WipeCommit(h) \/ Fail(h)
      PROVE  RacesSeen'
  <2>1. CASE CreatePlace(h) \/ UpdateRead(h) \/ StatusRead(h)
    BY <1>3, <2>1, ReadsLook DEF Board0
  <2>2. CASE CreateInsert(h)
    BY <1>3, <2>2, InsertWrites
  <2>3. CASE UpdateWrite(h)
    BY <1>3, <2>3, UpdateWrites DEF Busy, Holds, Beside
  <2>4. CASE StatusWrite(h)
    BY <1>3, <2>4, StatusWrites DEF Busy, Holds, Beside
  <2>5. CASE Notify(h)
    BY <1>3, <2>5, NotifySays DEF Busy, Holds
  <2>6. CASE Cancel(h)
    BY <1>3, <2>6, CancelSays DEF Busy, Holds, Beside
  <2>7. CASE Remind(h)
    BY <1>3, <2>7, RemindSays DEF Busy, Holds
  <2>8. CASE DropCancel(h)
    BY <1>3, <2>8, DropCancels DEF Busy, Holds, Beside
  <2>9. CASE WipeCommit(h)
    BY <1>3, <2>9, WipeCommits DEF Beside
  <2>10. CASE Fail(h)
    BY <1>3, <2>10, Fails
  <2> QED
    BY <1>4, <2>1, <2>2, <2>3, <2>4, <2>5, <2>6, <2>7, <2>8, <2>9, <2>10
<1>5. ASSUME NEW request \in agenda, OneStep(request)
      PROVE  RacesSeen'
  BY <1>1, <1>5, OneSteps
<1>6. ASSUME NEW t \in Tasks, WorkerTakes(t) \/ WorkerDelivers(t)
      PROVE  RacesSeen'
  BY <1>1, <1>6, WorkerWorks
<1>7. CASE UNCHANGED vars
  BY <1>1, <1>7, NothingHappens DEF vars
<1> QED
  BY <1>2, <1>4, <1>5, <1>6, <1>7 DEF Next, HandlerStep

(* Whoever works on the task of a step besides its handler is an excuse. *)
LEMMA AloneOnTask ==
  ASSUME Shape, RacesSeen, [Next]_vars, NEW h \in Handlers, NEW t \in Tasks,
         Works(h, t) \/ Works(h, t)', excuses[t] \subseteq excuses'[t],
         \A j \in Handlers : j # h => slots'[j] = slots[j]
  PROVE  \A j \in Handlers : j # h /\ Works(j, t)' => "overlap" \in excuses'[t]
<1>1. RacesSeen'
  BY RacesKept
<1>2. \A j \in Handlers : j # h => (Works(j, t)' <=> Works(j, t))
  BY DEF Works, Busy, Holds
<1>3. \A j \in Handlers : (Works(j, t) => Busy(j)) /\ (Works(j, t)' => Busy(j)')
  BY DEF Works
<1> QED
  BY <1>1, <1>2, <1>3 DEF RacesSeen

-----------------------------------------------------------------------------
(* The assignee is told, and follows *)

Told(t) == Live(t) /\ tasks[t].assignee # Nobody => told[t] = tasks[t].assignee
Followed(t) ==
  Live(t) /\ tasks[t].assignee # Nobody => <<t, tasks[t].assignee>> \in following \cup left

Names(request) == request.kind = "create" \/ Assigns(request.set)

(* What the one handler of a task has yet to do about its assignee: until   *)
(* it writes, the last one was told; from then on it knows whom to tell.    *)
ToTell(h, t) ==
  LET slot == slots[h]
  IN  /\ slot.pc \in {"read", "update", "weigh", "move"} \cup Answered => Followed(t)
      /\ slot.pc \in {"read", "update"} /\ Live(t) => tasks[t].assignee = slot.was /\ Told(t)
      /\ slot.pc = "update" /\ Live(t) => tasks[t].assignee = slot.seen
      /\ slot.pc \in {"weigh", "move", "notify"} /\ Live(t) =>
           Told(t) \/ (Names(slot.request) /\ tasks[t].assignee # slot.was)
      /\ slot.pc = "notify" /\ Live(t) => slot.task.row.assignee = tasks[t].assignee
      /\ slot.pc \in {"cancel", "remind"} => Told(t)
      /\ slot.pc = "forget" => ~ Live(t)

Informed(t) ==
  \/ excuses[t] \cap {"overlap", "failed"} # {}
  \/ /\ About(t) = {} => Told(t) /\ Followed(t)
     /\ \A h \in Handlers : Works(h, t) => ToTell(h, t)

LEMMA NoOneWorks ==
  ASSUME NEW t \in Tasks
  PROVE  About(t) = {} <=> \A h \in Handlers : ~ Works(h, t)
BY DEF About, Works

LEMMA InformedBeside ==
  ASSUME Shape, Shape', NEW t \in Tasks, Beside(t), Informed(t)
  PROVE  Informed(t)'
<1>1. SUFFICES ASSUME excuses[t] \cap {"overlap", "failed"} = {}
               PROVE  Informed(t)'
  BY DEF Informed, Beside
<1>2. /\ \A h \in Handlers : Works(h, t)' <=> Works(h, t)
      /\ \A h \in Handlers : Works(h, t) => slots'[h] = slots[h]
  BY DEF Beside, SameWork
<1>3. (About(t) = {})' <=> About(t) = {}
  BY <1>2 DEF About, Works
<1>4. /\ told'[t] = told[t]
      /\ Live(t)' => Live(t) /\ tasks'[t].assignee = tasks[t].assignee
  BY DEF Beside, Untouched
<1>5. Told(t) => Told(t)'
  BY <1>4 DEF Told
<1>6. Followed(t) => Followed(t)'
  <2>1. SUFFICES ASSUME Followed(t), Live(t)', tasks'[t].assignee # Nobody
                 PROVE  <<t, tasks'[t].assignee>> \in following' \cup left'
    BY DEF Followed
  <2>2. tasks'[t].assignee = tasks[t].assignee /\ tasks[t].assignee \in Users
    BY <1>4, <2>1, RowColumns DEF Shape
  <2> QED
    BY <1>4, <2>1, <2>2 DEF Followed, Beside
<1>7. ASSUME NEW h \in Handlers, Works(h, t), ToTell(h, t)
      PROVE  ToTell(h, t)'
  BY <1>2, <1>4, <1>5, <1>6, <1>7 DEF ToTell
<1> QED
  BY <1>1, <1>2, <1>3, <1>5, <1>6, <1>7 DEF Informed

LEMMA InformedKept ==
  ASSUME Shape, RacesSeen, [Next]_vars, NEW t \in Tasks, Informed(t)
  PROVE  Informed(t)'
<1>1. Shape'
  BY ShapeKept
<1>2. CASE Beside(t)
  BY <1>1, <1>2, InformedBeside
<1>3. ASSUME NEW h \in Handlers, Works(h, t) \/ Works(h, t)', excuses[t] \subseteq excuses'[t],
             \A j \in Handlers : j # h => slots'[j] = slots[j],
             excuses'[t] \cap {"overlap", "failed"} = {} =>
               IF Works(h, t)' THEN ToTell(h, t)' ELSE Told(t)' /\ Followed(t)'
      PROVE  Informed(t)'
  <2>1. \A j \in Handlers : j # h /\ Works(j, t)' => "overlap" \in excuses'[t]
    BY <1>3, AloneOnTask
  <2>2. Works(h, t)' => (About(t) # {})'
    BY DEF About, Works
  <2> QED
    BY <1>3, <2>1, <2>2 DEF Informed
<1>4. ASSUME NEW h \in Handlers, Works(h, t), excuses[t] \cap {"overlap", "failed"} = {}
      PROVE  ToTell(h, t)
  BY <1>4 DEF Informed
<1>5. ASSUME NEW h \in Handlers, NEW request \in agenda, Patch(h, request), ~ Beside(t)
      PROVE  Informed(t)'
  <2>1. /\ t \in Of(request) /\ Take(h, request, slots'[h])
        /\ slots'[h].request = request /\ UNCHANGED <<Board0, Queue0>>
    BY <1>5, TakesLook
  <2>2. request.kind = "patch" /\ IsRequest(request)
    BY <1>5 DEF Patch, Shape
  <2>3. t = request.task
    BY <2>1, <2>2, SubjectOf
  <2>4. /\ Live(t) /\ slots'[h].was = tasks[t].assignee
        /\ slots'[h].pc \in {"read", "weigh"} /\ Works(h, t)'
        /\ \A j \in Handlers : j # h => slots'[j] = slots[j]
    <3> DEFINE slot == [pc |-> IF Fields(request.set) THEN "read" ELSE "weigh",
                        request |-> request, was |-> tasks[request.task].assignee]
    <3>1. Live(t) /\ Becomes(h, slot)
      BY <1>5, <2>3 DEF Patch, Take
    <3>2. slot.was = tasks[t].assignee /\ slot.pc \in {"read", "weigh"}
      BY <2>3
    <3> HIDE DEF slot
    <3>3. slots'[h] = slot /\ \A j \in Handlers : j # h => slots'[j] = slots[j]
      BY <3>1, SlotMoves DEF Shape
    <3> QED
      BY <2>1, <3>1, <3>2, <3>3 DEF Works, Busy, Holds
  <2>5. excuses[t] \subseteq excuses'[t] /\ (About(t) # {} => "overlap" \in excuses'[t])
    BY <2>1 DEF Take, Meet
  <2>6. ASSUME excuses'[t] \cap {"overlap", "failed"} = {}
        PROVE  ToTell(h, t)'
    <3>1. Told(t) /\ Followed(t)
      BY <2>5, <2>6 DEF Informed
    <3>2. Told(t)' /\ Followed(t)' /\ (Live(t)' <=> Live(t)) /\ tasks' = tasks
      BY <2>1, <3>1 DEF Told, Followed, Live, Board0, Queue0
    <3> QED
      BY <2>4, <3>2 DEF ToTell, Answered
  <2> QED
    BY <1>3, <2>4, <2>5, <2>6
<1>6. ASSUME NEW h \in Handlers, NEW request \in agenda, Create(h, request), ~ Beside(t)
      PROVE  Informed(t)'
  <2>1. /\ t \in Of(request) /\ Take(h, request, slots'[h])
        /\ slots'[h].request = request /\ UNCHANGED <<Board0, Queue0>>
    BY <1>6, TakesLook
  <2>2. /\ slots'[h].pc = "place" /\ Works(h, t)'
        /\ \A j \in Handlers : j # h => slots'[j] = slots[j]
    <3> DEFINE slot == [pc |-> "place", request |-> request]
    <3>1. Becomes(h, slot) /\ slot.pc = "place"
      BY <1>6 DEF Create, Take
    <3> HIDE DEF slot
    <3>2. slots'[h] = slot /\ \A j \in Handlers : j # h => slots'[j] = slots[j]
      BY <3>1, SlotMoves DEF Shape
    <3> QED
      BY <2>1, <3>1, <3>2 DEF Works, Busy, Holds
  <2>3. excuses[t] \subseteq excuses'[t]
    BY <2>1 DEF Take, Meet
  <2>4. ToTell(h, t)'
    BY <2>2 DEF ToTell, Answered
  <2> QED
    BY <1>3, <2>2, <2>3, <2>4
<1>7. ASSUME NEW h \in Handlers, NEW request \in agenda, Drop(h, request), ~ Beside(t)
      PROVE  Informed(t)'
  <2>1. /\ t = request.task /\ Of(request) = {t} /\ tasks'[t] = Gone
        /\ excuses[t] \subseteq excuses'[t] /\ slots'[h].pc = "forget" /\ slots'[h].request = request
        /\ \A j \in Handlers : j # h => slots'[j] = slots[j]
    BY <1>7, Drops
  <2>2. Works(h, t)' /\ ~ Live(t)'
    BY <2>1 DEF Works, Busy, Holds, Live, Gone, Statuses
  <2>3. ToTell(h, t)'
    BY <2>1, <2>2 DEF ToTell, Answered
  <2> QED
    BY <1>3, <2>1, <2>2, <2>3
<1>8. ASSUME NEW h \in Handlers, CreatePlace(h) \/ UpdateRead(h) \/ StatusRead(h), ~ Beside(t)
      PROVE  Informed(t)'
  <2>1. /\ t \in Of(slots[h].request) /\ Busy(h) /\ slots'[h].pc # "idle"
        /\ slots'[h].request = slots[h].request
        /\ \A j \in Handlers : j # h => slots'[j] = slots[j]
        /\ UNCHANGED <<Board0, Queue0, excuses>>
    BY <1>8, ReadsLook
  <2>2. Works(h, t) /\ Works(h, t)'
    BY <2>1 DEF Works, Busy, Holds
  <2>3. ASSUME excuses'[t] \cap {"overlap", "failed"} = {}
        PROVE  ToTell(h, t)'
    <3>1. ToTell(h, t)
      BY <1>4, <2>1, <2>2, <2>3
    <3>2. /\ Told(t)' <=> Told(t)
          /\ Followed(t)' <=> Followed(t)
          /\ Live(t)' <=> Live(t)
          /\ tasks' = tasks
      BY <2>1 DEF Told, Followed, Live, Board0, Queue0
    <3>3. CASE CreatePlace(h)
      <4>1. slots'[h].pc = "insert"
        BY <3>3, SlotMoves DEF CreatePlace, Shape
      <4> QED
        BY <4>1 DEF ToTell, Answered
    <3>4. CASE UpdateRead(h)
      <4> DEFINE slot == [pc |-> "update", request |-> slots[h].request, was |-> slots[h].was,
                          seen |-> tasks[slots[h].request.task].assignee]
      <4>1. slots[h].pc = "read" /\ Becomes(h, slot)
        BY <3>4 DEF UpdateRead, Holds
      <4>2. t = slots[h].request.task
        BY <2>1, <4>1, SubjectOf DEF Shape, SlotsOK, IsSlot
      <4>3. /\ slots'[h].pc = "update" /\ slots'[h].was = slots[h].was
            /\ slots'[h].seen = tasks[t].assignee
        BY <4>1, <4>2, SlotMoves DEF Shape
      <4> QED
        BY <3>1, <3>2, <4>1, <4>3 DEF ToTell, Answered
    <3>5. CASE StatusRead(h)
      <4>1. /\ slots[h].pc = "weigh" /\ slots'[h].pc = "move" /\ slots'[h].was = slots[h].was
        BY <3>5, SlotMoves DEF StatusRead, Shape, Holds
      <4> QED
        BY <2>1, <3>1, <3>2, <4>1 DEF ToTell, Answered
    <3> QED
      BY <1>8, <3>3, <3>4, <3>5
  <2> QED
    BY <1>3, <2>1, <2>2, <2>3
<1>9. ASSUME NEW h \in Handlers, CreateInsert(h), ~ Beside(t)
      PROVE  Informed(t)'
  <2>1. /\ Of(slots[h].request) = {t} /\ Busy(h) /\ excuses' = excuses
        /\ slots'[h].pc = "notify" /\ slots'[h].request = slots[h].request
        /\ slots'[h].task.row = tasks'[t] /\ slots'[h].was = Nobody
        /\ tasks'[t].assignee # Nobody => <<t, tasks'[t].assignee>> \in following'
        /\ \A j \in Handlers : j # h => slots'[j] = slots[j]
    BY <1>9, InsertWrites
  <2>2. slots[h].request.kind = "create"
    BY <1>9 DEF CreateInsert, Holds, Shape, SlotsOK, IsSlot
  <2>3. Works(h, t) /\ Works(h, t)'
    BY <2>1 DEF Works, Busy, Holds
  <2>4. ToTell(h, t)'
    BY <2>1, <2>2 DEF ToTell, Answered, Told, Followed, Names
  <2> QED
    BY <1>3, <2>1, <2>3, <2>4
<1>10. ASSUME NEW h \in Handlers, UpdateWrite(h), ~ Beside(t)
       PROVE  Informed(t)'
  <2> DEFINE set == slots[h].request.set
  <2>1. /\ t = slots[h].request.task /\ Of(slots[h].request) = {t}
        /\ slots[h].pc = "update" /\ Live(t) /\ tasks'[t] = Written(tasks[t], set)
        /\ tasks'[t] \in Rows
        /\ excuses[t] \subseteq excuses'[t] /\ slots'[h].pc \in {"weigh", "notify"}
        /\ slots'[h].request = slots[h].request /\ slots'[h].was = slots[h].was
        /\ slots'[h].task.row = tasks'[t]
        /\ following' = Following(t, NewAssignee(slots[h].seen, tasks'[t]))
        /\ following \subseteq following' /\ left' = left /\ told' = told
        /\ \A j \in Handlers : j # h => slots'[j] = slots[j]
    BY <1>10, UpdateWrites
  <2>2. Works(h, t) /\ Works(h, t)'
    BY <2>1 DEF Works, Busy, Holds
  <2>3. ASSUME excuses'[t] \cap {"overlap", "failed"} = {}
        PROVE  ToTell(h, t)'
    <3>1. ToTell(h, t)
      BY <1>4, <2>1, <2>2, <2>3
    <3>2. /\ tasks[t].assignee = slots[h].was /\ tasks[t].assignee = slots[h].seen
          /\ Told(t) /\ Followed(t)
      BY <2>1, <3>1 DEF ToTell, Answered
    <3>3. Assigns(set) \/ tasks'[t].assignee = tasks[t].assignee
      <4>1. tasks'[t].assignee = IF Has(set, "assignee") THEN set.assignee ELSE tasks[t].assignee
        BY <2>1, WrittenColumns
      <4> QED
        BY <4>1 DEF Assigns
    <3>4. CASE tasks'[t].assignee = tasks[t].assignee
      <4>1. Told(t)' /\ Followed(t)'
        BY <2>1, <3>2, <3>4 DEF Told, Followed
      <4> QED
        BY <2>1, <4>1 DEF ToTell, Answered
    <3>5. CASE tasks'[t].assignee # tasks[t].assignee
      <4>1. tasks'[t].assignee \in Users \cup {Nobody}
        BY <2>1 DEF Rows
      <4>2. Followed(t)'
        BY <2>1, <3>2, <3>5, <4>1 DEF Followed, Following, NewAssignee
      <4>3. Names(slots'[h].request) /\ tasks'[t].assignee # slots'[h].was
        BY <2>1, <3>2, <3>3, <3>5 DEF Names
      <4> QED
        BY <2>1, <4>2, <4>3 DEF ToTell, Answered
    <3> QED
      BY <3>4, <3>5
  <2> QED
    BY <1>3, <2>1, <2>2, <2>3
<1>11. ASSUME NEW h \in Handlers, StatusWrite(h), ~ Beside(t)
       PROVE  Informed(t)'
  <2>1. /\ Of(slots[h].request) = {t} /\ slots[h].pc = "move" /\ Live(t)
        /\ tasks'[t].assignee = tasks[t].assignee
        /\ excuses[t] \subseteq excuses'[t] /\ slots'[h].pc = "notify"
        /\ slots'[h].request = slots[h].request /\ slots'[h].was = slots[h].was
        /\ slots'[h].task.row = tasks'[t]
        /\ following' = following /\ left' = left /\ told' = told
        /\ \A j \in Handlers : j # h => slots'[j] = slots[j]
    <3> DEFINE slot == slots[h]
    <3>1. /\ t = slot.request.task /\ Of(slot.request) = {t} /\ slot.pc = "move" /\ Live(t)
          /\ tasks'[t] = Moved(tasks[t], slot.request.set.status, slot.order, slot.stamped)
          /\ excuses[t] \subseteq excuses'[t] /\ slots'[h].pc = "notify"
          /\ slots'[h].request = slots[h].request /\ slots'[h].was = slots[h].was
          /\ slots'[h].task.row = tasks'[t]
          /\ following' = following /\ left' = left /\ told' = told
          /\ \A j \in Handlers : j # h => slots'[j] = slots[j]
      BY <1>11, StatusWrites
    <3>2. tasks'[t].assignee = tasks[t].assignee
      BY <3>1, SMTT(20) DEF Moved
    <3> QED
      BY <3>1, <3>2
  <2>2. Works(h, t) /\ Works(h, t)'
    BY <2>1 DEF Works, Busy, Holds
  <2>3. ASSUME excuses'[t] \cap {"overlap", "failed"} = {}
        PROVE  ToTell(h, t)'
    <3>1. ToTell(h, t)
      BY <1>4, <2>1, <2>2, <2>3
    <3>2. (Told(t) => Told(t)') /\ (Followed(t) => Followed(t)')
      BY <2>1 DEF Told, Followed
    <3> QED
      BY <2>1, <3>1, <3>2 DEF ToTell, Answered
  <2> QED
    BY <1>3, <2>1, <2>2, <2>3
<1>12. ASSUME NEW h \in Handlers, Notify(h), ~ Beside(t)
       PROVE  Informed(t)'
  <2> DEFINE a == slots[h].task.row.assignee
  <2>1. /\ Of(slots[h].request) = {t} /\ slots[h].pc = "notify" /\ excuses' = excuses
        /\ told'[t] = IF Names(slots[h].request) /\ a \notin {Nobody, slots[h].was}
                      THEN a ELSE told[t]
        /\ slots'[h].pc = "cancel" /\ slots'[h].request = slots[h].request
        /\ tasks' = tasks /\ following' = following /\ left' = left
        /\ \A j \in Handlers : j # h => slots'[j] = slots[j]
    BY <1>12, NotifySays DEF Board0, Names
  <2>2. Works(h, t) /\ Works(h, t)'
    BY <2>1 DEF Works, Busy, Holds
  <2>3. ASSUME excuses'[t] \cap {"overlap", "failed"} = {}
        PROVE  ToTell(h, t)'
    <3>1. ToTell(h, t)
      BY <1>4, <2>1, <2>2, <2>3
    <3>2. Told(t)' /\ Followed(t)'
      BY <2>1, <3>1 DEF ToTell, Answered, Told, Followed, Live
    <3> QED
      BY <2>1, <3>2 DEF ToTell, Answered
  <2> QED
    BY <1>3, <2>1, <2>2, <2>3
<1>13. ASSUME NEW h \in Handlers, Works(h, t), excuses[t] \subseteq excuses'[t],
              slots[h].pc \in {"cancel", "remind", "forget"},
              slots'[h].pc \in {"remind", "idle"},
              \A j \in Handlers : j # h => slots'[j] = slots[j],
              tasks' = tasks, following' = following, left' = left, told' = told
       PROVE  Informed(t)'
  <2>1. ASSUME excuses'[t] \cap {"overlap", "failed"} = {}
        PROVE  Told(t)' /\ Followed(t)'
    <3>1. ToTell(h, t)
      BY <1>4, <1>13, <2>1
    <3> QED
      BY <1>13, <3>1 DEF ToTell, Answered, Told, Followed, Live
  <2>2. Works(h, t)' => slots'[h].pc = "remind"
    BY <1>13 DEF Works, Busy, Holds
  <2>3. excuses'[t] \cap {"overlap", "failed"} = {} /\ Works(h, t)' => ToTell(h, t)'
    BY <2>1, <2>2 DEF ToTell, Answered
  <2> QED
    BY <1>3, <1>13, <2>1, <2>3
<1>14. ASSUME NEW h \in Handlers, Cancel(h) \/ Remind(h) \/ DropCancel(h), ~ Beside(t)
       PROVE  Informed(t)'
  <2>1. CASE Cancel(h)
    <3>1. /\ Of(slots[h].request) = {t} /\ slots[h].pc = "cancel"
          /\ excuses[t] \subseteq excuses'[t] /\ slots'[h].pc \in {"remind", "idle"}
          /\ \A j \in Handlers : j # h => slots'[j] = slots[j]
          /\ tasks' = tasks /\ following' = following /\ left' = left /\ told' = told
      BY <1>14, <2>1, CancelSays DEF Board0
    <3> QED
      BY <1>13, <3>1 DEF Works, Busy, Holds
  <2>2. CASE Remind(h)
    <3>1. /\ Of(slots[h].request) = {t} /\ slots[h].pc = "remind"
          /\ excuses' = excuses /\ slots'[h].pc = "idle"
          /\ \A j \in Handlers : j # h => slots'[j] = slots[j]
          /\ tasks' = tasks /\ following' = following /\ left' = left /\ told' = told
      BY <1>14, <2>2, RemindSays DEF Board0
    <3> QED
      BY <1>13, <3>1 DEF Works, Busy, Holds
  <2>3. CASE DropCancel(h)
    <3>1. /\ Of(slots[h].request) = {t} /\ slots[h].pc = "forget"
          /\ excuses[t] \subseteq excuses'[t] /\ slots'[h].pc = "idle"
          /\ \A j \in Handlers : j # h => slots'[j] = slots[j]
          /\ tasks' = tasks /\ following' = following /\ left' = left /\ told' = told
      BY <1>14, <2>3, DropCancels DEF Board0
    <3> QED
      BY <1>13, <3>1 DEF Works, Busy, Holds
  <2> QED
    BY <1>14, <2>1, <2>2, <2>3
<1>15. ASSUME NEW h \in Handlers, Fail(h), ~ Beside(t)
       PROVE  Informed(t)'
  BY <1>15, Fails DEF Informed
<1>16. ASSUME NEW s \in Tasks, WorkerTakes(s) \/ WorkerDelivers(s)
       PROVE  Informed(t)'
  BY <1>16, WorkerWorks, ZenonT(60)
     DEF Informed, ToTell, Told, Followed, Live, About, Works, Busy, Holds, Board0
<1>17. ASSUME NEW h \in Handlers, NEW request \in agenda, WipeTasks(h, request)
       PROVE  Beside(t)
  BY <1>17, TakesLook, NoSubject DEF WipeTasks, Shape
<1>18. ASSUME NEW h \in Handlers, HandlerStep(h), ~ Beside(t)
       PROVE  Informed(t)'
  BY <1>5, <1>6, <1>7, <1>8, <1>9, <1>10, <1>11, <1>12, <1>14, <1>15, <1>17, <1>18, WipeCommits
     DEF HandlerStep
<1> QED
  BY <1>2, <1>16, <1>18, NothingHappens, OneSteps DEF Next

(* The board a scenario begins with. *)
LEMMA InitTasks ==
  ASSUME Init, NEW t \in Tasks
  PROVE  /\ told[t] = IF Live(t) THEN tasks[t].assignee ELSE Nobody
         /\ Live(t) /\ tasks[t].assignee # Nobody => <<t, tasks[t].assignee>> \in following
         /\ IF Live(t) /\ NeedsReminder(tasks[t])
            THEN reminders[t].state = "waiting" /\ reminders[t].due = tasks[t].due
            ELSE reminders[t] = NoJob
         /\ \A s \in Tasks : Live(s) /\ Live(t) /\ s # t /\ tasks[s].project = tasks[t].project
                             /\ tasks[s].status = tasks[t].status =>
              tasks[s].order # tasks[t].order
         /\ \A h \in Handlers : ~ Busy(h) /\ ~ Works(h, t)
<1>1. PICK scenario \in Agendas : Seeded(scenario)
  BY DEF Init
<1> DEFINE seeds == scenario.seeds
<1>2. /\ \A s \in DOMAIN seeds : seeds[s] \in Rows
      /\ \A r, s \in DOMAIN seeds :
           r # s /\ seeds[r].project = seeds[s].project /\ seeds[r].status = seeds[s].status =>
             seeds[r].order # seeds[s].order
  BY BoardAssumption, <1>1 DEF IsScenario
<1>3. \A s \in DOMAIN seeds : seeds[s].status \in Statuses /\ seeds[s].assignee \in Users \cup {Nobody}
  BY <1>2 DEF Rows
<1> HIDE DEF seeds
<1>4. /\ tasks = [s \in Tasks |-> IF s \in DOMAIN seeds THEN seeds[s] ELSE Unborn]
      /\ following = {f \in (DOMAIN seeds) \X Users :
                        f[2] \in {seeds[f[1]].creator, seeds[f[1]].assignee}}
      /\ told = [s \in Tasks |-> IF s \in DOMAIN seeds THEN seeds[s].assignee ELSE Nobody]
      /\ reminders = [s \in Tasks |->
           IF s \in DOMAIN seeds /\ NeedsReminder(seeds[s])
           THEN [state |-> "waiting", due |-> seeds[s].due,
                 to |-> {seeds[s].creator, seeds[s].assignee} \ {Nobody}]
           ELSE NoJob]
  BY <1>1 DEF Seeded, seeds
<1>5. \A s \in Tasks : (Live(s) <=> s \in DOMAIN seeds) /\ (Live(s) => tasks[s] = seeds[s])
  BY <1>3, <1>4 DEF Live, Unborn, Statuses
<1>6. told[t] = IF Live(t) THEN tasks[t].assignee ELSE Nobody
  BY <1>4, <1>5
<1>7. Live(t) /\ tasks[t].assignee # Nobody => <<t, tasks[t].assignee>> \in following
  BY <1>3, <1>4, <1>5
<1>8. CASE Live(t) /\ NeedsReminder(tasks[t])
  <2>1. reminders[t] = [state |-> "waiting", due |-> seeds[t].due,
                        to |-> {seeds[t].creator, seeds[t].assignee} \ {Nobody}]
    BY <1>4, <1>5, <1>8
  <2> QED
    BY <1>2, <1>5, <1>6, <1>7, <1>8, <2>1, InitShape DEF Works
<1>9. CASE ~ (Live(t) /\ NeedsReminder(tasks[t]))
  <2>1. reminders[t] = NoJob
    BY <1>4, <1>5, <1>9
  <2> QED
    BY <1>2, <1>5, <1>6, <1>7, <1>9, <2>1, InitShape DEF Works
<1> QED
  BY <1>8, <1>9

(* Every assignee is told of the task, and told last, and follows it,       *)
(* unless handlers of the task overlapped or failed half-way: for all       *)
(* requests and any number of handlers.                                     *)
THEOREM AssigneesAreInformed == Spec => []AssigneeIsInformed
<1> DEFINE IInv == Shape /\ RacesSeen /\ \A t \in Tasks : Informed(t)
<1>1. Init => IInv
  <2>1. SUFFICES ASSUME Init
                 PROVE  IInv
    OBVIOUS
  <2>2. Shape /\ RacesSeen
    BY <2>1, InitShape DEF RacesSeen
  <2>3. \A t \in Tasks : Informed(t)
    BY <2>1, InitTasks DEF Informed, Told, Followed
  <2> QED
    BY <2>2, <2>3
<1>2. IInv /\ [Next]_vars => IInv'
  BY ShapeKept, RacesKept, InformedKept
<1>3. IInv => AssigneeIsInformed
  BY DEF AssigneeIsInformed, Informed, Told, Followed
<1> QED
  <2> HIDE DEF IInv
  <2> QED
    BY <1>1, <1>2, <1>3, PTL DEF Spec

-----------------------------------------------------------------------------
(* Reminders *)

(* The queue agrees with the row: the job that is there is for its due      *)
(* date, or the last one that went out was.                                 *)
Agrees(t) ==
  IF Live(t) /\ NeedsReminder(tasks[t])
  THEN IF reminders[t] = NoJob THEN reminded[t] = tasks[t].due
                               ELSE reminders[t].due = tasks[t].due
  ELSE reminders[t].state # "waiting"

(* What the one handler of a task knows when it comes to the queue.         *)
ToRemind(h, t) ==
  LET slot == slots[h]
  IN  /\ slot.pc \in Answered =>
           Live(t) /\ slot.task.row.due = tasks[t].due /\ slot.task.row.status = tasks[t].status
      /\ slot.pc = "remind" => reminders[t] = NoJob
      /\ slot.pc = "forget" => ~ Live(t)

Broken == {"overlap", "failed", "active", "wiped"}

Attended(t) ==
  \/ excuses[t] \cap Broken # {}
  \/ /\ About(t) = {} => Agrees(t)
     /\ \A h \in Handlers : Works(h, t) => ToRemind(h, t)

LEMMA JobStates ==
  ASSUME TypeOK, NEW t \in Tasks
  PROVE  /\ reminders[t].state \in {"none", "waiting", "active"}
         /\ reminders[t] = NoJob <=> reminders[t].state = "none"
BY DEF TypeOK, NoJob

LEMMA AttendedBeside ==
  ASSUME Shape, NEW t \in Tasks, Beside(t), Attended(t)
  PROVE  Attended(t)'
<1>1. SUFFICES ASSUME excuses'[t] \cap Broken = {}
               PROVE  Attended(t)'
  BY DEF Attended
<1>2. /\ \A h \in Handlers : Works(h, t)' <=> Works(h, t)
      /\ \A h \in Handlers : Works(h, t) => slots'[h] = slots[h]
  BY DEF Beside, SameWork
<1>3. (About(t) = {})' <=> About(t) = {}
  BY <1>2 DEF About, Works
<1>4. /\ reminders'[t] = reminders[t] /\ reminded'[t] = reminded[t]
      /\ Live(t)' <=> Live(t)
      /\ Live(t) => tasks'[t].due = tasks[t].due /\ tasks'[t].status = tasks[t].status
  BY <1>1 DEF Beside, Untouched, Broken
<1>5. Agrees(t) => Agrees(t)'
  BY <1>4 DEF Agrees, NeedsReminder
<1>6. ASSUME NEW h \in Handlers, Works(h, t), ToRemind(h, t)
      PROVE  ToRemind(h, t)'
  BY <1>2, <1>4, <1>6 DEF ToRemind
<1>7. excuses[t] \cap Broken = {}
  BY <1>1 DEF Beside
<1> QED
  BY <1>2, <1>3, <1>5, <1>6, <1>7 DEF Attended

LEMMA AttendedKept ==
  ASSUME Shape, RacesSeen, [Next]_vars, NEW t \in Tasks, Attended(t)
  PROVE  Attended(t)'
<1>1. Shape'
  BY ShapeKept
<1>2. CASE Beside(t)
  BY <1>2, AttendedBeside
<1>3. ASSUME NEW h \in Handlers, Works(h, t) \/ Works(h, t)', excuses[t] \subseteq excuses'[t],
             \A j \in Handlers : j # h => slots'[j] = slots[j],
             excuses'[t] \cap Broken = {} => IF Works(h, t)' THEN ToRemind(h, t)' ELSE Agrees(t)'
      PROVE  Attended(t)'
  <2>1. \A j \in Handlers : j # h /\ Works(j, t)' => "overlap" \in excuses'[t]
    BY <1>3, AloneOnTask
  <2>2. Works(h, t)' => (About(t) # {})'
    BY DEF About, Works
  <2> QED
    BY <1>3, <2>1, <2>2 DEF Attended, Broken
<1>4. ASSUME NEW h \in Handlers, Works(h, t), excuses[t] \cap Broken = {}
      PROVE  ToRemind(h, t)
  BY <1>4 DEF Attended
<1>5. ASSUME NEW h \in Handlers, Works(h, t)',
             slots'[h].pc \in {"place", "insert", "read", "update", "weigh", "move"},
             excuses[t] \subseteq excuses'[t], \A j \in Handlers : j # h => slots'[j] = slots[j]
      PROVE  Attended(t)'
  BY <1>3, <1>5 DEF ToRemind, Answered
<1>6. ASSUME NEW h \in Handlers, NEW request \in agenda,
             Create(h, request) \/ Patch(h, request), ~ Beside(t)
      PROVE  Attended(t)'
  <2>1. /\ t \in Of(request) /\ Take(h, request, slots'[h]) /\ slots'[h].pc # "idle"
        /\ slots'[h].request = request
    BY <1>6, TakesLook
  <2>2. /\ Works(h, t)' /\ excuses[t] \subseteq excuses'[t]
        /\ \A j \in Handlers : j # h => slots'[j] = slots[j]
    BY <2>1, SlotMoves DEF Works, Busy, Holds, Take, Meet, Shape
  <2>3. slots'[h].pc \in {"place", "read", "weigh"}
    <3>1. CASE Create(h, request)
      <4> DEFINE slot == [pc |-> "place", request |-> request]
      <4>1. Becomes(h, slot) /\ slot.pc = "place"
        BY <3>1 DEF Create, Take
      <4> HIDE DEF slot
      <4> QED
        BY <4>1, SlotMoves DEF Shape
    <3>2. CASE Patch(h, request)
      <4> DEFINE slot == [pc |-> IF Fields(request.set) THEN "read" ELSE "weigh",
                          request |-> request, was |-> tasks[request.task].assignee]
      <4>1. Becomes(h, slot) /\ slot.pc \in {"read", "weigh"}
        BY <3>2 DEF Patch, Take
      <4> HIDE DEF slot
      <4> QED
        BY <4>1, SlotMoves DEF Shape
    <3> QED
      BY <1>6, <3>1, <3>2
  <2> QED
    BY <1>5, <2>2, <2>3
<1>7. ASSUME NEW h \in Handlers, NEW request \in agenda, Drop(h, request), ~ Beside(t)
      PROVE  Attended(t)'
  <2>1. /\ t = request.task /\ Of(request) = {t} /\ tasks'[t] = Gone
        /\ excuses[t] \subseteq excuses'[t] /\ slots'[h].pc = "forget" /\ slots'[h].request = request
        /\ \A j \in Handlers : j # h => slots'[j] = slots[j]
    BY <1>7, Drops
  <2>2. Works(h, t)' /\ ~ Live(t)'
    BY <2>1 DEF Works, Busy, Holds, Live, Gone, Statuses
  <2>3. ToRemind(h, t)'
    BY <2>1, <2>2 DEF ToRemind, Answered
  <2> QED
    BY <1>3, <2>1, <2>2, <2>3
<1>8. ASSUME NEW h \in Handlers, CreatePlace(h) \/ UpdateRead(h) \/ StatusRead(h), ~ Beside(t)
      PROVE  Attended(t)'
  <2>1. /\ t \in Of(slots[h].request) /\ slots'[h].pc # "idle"
        /\ slots'[h].request = slots[h].request /\ excuses' = excuses
        /\ \A j \in Handlers : j # h => slots'[j] = slots[j]
    BY <1>8, ReadsLook
  <2>2. Works(h, t)'
    BY <2>1 DEF Works, Busy, Holds
  <2>3. slots'[h].pc \in {"insert", "update", "move"}
    BY <1>8, SlotMoves DEF CreatePlace, UpdateRead, StatusRead, Shape
  <2> QED
    BY <1>5, <2>1, <2>2, <2>3
<1>9. ASSUME NEW h \in Handlers, CreateInsert(h) \/ UpdateWrite(h) \/ StatusWrite(h), ~ Beside(t)
      PROVE  Attended(t)'
  <2>1. /\ Of(slots[h].request) = {t} /\ excuses[t] \subseteq excuses'[t]
        /\ slots'[h].pc \in {"weigh", "notify"} /\ slots'[h].request = slots[h].request
        /\ tasks'[t] \in Rows /\ slots'[h].task.row = tasks'[t]
        /\ \A j \in Handlers : j # h => slots'[j] = slots[j]
    <3>1. CASE CreateInsert(h)
      BY <1>9, <3>1, InsertWrites
    <3>2. CASE UpdateWrite(h)
      BY <1>9, <3>2, UpdateWrites
    <3>3. CASE StatusWrite(h)
      BY <1>9, <3>3, StatusWrites
    <3> QED
      BY <1>9, <3>1, <3>2, <3>3
  <2>2. Works(h, t)'
    BY <2>1 DEF Works, Busy, Holds
  <2>3. Live(t)'
    BY <2>1 DEF Live, Rows
  <2>4. ToRemind(h, t)'
    BY <2>1, <2>3 DEF ToRemind
  <2> QED
    BY <1>3, <2>1, <2>2, <2>4
<1>10. ASSUME NEW h \in Handlers, Notify(h), ~ Beside(t)
       PROVE  Attended(t)'
  <2>1. /\ Of(slots[h].request) = {t} /\ slots[h].pc = "notify" /\ excuses' = excuses
        /\ slots'[h].pc = "cancel" /\ slots'[h].request = slots[h].request
        /\ slots'[h].task = slots[h].task /\ tasks' = tasks
        /\ \A j \in Handlers : j # h => slots'[j] = slots[j]
    BY <1>10, NotifySays DEF Board0
  <2>2. Works(h, t) /\ Works(h, t)'
    BY <2>1 DEF Works, Busy, Holds
  <2>3. ToRemind(h, t) => ToRemind(h, t)'
    BY <2>1 DEF ToRemind, Answered, Live
  <2> QED
    BY <1>3, <1>4, <2>1, <2>2, <2>3
<1>11. ASSUME NEW h \in Handlers, Cancel(h), ~ Beside(t)
       PROVE  Attended(t)'
  <2>1. /\ Of(slots[h].request) = {t} /\ slots[h].pc = "cancel"
        /\ excuses[t] \subseteq excuses'[t] /\ reminders'[t] = Withdrawn(t)
        /\ reminders[t].state = "active" => "active" \in excuses'[t]
        /\ IF NeedsReminder(slots[h].task.row)
           THEN /\ slots'[h].pc = "remind" /\ slots'[h].request = slots[h].request
                /\ slots'[h].task = slots[h].task
           ELSE slots'[h].pc = "idle"
        /\ tasks' = tasks /\ \A j \in Handlers : j # h => slots'[j] = slots[j]
    <3> DEFINE slot == slots[h]
    <3>1. /\ t = slot.request.task /\ Of(slot.request) = {t} /\ slot.pc = "cancel"
          /\ excuses[t] \subseteq excuses'[t] /\ reminders'[t] = Withdrawn(t)
          /\ reminders[t].state = "active" => "active" \in excuses'[t]
          /\ IF NeedsReminder(slot.task.row)
             THEN slots'[h].pc = "remind" /\ slots'[h].request = slot.request /\ slots'[h].task = slot.task
             ELSE slots'[h].pc = "idle"
          /\ tasks' = tasks /\ \A j \in Handlers : j # h => slots'[j] = slots[j]
      BY <1>11, CancelSays DEF Board0
    <3> QED
      BY <3>1
  <2>2. Works(h, t)
    BY <2>1 DEF Works, Busy, Holds
  <2>3. ASSUME excuses'[t] \cap Broken = {}
        PROVE  IF Works(h, t)' THEN ToRemind(h, t)' ELSE Agrees(t)'
    <3>1. reminders'[t] = NoJob
      BY <2>1, <2>3, JobStates DEF Withdrawn, Broken, Shape
    <3>2. ToRemind(h, t)
      BY <1>4, <2>1, <2>2, <2>3
    <3>3. /\ Live(t)' /\ slots[h].task.row.due = tasks'[t].due
          /\ slots[h].task.row.status = tasks'[t].status
      BY <2>1, <3>2 DEF ToRemind, Answered, Live
    <3>4. CASE NeedsReminder(slots[h].task.row)
      <4>1. Works(h, t)'
        BY <2>1, <3>4 DEF Works, Busy, Holds
      <4> QED
        BY <2>1, <3>1, <3>3, <3>4, <4>1 DEF ToRemind
    <3>5. CASE ~ NeedsReminder(slots[h].task.row)
      <4>1. ~ Works(h, t)'
        BY <2>1, <3>5 DEF Works, Busy, Holds
      <4> QED
        BY <3>1, <3>3, <3>5, <4>1 DEF Agrees, NeedsReminder, NoJob
    <3> QED
      BY <3>4, <3>5
  <2> QED
    BY <1>3, <2>1, <2>2, <2>3
<1>12. ASSUME NEW h \in Handlers, Remind(h), ~ Beside(t)
       PROVE  Attended(t)'
  <2>1. /\ Of(slots[h].request) = {t} /\ slots[h].pc = "remind" /\ excuses' = excuses
        /\ NeedsReminder(slots[h].task.row)
        /\ reminders[t] = NoJob => /\ reminders'[t].state = "waiting"
                                   /\ reminders'[t].due = slots[h].task.row.due
        /\ slots'[h].pc = "idle" /\ tasks' = tasks
        /\ \A j \in Handlers : j # h => slots'[j] = slots[j]
    BY <1>12, RemindSays DEF Board0
  <2>2. Works(h, t) /\ ~ Works(h, t)'
    BY <2>1 DEF Works, Busy, Holds
  <2>3. ASSUME excuses'[t] \cap Broken = {}
        PROVE  Agrees(t)'
    <3>1. ToRemind(h, t)
      BY <1>4, <2>1, <2>2, <2>3
    <3>2. /\ reminders'[t].state = "waiting" /\ reminders'[t].due = tasks'[t].due
          /\ slots[h].task.row.due = tasks'[t].due /\ slots[h].task.row.status = tasks'[t].status
      BY <2>1, <3>1 DEF ToRemind, Answered
    <3>3. NeedsReminder(tasks'[t]) /\ Live(t)'
      BY <2>1, <3>1, <3>2 DEF NeedsReminder, ToRemind, Answered, Live
    <3> QED
      BY <3>2, <3>3 DEF Agrees, NoJob
  <2> QED
    BY <1>3, <2>1, <2>2, <2>3
<1>13. ASSUME NEW h \in Handlers, DropCancel(h), ~ Beside(t)
       PROVE  Attended(t)'
  <2>1. /\ Of(slots[h].request) = {t} /\ slots[h].pc = "forget"
        /\ excuses[t] \subseteq excuses'[t] /\ reminders'[t] = Withdrawn(t)
        /\ slots'[h].pc = "idle" /\ tasks' = tasks
        /\ \A j \in Handlers : j # h => slots'[j] = slots[j]
    <3> DEFINE slot == slots[h]
    <3>1. /\ t = slot.request.task /\ Of(slot.request) = {t} /\ slot.pc = "forget"
          /\ excuses[t] \subseteq excuses'[t] /\ reminders'[t] = Withdrawn(t)
          /\ slots'[h].pc = "idle" /\ tasks' = tasks
          /\ \A j \in Handlers : j # h => slots'[j] = slots[j]
      BY <1>13, DropCancels DEF Board0
    <3> QED
      BY <3>1
  <2>2. Works(h, t) /\ ~ Works(h, t)'
    BY <2>1 DEF Works, Busy, Holds
  <2>3. ASSUME excuses'[t] \cap Broken = {}
        PROVE  Agrees(t)'
    <3>1. ~ Live(t)'
      BY <1>4, <2>1, <2>2, <2>3 DEF ToRemind, Live
    <3>2. reminders'[t].state # "waiting"
      BY <2>1 DEF Withdrawn, NoJob
    <3> QED
      BY <3>1, <3>2 DEF Agrees
  <2> QED
    BY <1>3, <2>1, <2>2, <2>3
<1>14. ASSUME NEW h \in Handlers, Fail(h), ~ Beside(t)
       PROVE  Attended(t)'
  BY <1>14, Fails DEF Attended, Broken
<1>15. ASSUME NEW s \in Tasks, WorkerTakes(s) \/ WorkerDelivers(s), ~ Beside(t)
       PROVE  Attended(t)'
  <2>1. /\ s = t /\ tasks' = tasks /\ slots' = slots /\ excuses' = excuses
        /\ \/ /\ reminders[t].state = "waiting" /\ reminders'[t].state = "active"
              /\ reminders'[t].due = reminders[t].due /\ reminded' = reminded
           \/ /\ reminders[t].state = "active" /\ reminders'[t] = NoJob
              /\ reminded'[t] = reminders[t].due
    BY <1>15, WorkerWorks DEF Board0
  <2>2. /\ reminders[t] # NoJob /\ (Live(t)' <=> Live(t))
        /\ \A h \in Handlers : Works(h, t)' <=> Works(h, t)
    BY <2>1, JobStates DEF Live, Works, Busy, Holds, NoJob
  <2>3. Agrees(t) => Agrees(t)'
    BY <2>1, <2>2 DEF Agrees, NoJob
  <2>4. ASSUME NEW h \in Handlers, ToRemind(h, t)
        PROVE  ToRemind(h, t)'
    BY <2>1, <2>2, <2>4 DEF ToRemind
  <2> QED
    BY <2>1, <2>2, <2>3, <2>4 DEF Attended, About, Works
<1>16. ASSUME NEW h \in Handlers, NEW request \in agenda, WipeTasks(h, request)
       PROVE  Beside(t)
  BY <1>16, TakesLook, NoSubject DEF WipeTasks, Shape
<1>17. ASSUME NEW h \in Handlers, HandlerStep(h), ~ Beside(t)
       PROVE  Attended(t)'
  BY <1>6, <1>7, <1>8, <1>9, <1>10, <1>11, <1>12, <1>13, <1>14, <1>16, <1>17, WipeCommits
     DEF HandlerStep
<1> QED
  BY <1>2, <1>15, <1>17, NothingHappens, OneSteps DEF Next

(* The queue of reminders agrees with the table once no handler is at work, *)
(* but for the races, failures and deletions that the property names.       *)
THEOREM QueueFollowsTasks == Spec => []RemindersFollowTasks
<1> DEFINE IInv == Shape /\ RacesSeen /\ \A t \in Tasks : Attended(t)
<1>1. Init => IInv
  <2>1. SUFFICES ASSUME Init
                 PROVE  IInv
    OBVIOUS
  <2>2. Shape /\ RacesSeen
    BY <2>1, InitShape DEF RacesSeen
  <2>3. ASSUME NEW t \in Tasks
        PROVE  Attended(t)
    <3>1. NoJob.state = "none"
      BY DEF NoJob
    <3> QED
      BY <2>1, <3>1, InitTasks DEF Attended, Agrees
  <2> QED
    BY <2>2, <2>3
<1>2. IInv /\ [Next]_vars => IInv'
  BY ShapeKept, RacesKept, AttendedKept
<1>3. IInv => RemindersFollowTasks
  BY DEF RemindersFollowTasks, Attended, Agrees, Broken
<1> QED
  <2> HIDE DEF IInv
  <2> QED
    BY <1>1, <1>2, <1>3, PTL DEF Spec

-----------------------------------------------------------------------------
(* Places *)

Excused(t) == excuses[t] \cap {"crowd", "placed", "moved"} # {}

Apart(s, t) ==
  Live(s) /\ Live(t) /\ tasks[s].project = tasks[t].project /\ tasks[s].status = tasks[t].status =>
    Excused(s) \/ Excused(t) \/ tasks[s].order # tasks[t].order

(* The place a handler has for its task t is not that of s. *)
PlaceKept(h, s, t) ==
  LET slot == slots[h]
      request == slot.request
      free == Excused(s) \/ Excused(t) \/ tasks[s].order # slot.order
  IN  /\ slot.pc = "insert" /\ Live(s) /\ tasks[s].project = request.project
         /\ tasks[s].status = "OPEN" => free
      /\ slot.pc = "move" /\ ~ Has(request.set, "order") /\ Live(s) /\ Live(t)
         /\ tasks[s].project = tasks[t].project /\ tasks[s].status = request.set.status => free

Spaced(s, t) ==
  s # t => Apart(s, t) /\ \A h \in Handlers : Works(h, t) => PlaceKept(h, s, t)

(* The task stays where it is, or leaves, or has an excuse.                 *)
Sits(t) ==
  /\ Excused(t) => Excused(t)'
  /\ \/ Excused(t)'
     \/ Live(t)' => /\ Live(t) /\ tasks'[t].status = tasks[t].status
                    /\ tasks'[t].project = tasks[t].project /\ tasks'[t].order = tasks[t].order

LEMMA BesideSits ==
  ASSUME NEW t \in Tasks, Beside(t)
  PROVE  Sits(t)
BY DEF Beside, Untouched, Sits, Excused

LEMMA SitStill ==
  ASSUME NEW t \in Tasks, tasks' = tasks, excuses[t] \subseteq excuses'[t]
  PROVE  Sits(t)
BY DEF Sits, Excused, Live

LEMMA SitApart ==
  ASSUME NEW s \in Tasks, NEW t \in Tasks, Sits(s), Sits(t), Apart(s, t)
  PROVE  Apart(s, t)'
BY DEF Sits, Apart

LEMMA SitsPlaceKept ==
  ASSUME NEW s \in Tasks, NEW t \in Tasks, NEW h \in Handlers, slots'[h] = slots[h],
         Sits(s), Sits(t), PlaceKept(h, s, t)
  PROVE  PlaceKept(h, s, t)'
BY DEF Sits, PlaceKept

(* A step of which no task takes a new place. *)
LEMMA SpacedStill ==
  ASSUME NEW s \in Tasks, NEW t \in Tasks, Sits(s), Sits(t), Spaced(s, t), SameWork(t)
  PROVE  Spaced(s, t)'
<1>1. SUFFICES ASSUME s # t
               PROVE  Apart(s, t)' /\ \A h \in Handlers : Works(h, t)' => PlaceKept(h, s, t)'
  BY DEF Spaced
<1>2. Apart(s, t)'
  BY <1>1, SitApart DEF Spaced
<1>3. ASSUME NEW h \in Handlers, Works(h, t)'
      PROVE  PlaceKept(h, s, t)'
  BY <1>1, <1>3, SitsPlaceKept DEF Spaced, SameWork
<1> QED
  BY <1>2, <1>3

(* A step of the handler of t after which it has no place for it, or a      *)
(* place of its own.                                                        *)
LEMMA SpacedOn ==
  ASSUME NEW s \in Tasks, NEW t \in Tasks, NEW h \in Handlers, Sits(s), Sits(t), Spaced(s, t),
         \A j \in Handlers : j # h => slots'[j] = slots[j],
         slots'[h].pc \in {"insert", "move"} /\ s # t => PlaceKept(h, s, t)'
  PROVE  Spaced(s, t)'
<1>1. SUFFICES ASSUME s # t
               PROVE  Apart(s, t)' /\ \A j \in Handlers : Works(j, t)' => PlaceKept(j, s, t)'
  BY DEF Spaced
<1>2. Apart(s, t)'
  BY <1>1, SitApart DEF Spaced
<1>3. PlaceKept(h, s, t)'
  BY <1>1 DEF PlaceKept
<1>4. ASSUME NEW j \in Handlers, j # h, Works(j, t)'
      PROVE  PlaceKept(j, s, t)'
  <2>1. slots'[j] = slots[j] /\ Works(j, t)
    BY <1>4 DEF Works, Busy, Holds
  <2> QED
    BY <1>1, <2>1, SitsPlaceKept DEF Spaced
<1> QED
  BY <1>2, <1>3, <1>4

(* The two steps that put a task in a new place. *)
LEMMA SpacedMove ==
  ASSUME Shape, RacesSeen, [Next]_vars, \A s, t \in Tasks : Spaced(s, t),
         NEW h \in Handlers, CreateInsert(h) \/ StatusWrite(h), NEW r \in Tasks, NEW s \in Tasks
  PROVE  Spaced(r, s)'
<1> DEFINE request == slots[h].request
<1>1. PICK t \in Tasks :
        /\ t = request.task /\ Of(request) = {t} /\ Busy(h) /\ slots'[h].pc = "notify"
        /\ \A u \in Tasks : u # t => Beside(u)
        /\ excuses[t] \subseteq excuses'[t]
        /\ \A j \in Handlers : j # h => slots'[j] = slots[j]
  <2>1. CASE CreateInsert(h)
    BY <2>1, InsertWrites
  <2>2. CASE StatusWrite(h)
    BY <2>2, StatusWrites DEF Busy, Holds
  <2> QED
    BY <2>1, <2>2
<1>2. Works(h, t)
  BY <1>1 DEF Works
<1>3. \A u \in Tasks : (u # t => Sits(u)) /\ (Excused(u) => Excused(u)')
  BY <1>1, BesideSits DEF Sits, Excused
<1>4. ASSUME NEW u \in Tasks, u # t
      PROVE  Apart(u, t)'
  <2>1. PlaceKept(h, u, t)
    BY <1>1, <1>2, <1>4 DEF Spaced
  <2>2. CASE CreateInsert(h)
    <3>1. /\ slots[h].pc = "insert" /\ tasks'[t].project = request.project
          /\ tasks'[t].status = "OPEN" /\ tasks'[t].order = slots[h].order
      BY <1>1, <2>2, InsertWrites, ZenonT(40) DEF CreateInsert, Holds
    <3> QED
      BY <1>3, <1>4, <2>1, <3>1 DEF Apart, PlaceKept, Sits
  <2>3. CASE StatusWrite(h)
    <3> DEFINE set == request.set
    <3>1. /\ slots[h].pc = "move" /\ Live(t)
          /\ tasks'[t] = Moved(tasks[t], set.status, slots[h].order, slots[h].stamped)
          /\ excuses'[t] = excuses[t] \cup Shuffles(set)
      BY <1>1, <2>3, StatusWrites
    <3>2. /\ tasks'[t].project = tasks[t].project /\ tasks'[t].status = set.status
          /\ tasks'[t].order = slots[h].order
      BY <3>1 DEF Moved
    <3>3. CASE Has(set, "order")
      <4>1. Excused(t)'
        BY <3>1, <3>3 DEF Excused, Shuffles
      <4> QED
        BY <4>1 DEF Apart
    <3>4. CASE ~ Has(set, "order")
      BY <1>3, <1>4, <2>1, <3>1, <3>2, <3>4 DEF Apart, PlaceKept, Sits
    <3> QED
      BY <3>3, <3>4
  <2> QED
    BY <2>2, <2>3
<1>5. SUFFICES ASSUME r # s
               PROVE  Apart(r, s)' /\ \A j \in Handlers : Works(j, s)' => PlaceKept(j, r, s)'
  BY DEF Spaced
<1>6. Apart(r, s)'
  <2>1. CASE s = t
    BY <1>4, <1>5, <2>1
  <2>2. CASE r = t
    BY <1>4, <1>5, <2>2 DEF Apart
  <2>3. CASE r # t /\ s # t
    BY <1>3, <1>5, <2>3, SitApart DEF Spaced
  <2> QED
    BY <2>1, <2>2, <2>3
<1>7. ASSUME NEW j \in Handlers, Works(j, s)'
      PROVE  PlaceKept(j, r, s)'
  <2>1. CASE j = h
    BY <1>1, <2>1 DEF PlaceKept
  <2>2. CASE j # h
    <3>1. Works(j, s)
      BY <1>1, <1>7, <2>2 DEF Works, Busy, Holds
    <3>2. Excused(s)
      BY <1>1, <2>2, <3>1 DEF RacesSeen, Excused
    <3>3. Excused(s)'
      BY <1>3, <3>2
    <3> QED
      BY <3>3 DEF PlaceKept
  <2> QED
    BY <2>1, <2>2
<1> QED
  BY <1>6, <1>7

(* The two steps that choose a place. *)
LEMMA SpacedRead ==
  ASSUME Shape, \A s, t \in Tasks : Spaced(s, t),
         NEW h \in Handlers, CreatePlace(h) \/ StatusRead(h), NEW s \in Tasks, NEW t \in Tasks
  PROVE  Spaced(s, t)'
<1> DEFINE request == slots[h].request
<1>1. /\ UNCHANGED <<Board0, Queue0, excuses>> /\ \A j \in Handlers : j # h => slots'[j] = slots[j]
      /\ \A u \in Tasks : u \notin Of(request) => Beside(u)
  BY ReadsLook
<1>2. tasks' = tasks /\ excuses' = excuses
  BY <1>1 DEF Board0
<1>3. Sits(s) /\ Sits(t)
  BY <1>2, SitStill
<1>4. CASE t \notin Of(request)
  <2>1. SameWork(t)
    BY <1>1, <1>4 DEF Beside
  <2> QED
    BY <1>3, <2>1, SpacedStill
<1>5. CASE t \in Of(request)
  <2>1. ASSUME s # t
        PROVE  PlaceKept(h, s, t)'
    <3>1. CASE CreatePlace(h)
      <4> DEFINE slot == [pc |-> "insert", request |-> request,
                          order |-> NextSortOrder(request.project, "OPEN")]
      <4>1. Becomes(h, slot)
        BY <3>1 DEF CreatePlace
      <4>2. slots'[h] = slot
        BY <4>1, SlotMoves DEF Shape
      <4>3. /\ slots'[h].pc = "insert" /\ slots'[h].request = request
            /\ slots'[h].order = NextSortOrder(request.project, "OPEN")
        BY <4>2
      <4>4. Live(s) /\ tasks[s].project = request.project /\ tasks[s].status = "OPEN" =>
              tasks[s].order < NextSortOrder(request.project, "OPEN")
        BY NextIsBeyond DEF InColumn, Shape
      <4>5. Live(s) => tasks[s].order \in Int
        BY RowColumns DEF Shape
      <4>6. NextSortOrder(request.project, "OPEN") \in Int
        BY NextIsBeyond DEF Shape
      <4>7. Live(s) /\ tasks[s].project = request.project /\ tasks[s].status = "OPEN" =>
              tasks[s].order # NextSortOrder(request.project, "OPEN")
        BY <4>4, <4>5, <4>6
      <4> QED
        BY <1>2, <4>3, <4>7 DEF PlaceKept, Live
    <3>2. CASE StatusRead(h)
      <4> DEFINE row == tasks[request.task]
                 next == NextSortOrder(row.project, request.set.status)
                 order == IF Has(request.set, "order") THEN request.set.order
                          ELSE IF request.set.status = row.status THEN row.order ELSE next
                 slot == [pc |-> "move", request |-> request, was |-> slots[h].was,
                          order |-> order, stamped |-> row.done]
      <4>1. Becomes(h, slot) /\ slots[h].pc = "weigh"
        BY <3>2 DEF StatusRead, Holds
      <4>2. slots'[h] = slot
        BY <4>1, SlotMoves DEF Shape
      <4>3. slots'[h].pc = "move" /\ slots'[h].request = request /\ slots'[h].order = order
        BY <4>2
      <4>4. request.task = t
        BY <1>5, <4>1, SubjectOf DEF Shape, SlotsOK, IsSlot
      <4> HIDE DEF slot, next
      <4>5. ASSUME Live(s), Live(t), tasks[s].project = tasks[t].project,
                   tasks[s].status = request.set.status, ~ Has(request.set, "order")
            PROVE  Excused(s) \/ Excused(t) \/ tasks[s].order # order
        <5>1. CASE request.set.status = row.status
          BY <2>1, <4>4, <4>5, <5>1 DEF Spaced, Apart
        <5>2. CASE request.set.status # row.status
          <6>1. order = next
            BY <4>5, <5>2
          <6>2. tasks[s].order < next /\ next \in Int
            BY <4>4, <4>5, NextIsBeyond DEF InColumn, Shape, next
          <6>3. tasks[s].order \in Int
            BY <4>5, RowColumns DEF Shape
          <6> QED
            BY <6>1, <6>2, <6>3
        <5> QED
          BY <5>1, <5>2
      <4> HIDE DEF order
      <4>6. /\ Live(s)' <=> Live(s)
            /\ Live(t)' <=> Live(t)
            /\ Excused(s)' <=> Excused(s)
            /\ Excused(t)' <=> Excused(t)
        BY <1>2 DEF Live, Excused
      <4> QED
        BY <1>2, <4>3, <4>5, <4>6 DEF PlaceKept
    <3> QED
      BY <3>1, <3>2
  <2> QED
    BY <1>1, <1>3, <2>1, SpacedOn
<1> QED
  BY <1>4, <1>5

LEMMA SpacedKept ==
  ASSUME Shape, RacesSeen, [Next]_vars, \A s, t \in Tasks : Spaced(s, t),
         NEW s \in Tasks, NEW t \in Tasks
  PROVE  Spaced(s, t)'
<1>1. CASE \A u \in Tasks : Beside(u)
  BY <1>1, BesideSits, SpacedStill DEF Beside
<1>2. ASSUME NEW h \in Handlers, NEW request \in agenda,
             Create(h, request) \/ Patch(h, request) \/ WipeTasks(h, request)
      PROVE  Spaced(s, t)'
  <2>1. \A j \in Handlers : j # h => slots'[j] = slots[j]
    BY <1>2, SlotMoves, TakesLook DEF Take, Shape
  <2>2. \A u \in Tasks : Sits(u)
    <3>1. Take(h, request, slots'[h]) /\ UNCHANGED <<Board0, Queue0>>
      BY <1>2, TakesLook
    <3>2. tasks' = tasks /\ \A u \in Tasks : excuses[u] \subseteq excuses'[u]
      BY <3>1 DEF Take, Meet, Board0
    <3> QED
      BY <3>2, SitStill
  <2>3. slots'[h].pc \in {"place", "read", "weigh", "wipe"}
    <3>1. CASE Create(h, request)
      <4> DEFINE slot == [pc |-> "place", request |-> request]
      <4>1. Becomes(h, slot) /\ slot.pc = "place"
        BY <3>1 DEF Create, Take
      <4> HIDE DEF slot
      <4> QED
        BY <4>1, SlotMoves DEF Shape
    <3>2. CASE Patch(h, request)
      <4> DEFINE slot == [pc |-> IF Fields(request.set) THEN "read" ELSE "weigh",
                          request |-> request, was |-> tasks[request.task].assignee]
      <4>1. Becomes(h, slot) /\ slot.pc \in {"read", "weigh"}
        BY <3>2 DEF Patch, Take
      <4> HIDE DEF slot
      <4> QED
        BY <4>1, SlotMoves DEF Shape
    <3>3. CASE WipeTasks(h, request)
      <4> DEFINE slot == [pc |-> "wipe", request |-> request, doomed |-> {u \in Tasks : Live(u)}]
      <4>1. Becomes(h, slot) /\ slot.pc = "wipe"
        BY <3>3 DEF WipeTasks, Take
      <4> HIDE DEF slot
      <4> QED
        BY <4>1, SlotMoves DEF Shape
    <3> QED
      BY <1>2, <3>1, <3>2, <3>3
  <2>4. slots'[h].pc \notin {"insert", "move"}
    BY <2>3
  <2> QED
    BY <2>1, <2>2, <2>4, SpacedOn
<1>3. ASSUME NEW h \in Handlers, NEW request \in agenda, Drop(h, request)
      PROVE  Spaced(s, t)'
  <2>1. PICK r \in Tasks :
          /\ \A u \in Tasks : u # r => Beside(u)
          /\ tasks'[r] = Gone /\ excuses[r] \subseteq excuses'[r] /\ slots'[h].pc = "forget"
          /\ \A j \in Handlers : j # h => slots'[j] = slots[j]
    BY <1>3, Drops
  <2>2. Sits(r)
    BY <2>1 DEF Sits, Excused, Live, Gone, Statuses
  <2>3. \A u \in Tasks : Sits(u)
    BY <2>1, <2>2, BesideSits
  <2> QED
    BY <2>1, <2>3, SpacedOn
<1>4. ASSUME NEW h \in Handlers, UpdateRead(h)
      PROVE  Spaced(s, t)'
  <2>1. /\ UNCHANGED <<Board0, Queue0, excuses>> /\ \A j \in Handlers : j # h => slots'[j] = slots[j]
    BY <1>4, ReadsLook
  <2>2. \A u \in Tasks : Sits(u)
    BY <2>1, SitStill DEF Board0
  <2>3. slots'[h].pc = "update"
    BY <1>4, SlotMoves DEF UpdateRead, Shape
  <2> QED
    BY <2>1, <2>2, <2>3, SpacedOn
<1>5. ASSUME NEW h \in Handlers, UpdateWrite(h)
      PROVE  Spaced(s, t)'
  <2> DEFINE set == slots[h].request.set
  <2>1. PICK r \in Tasks :
          /\ r = slots[h].request.task
          /\ \A u \in Tasks : u # r => Beside(u)
          /\ Live(r) /\ tasks'[r] = Written(tasks[r], set)
          /\ excuses'[r] = excuses[r] \cup Shuffles(set)
          /\ slots'[h].pc = IF Has(set, "status") THEN "weigh" ELSE "notify"
          /\ \A j \in Handlers : j # h => slots'[j] = slots[j]
    BY <1>5, UpdateWrites
  <2>2. Has(set, "project") \/ Has(set, "order") => Excused(r)'
    BY <2>1 DEF Excused, Shuffles, Has
  <2>3. /\ tasks'[r].status = tasks[r].status
        /\ ~ Has(set, "project") => tasks'[r].project = tasks[r].project
        /\ ~ Has(set, "order") => tasks'[r].order = tasks[r].order
    BY <2>1, WrittenColumns DEF Has
  <2>4. Sits(r)
    BY <2>1, <2>2, <2>3 DEF Sits, Excused
  <2>5. \A u \in Tasks : Sits(u)
    BY <2>1, <2>4, BesideSits
  <2> QED
    BY <2>1, <2>5, SpacedOn
<1>6. ASSUME NEW h \in Handlers, NEW r \in Tasks, \A u \in Tasks : u # r => Beside(u),
             tasks' = tasks, excuses[r] \subseteq excuses'[r],
             slots'[h].pc \in {"idle", "cancel", "remind"},
             \A j \in Handlers : j # h => slots'[j] = slots[j]
      PROVE  Spaced(s, t)'
  <2>1. \A u \in Tasks : Sits(u)
    BY <1>6, SitStill, BesideSits
  <2> QED
    BY <1>6, <2>1, SpacedOn
<1>7. ASSUME NEW h \in Handlers, Notify(h) \/ Cancel(h) \/ Remind(h) \/ DropCancel(h)
      PROVE  Spaced(s, t)'
  <2>1. CASE Notify(h)
    BY <1>6, <2>1, NotifySays DEF Board0
  <2>2. CASE Cancel(h)
    BY <1>6, <2>2, CancelSays DEF Board0
  <2>3. CASE Remind(h)
    BY <1>6, <2>3, RemindSays DEF Board0
  <2>4. CASE DropCancel(h)
    BY <1>6, <2>4, DropCancels DEF Board0
  <2> QED
    BY <1>7, <2>1, <2>2, <2>3, <2>4
<1>8. ASSUME NEW h \in Handlers, Fail(h)
      PROVE  Spaced(s, t)'
  <2>1. /\ \A u \in Tasks : excuses[u] \subseteq excuses'[u] /\ tasks' = tasks
        /\ slots'[h].pc = "idle" /\ \A j \in Handlers : j # h => slots'[j] = slots[j]
    BY <1>8, Fails DEF Board0
  <2>2. tasks' = tasks
    BY <1>8, Fails DEF Board0
  <2>3. \A u \in Tasks : Sits(u)
    BY <2>1, <2>2, SitStill
  <2> QED
    BY <2>1, <2>3, SpacedOn
<1>9. ASSUME NEW r \in Tasks, WorkerTakes(r) \/ WorkerDelivers(r)
       PROVE  Spaced(s, t)'
  <2>1. tasks' = tasks /\ slots' = slots /\ excuses' = excuses
    BY <1>9, WorkerWorks DEF Board0
  <2> QED
    BY <2>1, SitStill, StillAtWork, SpacedStill
<1>10. ASSUME NEW h \in Handlers, HandlerStep(h)
       PROVE  Spaced(s, t)'
  BY <1>1, <1>2, <1>3, <1>4, <1>5, <1>7, <1>8, <1>10, SpacedMove, SpacedRead, WipeCommits
     DEF HandlerStep
<1> QED
  BY <1>1, <1>9, <1>10, NothingHappens, OneSteps DEF Next

(* Tasks of a column have places of their own, but for the overlaps and the *)
(* requests that the property names.                                        *)
THEOREM TasksHaveTheirPlaces == Spec => []PlacesAreOwn
<1> DEFINE IInv == Shape /\ RacesSeen /\ \A s, t \in Tasks : Spaced(s, t)
<1>1. Init => IInv
  <2>1. SUFFICES ASSUME Init
                 PROVE  IInv
    OBVIOUS
  <2>2. Shape /\ RacesSeen
    BY <2>1, InitShape DEF RacesSeen
  <2>3. \A s, t \in Tasks : Spaced(s, t)
    BY <2>1, InitTasks DEF Spaced, Apart
  <2> QED
    BY <2>2, <2>3
<1>2. IInv /\ [Next]_vars => IInv'
  BY ShapeKept, RacesKept, SpacedKept
<1>3. IInv => PlacesAreOwn
  BY DEF PlacesAreOwn, Spaced, Apart, Excused
<1> QED
  <2> HIDE DEF IInv
  <2> QED
    BY <1>1, <1>2, <1>3, PTL DEF Spec

-----------------------------------------------------------------------------
(* Counts *)

LEMMA GroupCounts ==
  ASSUME Shape, NEW project \in Groups
  PROVE  /\ Stats(project).total = Counts(project).open + Counts(project).completed
         /\ Stats(project).completed = Counts(project).completed
         /\ Stats(project).overdue = Counts(project).overdue
<1> DEFINE listed == Listed(project)
           completed == InColumn(project, "COMPLETED")
           unfinished == InColumn(project, "OPEN") \cup InColumn(project, "IN_PROGRESS")
<1>1. project # "all"
  BY BoardAssumption
<1>2. completed \subseteq Tasks /\ unfinished \subseteq Tasks
  BY DEF InColumn
<1>3. listed = unfinished \cup completed /\ unfinished \cap completed = {}
  <2>1. ASSUME NEW t \in Tasks
        PROVE  /\ t \in listed <=> t \in unfinished \cup completed
               /\ ~ (t \in unfinished /\ t \in completed)
    BY <1>1 DEF Listed, InColumn, Live, Statuses
  <2>2. listed \subseteq Tasks
    BY DEF Listed
  <2> QED
    BY <1>2, <2>1, <2>2
<1>4. /\ completed = {t \in listed : tasks[t].status = "COMPLETED"}
      /\ {t \in listed \ completed : tasks[t].due \in Past}
           = {t \in unfinished : tasks[t].due \in Past}
  <2>1. \A t \in listed : tasks[t].status = "COMPLETED" <=> t \in completed
    BY <1>1 DEF Listed, InColumn
  <2> HIDE DEF listed, completed, unfinished
  <2> QED
    BY <1>3, <2>1
<1>5. Cardinality(listed) = Cardinality(unfinished) + Cardinality(completed)
  <2>1. IsFiniteSet(completed) /\ IsFiniteSet(unfinished)
    BY <1>2, BoardAssumption, FS_Subset
  <2> HIDE DEF listed, completed, unfinished
  <2>2. Cardinality(unfinished \cap completed) = 0
    BY <1>3, FS_EmptySet
  <2>3. /\ Cardinality(completed) \in Nat /\ Cardinality(unfinished) \in Nat
        /\ Cardinality(unfinished \cup completed) =
             Cardinality(unfinished) + Cardinality(completed) - Cardinality(unfinished \cap completed)
    BY <2>1, FS_Union, FS_CardinalityType
  <2> QED
    BY <1>3, <2>2, <2>3
<1>6. /\ Stats(project).total = Cardinality(listed)
      /\ Stats(project).completed = Cardinality({t \in listed : tasks[t].status = "COMPLETED"})
      /\ Stats(project).overdue =
           Cardinality({t \in listed \ {u \in listed : tasks[u].status = "COMPLETED"} :
                          tasks[t].due \in Past})
  BY DEF Stats
<1>7. /\ Counts(project).open = Cardinality(unfinished)
      /\ Counts(project).completed = Cardinality(completed)
      /\ Counts(project).overdue = Cardinality({t \in unfinished : tasks[t].due \in Past})
  BY DEF Counts
<1> HIDE DEF listed, completed, unfinished
<1>8. {t \in listed \ {u \in listed : tasks[u].status = "COMPLETED"} : tasks[t].due \in Past}
        = {t \in unfinished : tasks[t].due \in Past}
  BY <1>4
<1> QED
  BY <1>4, <1>5, <1>6, <1>7, <1>8

(* The summaries of the projects count as their lists do, and every task of *)
(* a list is in one project and one column of it.                           *)
THEOREM SummariesCountTheLists == Spec => []CountsAgree
<1>1. Init => Shape
  BY InitShape
<1>2. Shape /\ [Next]_vars => Shape'
  BY ShapeKept
<1>3. Shape => CountsAgree
  <2>1. SUFFICES ASSUME Shape
                 PROVE  CountsAgree
    OBVIOUS
  <2>2. ASSUME NEW t \in Listed("all")
        PROVE  Cardinality({project \in Groups : t \in Listed(project)}) = 1
    <3>1. t \in Tasks /\ Live(t) /\ tasks[t].status # "ARCHIVED"
      BY <2>2 DEF Listed
    <3>2. tasks[t].project \in Groups
      BY <2>1, <3>1, RowColumns DEF Shape
    <3>3. \A project \in Groups : t \in Listed(project) <=> project = tasks[t].project
      BY <3>1, BoardAssumption DEF Listed
    <3>4. {project \in Groups : t \in Listed(project)} = {tasks[t].project}
      BY <3>2, <3>3
    <3> QED
      BY <3>4, FS_Singleton
  <2>3. ASSUME NEW scope \in Groups \cup {"all"}, NEW t \in Listed(scope)
        PROVE  Cardinality({s \in BoardStatuses : t \in Board(scope)[s]}) = 1
    <3>1. tasks[t].status \in BoardStatuses
      BY <2>3 DEF Listed, Live, Statuses, BoardStatuses
    <3>2. \A s \in BoardStatuses : t \in Board(scope)[s] <=> s = tasks[t].status
      BY <2>3 DEF Board
    <3>3. {s \in BoardStatuses : t \in Board(scope)[s]} = {tasks[t].status}
      BY <3>1, <3>2
    <3> QED
      BY <3>3, FS_Singleton
  <2> QED
    BY <2>1, <2>2, <2>3, GroupCounts DEF CountsAgree
<1> QED
  BY <1>1, <1>2, <1>3, PTL DEF Spec
=============================================================================
