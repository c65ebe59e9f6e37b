----------------------------- MODULE MCTasksPage -----------------------------
(* Small instances of TasksPage for TLC. *)
EXTENDS TasksPage, TLC

CONSTANTS A, B, t1, t2, t3, u1, p1, p2

MCTenantOf == (t1 :> A) @@ (t2 :> A) @@ (t3 :> A) @@ (u1 :> B) @@ (p1 :> A) @@ (p2 :> A)

Row(t, op) == [kind |-> "row", task |-> t, op |-> op]
Panel(op) == [kind |-> "panel", op |-> op]
Act(kind, t) == [kind |-> kind, task |-> t]
Details(comment) == [kind |-> "details", comment |-> comment]
SwitchTo(tenant) == [kind |-> "switch", tenant |-> tenant]
To(kind, to) == [kind |-> kind, to |-> to]
MakeProject(p) == [kind |-> "project", project |-> p]
Close == [kind |-> "close"]

Failure == [kind |-> "failure"]

MCPlans ==
  { (* moving between tenants, filters and views while a task changes *)
    {SwitchTo(B), Row(t1, "toggle")},
    {To("filter", p1), To("view", "my"), Row(t1, "assign")},
    {SwitchTo(B), Act("select", t1), SwitchTo(A)},
    {SwitchTo(B), Failure},
    {To("filter", "unassigned"), Act("create", t3)},
    (* one task after another in the panel *)
    {Act("select", t1), Act("select", t2), Details(TRUE)},
    {Act("select", t1), Act("select", t2), Details(FALSE), Failure},
    {Act("select", t1), Panel("unfile"), Row(t1, "delete")},
    {Act("select", t1), Panel("assign"), SwitchTo(B)},
    {Act("select", t1), Act("collaborate", t1), Close},
    (* new tasks and projects *)
    {To("filter", p1), Act("create", t3), Act("select", t1)},
    {MakeProject(p2), Act("create", t3), Failure},
    {MakeProject(p2), To("view", "board")} }
=============================================================================
