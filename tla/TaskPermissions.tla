-------------------------- MODULE TaskPermissions --------------------------
(***************************************************************************)
(* What a member of a tenant may do with its tasks: the capabilities of    *)
(* the member's identity roles, plus the overrides ("policies") stored for *)
(* the member, app-level or for one project.  Pure definitions; the table  *)
(* the overrides are kept in is module TaskPolicies.                       *)
(***************************************************************************)
EXTENDS Integers

Actions == {"view", "create", "edit", "comment", "assign", "manage"}

(* What a policy row can turn on. *)
Switches == {"manage", "edit", "comment", "assign"}

(* The names the table knows; any other role counts for nothing. *)
Roles == {"OWNER", "ADMIN", "tasks:admin", "EDITOR", "MEMBER", "CONTRIBUTOR",
          "ANALYST", "VIEWER"}

RoleCapabilities(role) ==
  CASE role \in {"OWNER", "ADMIN", "tasks:admin"} -> Actions
    [] role = "EDITOR" -> Actions \ {"manage"}
    [] role \in {"MEMBER", "CONTRIBUTOR"} -> {"view", "create", "edit", "comment"}
    [] role \in {"ANALYST", "VIEWER"} -> {"view", "comment"}
    [] OTHER -> {}

(* Some capabilities bring others with them, in the order of the code. *)
AfterManage(caps) == caps \cup (IF "manage" \in caps THEN {"create", "edit", "assign"} ELSE {})
AfterEdit(caps) == caps \cup (IF caps \cap {"edit", "assign"} # {} THEN {"create", "view"} ELSE {})
AfterComment(caps) == caps \cup (IF "comment" \in caps THEN {"view"} ELSE {})

Merge(base, modifier) == AfterComment(AfterEdit(AfterManage(base \cup modifier)))

(* The merge of one role after another comes to the merge of all at once    *)
(* (theorem MergeTwice of TaskPoliciesProofs).                              *)
RoleBase(roles) == Merge({"view", "comment"}, UNION {RoleCapabilities(role) : role \in roles})

(* global is what the first app-level policy turns on, scoped what the      *)
(* policy of the project that is asked about does; {} without one.          *)
Evaluate(roles, global, scoped, action) ==
  LET base == Merge(RoleBase(roles), global) IN
    \/ "manage" \in base
    \/ action \in base
    \/ action \in Merge(base, scoped)

(* Every route asks without naming a project. *)
RouteAllows(roles, global, action) == Evaluate(roles, global, {}, action)
=============================================================================
