----------------------------- MODULE ProjectsPage -----------------------------
(***************************************************************************)
(* The Projects page of one browser: the list with its summaries, the      *)
(* dialog that makes and edits a project, the menu that deletes one, and   *)
(* the tenant of the TenantProvider around it.                             *)
(*                                                                         *)
(* An edit and a deletion put their own answer into the list, a creation   *)
(* loads it again; each asks for the context anew, for the tenant it was   *)
(* made in.  Rows and summaries are read one after the other.              *)
(*                                                                         *)
(* Left out: what a project is apart from its edition, toasts, archiving   *)
(* (no control of this page does it), tasks, other users.                  *)
(***************************************************************************)
EXTENDS Integers, Sequences, FiniteSets

CONSTANTS
  Tenants, NoTenant, Home,   \* Home: the tenant the first context names
  Projects, TenantOf, NoProject,
  Given,                     \* the projects that are there
  Managed,                   \* the tenants where the user may manage
  MaxActs                    \* how much the user does

ProjectsAssumption ==
  /\ Home \in Tenants /\ NoTenant \notin Tenants /\ NoProject \notin Projects
  /\ TenantOf \in [Projects -> Tenants]
  /\ Given \subseteq Projects /\ Managed \subseteq Tenants
  /\ MaxActs \in Nat

VARIABLES
  table,     \* each project's edition: 0 before it is made, -1 when deleted
  writes,    \* how often the table was written
  page,      \* the state of the components
  calls,     \* requests in flight, in the order they were sent
  acts,      \* how much the user has done
  wanted,    \* history: the tenant the user chose last
  excuses    \* history: what has happened out of the ordinary

vars == <<table, writes, page, calls, acts, wanted, excuses>>

Live(p) == table[p] > 0
RowsOf(tenant) == [p \in {q \in Projects : Live(q) /\ TenantOf[q] = tenant} |-> table[p]]

Closed == [mode |-> "closed", project |-> NoProject]
Making == [mode |-> "create", project |-> NoProject]
Editing(p) == [mode |-> "edit", project |-> p]

Unread == [at |-> -1]
Read(tenant) == [at |-> writes, is |-> RowsOf(tenant)]

Call(what, tenant, p) ==
  [what |-> what, tenant |-> tenant, project |-> p, state |-> "sent",
   rows |-> Unread, sums |-> Unread, then |-> <<>>]

Without(i) == SubSeq(calls, 1, i - 1) \o SubSeq(calls, i + 1, Len(calls))

-----------------------------------------------------------------------------
(* The user *)

Does == acts < MaxActs /\ acts' = acts + 1

(* switchTenant, from the shell around the page; the dialog covers it. *)
Switch ==
  /\ Does /\ page.dialog = Closed
  /\ \E tenant \in Tenants \ {page.tenant} :
       /\ calls' = Append(calls, Call("context", tenant, NoProject))
       /\ wanted' = tenant
  /\ page' = [page EXCEPT !.waiting = TRUE]
  /\ UNCHANGED <<table, writes, excuses>>

(* openCreateDialog: the button is enabled until a list says that the user  *)
(* may not manage.                                                          *)
OpenCreate ==
  /\ page.dialog = Closed /\ ~ page.creating /\ ~ page.waiting
  /\ page.tenant # NoTenant /\ page.manage # "no"
  /\ page' = [page EXCEPT !.dialog = Making]
  /\ UNCHANGED <<table, writes, calls, acts, wanted, excuses>>

(* The cards, with their menus, while nothing is loading. *)
Shown(p) == ~ page.waiting /\ ~ page.loading /\ page.manage = "yes" /\ p \in DOMAIN page.rows

(* openEditDialog *)
OpenEdit(p) ==
  /\ page.dialog = Closed /\ Shown(p)
  /\ page' = [page EXCEPT !.dialog = Editing(p)]
  /\ UNCHANGED <<table, writes, calls, acts, wanted, excuses>>

(* closeDialog *)
Close ==
  /\ page.dialog # Closed /\ ~ page.creating
  /\ page' = [page EXCEPT !.dialog = Closed]
  /\ UNCHANGED <<table, writes, calls, acts, wanted, excuses>>

(* handleSubmitProject *)
Submit ==
  /\ Does /\ page.dialog # Closed /\ ~ page.creating
  /\ IF page.dialog.mode = "edit"
     THEN calls' = Append(calls, Call("edit", page.tenant, page.dialog.project))
     ELSE \E p \in Projects :
            /\ table[p] = 0 /\ TenantOf[p] = page.tenant
            /\ calls' = Append(calls, Call("create", page.tenant, p))
  /\ page' = [page EXCEPT !.creating = TRUE]
  /\ UNCHANGED <<table, writes, wanted, excuses>>

(* handleDeleteProject: the one button is disabled that names the project   *)
(* deleted last.                                                            *)
Delete(p) ==
  /\ Does /\ page.dialog = Closed /\ Shown(p) /\ page.deleting # p
  /\ calls' = Append(calls, Call("delete", page.tenant, p))
  /\ page' = [page EXCEPT !.deleting = p]
  /\ UNCHANGED <<table, writes, wanted, excuses>>

-----------------------------------------------------------------------------
(* The service *)

Step(i, state) == [calls EXCEPT ![i].state = state]

(* POST, PATCH and DELETE: refused without "manage", or when the tenant has *)
(* no such project.                                                         *)
Write(i) ==
  LET call == calls[i]  p == call.project
      allowed == call.tenant \in Managed
                 /\ (call.what = "create" \/ (Live(p) /\ TenantOf[p] = call.tenant))
  IN  /\ call.what \in {"create", "edit", "delete"} /\ call.state = "sent"
      /\ IF allowed
         THEN /\ table' = [table EXCEPT ![p] = CASE call.what = "create" -> 1
                                                 [] call.what = "edit" -> @ + 1
                                                 [] OTHER -> -1]
              /\ writes' = writes + 1
              /\ calls' = [calls EXCEPT ![i].state = "written",
                                        ![i].rows = [at |-> writes + 1, is |-> table'[p]]]
         ELSE /\ calls' = Step(i, "refused")
              /\ UNCHANGED <<table, writes>>
      /\ UNCHANGED <<page, acts, wanted, excuses>>

(* Rows and summaries are read in transactions of their own, in any order   *)
(* by GET, after the write by PATCH and DELETE; POST gives no summaries.    *)
ReadRows(i) ==
  /\ calls[i].what = "list" /\ calls[i].rows = Unread
  /\ calls' = [calls EXCEPT ![i].rows = Read(calls[i].tenant)]
  /\ UNCHANGED <<table, writes, page, acts, wanted, excuses>>

ReadSums(i) ==
  /\ \/ calls[i].what = "list"
     \/ calls[i].what \in {"edit", "delete"} /\ calls[i].state = "written"
  /\ calls[i].sums = Unread
  /\ calls' = [calls EXCEPT ![i].sums = Read(calls[i].tenant)]
  /\ UNCHANGED <<table, writes, page, acts, wanted, excuses>>

-----------------------------------------------------------------------------
(* The answers.  What is shown of a tenant that is not the page's any more, *)
(* or from before what is shown already, is noted.                          *)

Stray(call) ==
  IF call.tenant # page.tenant /\ page.listed = page.tenant THEN {"strayed"} ELSE {}
Late(call) ==
  IF call.sums.at < page.sums.at \/ call.rows.at < page.rowsAt THEN {"late"} ELSE {}

Later(a, b) == IF a > b THEN a ELSE b

(* loadProjects; a creation goes on to refresh the context. *)
TakeList(i) ==
  /\ calls[i].what = "list" /\ Unread \notin {calls[i].rows, calls[i].sums}
  /\ LET call == calls[i] IN
       /\ page' = [page EXCEPT !.rows = call.rows.is, !.rowsAt = call.rows.at, !.sums = call.sums,
                               !.listed = call.tenant, !.loading = FALSE,
                               !.waiting = @ \/ call.then # <<>>,
                               !.manage = IF call.tenant \in Managed THEN "yes" ELSE "no"]
       /\ calls' = Without(i) \o call.then
       /\ excuses' = excuses \cup Stray(call) \cup Late(call)
  /\ UNCHANGED <<table, writes, acts, wanted>>

(* What the answers of PATCH and DELETE do to the list. *)
Patched(call) ==
  IF call.what = "delete" THEN [p \in DOMAIN page.rows \ {call.project} |-> page.rows[p]]
  ELSE [p \in DOMAIN page.rows |-> IF p = call.project THEN call.rows.is ELSE page.rows[p]]

(* Mutant: a deleted card is left in the list. *)
TakeWriteOnlySums(i) ==
  /\ calls[i].what \in {"edit", "delete"} /\ calls[i].sums # Unread
  /\ LET call == calls[i] IN
       /\ page' = [page EXCEPT !.rowsAt = Later(@, call.rows.at), !.sums = call.sums,
                               !.waiting = TRUE]
       /\ calls' = Append(Without(i), [Call("context", call.tenant, NoProject)
                                         EXCEPT !.then = <<call.what>>])
       /\ excuses' = excuses \cup Stray(call)
                       \cup (IF call.sums.at < page.sums.at THEN {"late"} ELSE {})
  /\ UNCHANGED <<table, writes, acts, wanted>>

(* The answer of PATCH or DELETE; the context is asked for after it. *)
TakeWrite(i) ==
  /\ calls[i].what \in {"edit", "delete"} /\ calls[i].sums # Unread
  /\ LET call == calls[i] IN
       /\ page' = [page EXCEPT !.rows = Patched(call), !.rowsAt = Later(@, call.rows.at),
                               !.sums = call.sums, !.waiting = TRUE]
       /\ calls' = Append(Without(i), [Call("context", call.tenant, NoProject)
                                         EXCEPT !.then = <<call.what>>])
       /\ excuses' = excuses \cup Stray(call)
                       \cup (IF call.sums.at < page.sums.at THEN {"late"} ELSE {})
  /\ UNCHANGED <<table, writes, acts, wanted>>

(* The answer of POST: loadProjects, and then refresh. *)
TakeCreate(i) ==
  /\ calls[i].what = "create" /\ calls[i].state = "written"
  /\ LET call == calls[i]
         refresh == [Call("context", call.tenant, NoProject) EXCEPT !.then = <<"create">>]
     IN  calls' = Append(Without(i), [Call("list", call.tenant, NoProject)
                                        EXCEPT !.then = <<refresh>>])
  /\ page' = [page EXCEPT !.loading = TRUE]
  /\ UNCHANGED <<table, writes, acts, wanted, excuses>>

(* The end of a handler, after its refresh or its error. *)
Finished(p, what) ==
  CASE what \in {"create", "edit"} -> [p EXCEPT !.creating = FALSE, !.dialog = Closed]
    [] what = "delete" -> [p EXCEPT !.deleting = NoProject]
    [] OTHER -> p

Handler(call) == IF call.what = "context" /\ call.then # <<>> THEN Head(call.then) ELSE "none"

(* loadContext; another tenant has its projects loaded. *)
TakeContext(i) ==
  /\ calls[i].what = "context"
  /\ LET call == calls[i]
         moved == call.tenant # page.tenant
     IN  /\ page' = [Finished(page, Handler(call))
                       EXCEPT !.tenant = call.tenant, !.waiting = FALSE,
                              !.loading = @ \/ moved]
         /\ calls' = Without(i) \o
                       IF moved THEN <<Call("list", call.tenant, NoProject)>> ELSE <<>>
         /\ excuses' = excuses \cup IF call.tenant # wanted THEN {"rushed"} ELSE {}
  /\ UNCHANGED <<table, writes, acts, wanted>>

(* A request that is refused, or one that fails.  Loading swallows it and   *)
(* goes on; a handler stops and, of the dialog, leaves it open.             *)
Fail(i) ==
  /\ calls[i].state = "refused" \/ "failed" \notin excuses
  /\ LET call == calls[i] IN
       /\ page' =
            CASE call.what = "list" -> [page EXCEPT !.loading = FALSE, !.waiting = @ \/ call.then # <<>>]
              [] call.what = "context" -> [Finished(page, Handler(call)) EXCEPT !.waiting = FALSE]
              [] call.what = "delete" -> [page EXCEPT !.deleting = NoProject]
              [] OTHER -> [page EXCEPT !.creating = FALSE]
       /\ calls' = Without(i) \o IF call.what = "list" THEN call.then ELSE <<>>
       /\ excuses' = excuses \cup IF call.state = "refused" THEN {} ELSE {"failed"}
  /\ UNCHANGED <<table, writes, acts, wanted>>

-----------------------------------------------------------------------------
Init ==
  /\ table = [p \in Projects |-> IF p \in Given THEN 1 ELSE 0]
  /\ writes = 0
  /\ page = [tenant |-> NoTenant, waiting |-> TRUE, listed |-> NoTenant, loading |-> FALSE,
             rows |-> << >>, rowsAt |-> -1, sums |-> Unread, manage |-> "unknown",
             dialog |-> Closed, creating |-> FALSE, deleting |-> NoProject]
  /\ calls = <<Call("context", Home, NoProject)>>
  /\ acts = 0 /\ wanted = Home /\ excuses = {}

Next ==
  \/ Switch \/ OpenCreate \/ Close \/ Submit
  \/ \E p \in Projects : OpenEdit(p) \/ Delete(p)
  \/ \E i \in DOMAIN calls :
       \/ Write(i) \/ ReadRows(i) \/ ReadSums(i)
       \/ TakeList(i) \/ TakeWrite(i) \/ TakeCreate(i) \/ TakeContext(i) \/ Fail(i)

Spec == Init /\ [][Next]_vars

-----------------------------------------------------------------------------
(* When everything has been answered, the cards and their summaries are     *)
(* those of the tenant the user is in, as the service has them: unless a    *)
(* request failed, an answer came after one of a later moment, or one for   *)
(* the tenant before came after the new tenant's list.  That tenant is the  *)
(* one the user chose, unless a handler asked for its own again.            *)
ShowsTheProjects ==
  calls = <<>> /\ excuses \cap {"failed", "late", "strayed"} = {} =>
    /\ page.rows = RowsOf(page.tenant) /\ page.sums.is = RowsOf(page.tenant)
    /\ "rushed" \notin excuses => page.tenant = wanted
=============================================================================
