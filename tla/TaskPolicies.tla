---------------------------- MODULE TaskPolicies ----------------------------
(***************************************************************************)
(* The overrides of one tenant: the table tasks.task_permission_policies,  *)
(* the routes under /api/settings/permissions that read and write it, and  *)
(* the settings pages of the administrators who edit it.                   *)
(*                                                                         *)
(* upsertPermissionPolicy is a READ COMMITTED transaction that looks for a *)
(* row and then updates or inserts one; no unique index backs the look.    *)
(* A call of a page is sent, checked, carried out and answered in steps of *)
(* their own; an answer is applied together with the effects React runs    *)
(* after it.                                                               *)
(*                                                                         *)
(* Left out: toasts and error texts, the list of projects, the switch to   *)
(* another tenant (a page is reloaded instead).                            *)
(***************************************************************************)
EXTENDS TaskPermissions, FiniteSets, Sequences

CONSTANTS
  Users,             \* the members the page lists
  Admins,            \* the members with the page open
  RolesOf,           \* the identity roles of each member
  Projects, NoProject,
  MaxRows,           \* bounds the rows ever inserted
  MaxShown,          \* bounds the list of a page
  Offered,           \* the switches an administrator may flip
  Created,           \* the overrides administrators create for a project
  Calls              \* requests in flight at a time

PoliciesAssumption ==
  /\ RolesOf \in [Users \cup Admins -> SUBSET Roles]
  /\ NoProject \notin Projects
  /\ MaxRows \in Nat /\ MaxShown \in Nat
  /\ Offered \subseteq Switches /\ Created \subseteq SUBSET Switches

(* Numbered in the order of createdAt. *)
RowIds == 1..MaxRows
NoRow == 0
Scopes == Projects \cup {NoProject}

VARIABLES
  rows,    \* tasks.task_permission_policies
  pages,   \* the state of each administrator's page
  calls,   \* the requests in flight
  doubled, \* history: users and scopes two inserts of which overlapped
  behind   \* history: pages that miss a change another call made

vars == <<rows, pages, calls, doubled, behind>>

Unborn == [status |-> "unborn"]
Gone == [status |-> "gone"]
Idle == [pc |-> "idle"]

Content == [user: Users, scope: Scopes, caps: SUBSET Switches]
Rows == {Unborn, Gone} \cup [status: {"live"}, content: Content]

(* What the page keeps of a row. *)
Copies == [id: RowIds, content: Content]
Drafts == [id: RowIds \cup {NoRow}, caps: SUBSET Switches, dirty: BOOLEAN]

(* A call remembers the page it came from, unless that was reloaded. *)
Nowhere == "nowhere"
CallStates ==
       {Idle}
  \cup [pc: {"load"}, page: Admins \cup {Nowhere}]
  \cup [pc: {"loaded"}, page: Admins \cup {Nowhere}, list: Seq(Copies)]
  \cup [pc: {"find", "insert"}, page: Admins \cup {Nowhere}, content: Content]
  \cup [pc: {"update"}, page: Admins \cup {Nowhere}, content: Content, id: RowIds]
  \cup [pc: {"saved"}, page: Admins \cup {Nowhere}, copy: Copies]
  \cup [pc: {"delete", "deleted"}, page: Admins \cup {Nowhere}, copy: Copies]

Live(i) == rows[i].status = "live"

RowsFor(user, scope) ==
  {i \in RowIds : Live(i) /\ rows[i].content.user = user /\ rows[i].content.scope = scope}

-----------------------------------------------------------------------------
(* The evaluator the routes use.  The policies of a user are read without   *)
(* an order, so any of several app-level rows may come first.               *)
GlobalCaps(user) ==
  LET found == RowsFor(user, NoProject)
  IN  IF found = {} THEN {{}} ELSE {rows[i].content.caps : i \in found}

MayManage(user) == \E caps \in GlobalCaps(user) : RouteAllows(RolesOf[user], caps, "manage")

-----------------------------------------------------------------------------
(* The page *)

DefaultDraft == [id |-> NoRow, caps |-> {}, dirty |-> FALSE]

(* The effect on [policies, users]: every draft is rebuilt from the last    *)
(* app-level entry of its user.                                             *)
DraftsFrom(list) ==
  [user \in Users |->
     LET hits == {n \in 1..Len(list) : /\ list[n].content.user = user
                                       /\ list[n].content.scope = NoProject}
         last == CHOOSE n \in hits : \A m \in hits : m <= n
     IN  IF hits = {} THEN DefaultDraft
         ELSE [id |-> list[last].id, caps |-> list[last].content.caps, dirty |-> FALSE]]

Pages == [list: Seq(Copies), drafts: [Users -> Drafts], loading: BOOLEAN]

Fresh == [list |-> <<>>, drafts |-> DraftsFrom(<<>>), loading |-> TRUE]

(* setPolicies, and the effect after it. *)
Show(admin, list) ==
  pages' = [pages EXCEPT ![admin].list = list, ![admin].drafts = DraftsFrom(list)]

From(k, admin) == calls[k].pc # "idle" /\ calls[k].page = admin

Subject(call) ==
  CASE call.pc \in {"find", "insert", "update"} -> call.content
    [] call.pc \in {"saved", "delete", "deleted"} -> call.copy.content
    [] OTHER -> [user |-> Nowhere, scope |-> NoProject]

(* savingUsers: the row's controls are disabled. *)
Saving(admin, user) ==
  \E k \in Calls : /\ From(k, admin) /\ Subject(calls[k]).user = user
                   /\ Subject(calls[k]).scope = NoProject

(* creatingOverride *)
Creating(admin) ==
  \E k \in Calls : /\ From(k, admin) /\ calls[k].pc \in {"find", "insert", "update", "saved"}
                   /\ Subject(calls[k]).scope # NoProject

(* deletingPolicies *)
Deleting(admin, id) ==
  \E k \in Calls : /\ From(k, admin) /\ calls[k].pc \in {"delete", "deleted"}
                   /\ calls[k].copy.id = id

(* POST and DELETE ask for "manage" before their own transaction.  A call   *)
(* that is refused only shows a toast, so those sent are those let through; *)
(* what allowed them may be gone when their transaction runs.               *)
Send(k, call) ==
  /\ calls[k] = Idle
  /\ MayManage(call.page)
  /\ calls' = [calls EXCEPT ![k] = call]

(* Opening or reloading the page: the component starts afresh, answers to   *)
(* its old calls find nobody, and the list is fetched.                      *)
Open(admin, k) ==
  /\ calls[k] = Idle
  /\ pages' = [pages EXCEPT ![admin] = Fresh]
  /\ calls' = [j \in Calls |-> IF j = k THEN [pc |-> "load", page |-> admin]
                               ELSE IF From(j, admin) THEN [calls[j] EXCEPT !.page = Nowhere]
                               ELSE calls[j]]
  /\ behind' = behind \ {admin}
  /\ UNCHANGED <<rows, doubled>>

(* handleDraftToggle; the table is not shown while the list is loading. *)
Toggle(admin, user, switch) ==
  LET draft == pages[admin].drafts[user]
      flipped == IF switch \in draft.caps THEN draft.caps \ {switch} ELSE draft.caps \cup {switch}
  IN  /\ ~ pages[admin].loading /\ ~ Saving(admin, user)
      /\ pages' = [pages EXCEPT ![admin].drafts[user].caps = flipped,
                                ![admin].drafts[user].dirty = TRUE]
      /\ UNCHANGED <<rows, calls, doubled, behind>>

(* handleSaveDraft *)
SaveDraft(admin, user, k) ==
  LET draft == pages[admin].drafts[user] IN
    /\ ~ pages[admin].loading /\ ~ Saving(admin, user) /\ draft.dirty
    /\ Send(k, [pc |-> "find", page |-> admin,
                content |-> [user |-> user, scope |-> NoProject, caps |-> draft.caps]])
    /\ UNCHANGED <<rows, pages, doubled, behind>>

(* handleResetDraft without a stored policy: only the draft is cleared. *)
ClearDraft(admin, user) ==
  LET draft == pages[admin].drafts[user] IN
    /\ ~ pages[admin].loading /\ ~ Saving(admin, user) /\ draft.dirty /\ draft.id = NoRow
    /\ pages' = [pages EXCEPT ![admin].drafts[user] = DefaultDraft]
    /\ UNCHANGED <<rows, calls, doubled, behind>>

(* handleResetDraft with one. *)
ResetDraft(admin, user, k) ==
  LET draft == pages[admin].drafts[user] IN
    /\ ~ pages[admin].loading /\ ~ Saving(admin, user) /\ draft.id # NoRow
    /\ Send(k, [pc |-> "delete", page |-> admin,
                copy |-> [id |-> draft.id,
                          content |-> [user |-> user, scope |-> NoProject, caps |-> {}]]])
    /\ UNCHANGED <<rows, pages, doubled, behind>>

(* handleCreatePolicy, which the loading of the list does not disable. *)
CreatePolicy(admin, user, project, caps, k) ==
  /\ ~ Creating(admin)
  /\ Len(pages[admin].list) < MaxShown
  /\ Send(k, [pc |-> "find", page |-> admin,
              content |-> [user |-> user, scope |-> project, caps |-> caps]])
  /\ UNCHANGED <<rows, pages, doubled, behind>>

(* handleDeletePolicy, on an entry of the table of project overrides. *)
DeletePolicy(admin, n, k) ==
  /\ ~ pages[admin].loading
  /\ n \in 1..Len(pages[admin].list)
  /\ pages[admin].list[n].content.scope # NoProject
  /\ ~ Deleting(admin, pages[admin].list[n].id)
  /\ Send(k, [pc |-> "delete", page |-> admin, copy |-> pages[admin].list[n]])
  /\ UNCHANGED <<rows, pages, doubled, behind>>

-----------------------------------------------------------------------------
(* The routes *)

Becomes(k, call) == calls' = [calls EXCEPT ![k] = call]

(* listPermissionPolicies, oldest first. *)
Listed ==
  LET oldest[i \in 0..MaxRows] ==
        IF i = 0 THEN <<>>
        ELSE IF Live(i) THEN Append(oldest[i - 1], [id |-> i, content |-> rows[i].content])
        ELSE oldest[i - 1]
  IN  oldest[MaxRows]

(* GET *)
List(k) ==
  /\ calls[k].pc = "load" /\ calls[k].page # Nowhere
  /\ MayManage(calls[k].page)
  /\ Becomes(k, [pc |-> "loaded", page |-> calls[k].page, list |-> Listed])
  /\ UNCHANGED <<rows, pages, doubled, behind>>

(* Mutant: a policy is created, never looked for. *)
FindNothing(k) ==
  /\ calls[k].pc = "find"
  /\ Becomes(k, [calls[k] EXCEPT !.pc = "insert"])
  /\ UNCHANGED <<rows, pages, doubled, behind>>

(* The findFirst of upsertPermissionPolicy. *)
Find(k) ==
  /\ calls[k].pc = "find"
  /\ LET call == calls[k]
         found == RowsFor(call.content.user, call.content.scope)
     IN  IF found = {} THEN Becomes(k, [call EXCEPT !.pc = "insert"])
         ELSE \E i \in found :
                Becomes(k, [pc |-> "update", page |-> call.page,
                            content |-> call.content, id |-> i])
  /\ UNCHANGED <<rows, pages, doubled, behind>>

(* What a page does not learn of: every change it did not ask for itself. *)
Missed(call) == behind' = behind \cup (Admins \ {call.page})

(* Mutant: only what is switched on is written. *)
UpdateOnly(k) ==
  /\ calls[k].pc = "update" /\ Live(calls[k].id)
  /\ LET call == calls[k]
         merged == [call.content EXCEPT !.caps = @ \cup rows[call.id].content.caps]
     IN  /\ rows' = [rows EXCEPT ![call.id].content = merged]
         /\ Becomes(k, [pc |-> "saved", page |-> call.page,
                        copy |-> [id |-> call.id, content |-> call.content]])
         /\ Missed(call)
  /\ UNCHANGED <<pages, doubled>>

(* The page sends all four switches, so the row is overwritten; the update  *)
(* of a row that was deleted meanwhile fails.                               *)
Update(k) ==
  /\ calls[k].pc = "update" /\ Live(calls[k].id)
  /\ LET call == calls[k] IN
       /\ rows' = [rows EXCEPT ![call.id].content = call.content]
       /\ Becomes(k, [pc |-> "saved", page |-> call.page,
                      copy |-> [id |-> call.id, content |-> call.content]])
       /\ Missed(call)
  /\ UNCHANGED <<pages, doubled>>

(* Two inserts of one user and scope overlap when both have looked before   *)
(* either is through.                                                       *)
Insert(k) ==
  /\ calls[k].pc = "insert"
  /\ LET call == calls[k] IN
       \E i \in RowIds :
         /\ rows[i] = Unborn /\ \A j \in 1..(i - 1) : rows[j] # Unborn
         /\ rows' = [rows EXCEPT ![i] = [status |-> "live", content |-> call.content]]
         /\ Becomes(k, [pc |-> "saved", page |-> call.page,
                        copy |-> [id |-> i, content |-> call.content]])
         /\ Missed(call)
         /\ doubled' = doubled \cup
              {<<call.content.user, call.content.scope>> :
                 j \in {j \in Calls \ {k} :
                          /\ calls[j].pc = "insert"
                          /\ calls[j].content.user = call.content.user
                          /\ calls[j].content.scope = call.content.scope}}
  /\ UNCHANGED pages

(* deletePermissionPolicy; a row that is already gone is an error. *)
Delete(k) ==
  /\ calls[k].pc = "delete" /\ Live(calls[k].copy.id)
  /\ rows' = [rows EXCEPT ![calls[k].copy.id] = Gone]
  /\ Becomes(k, [calls[k] EXCEPT !.pc = "deleted"])
  /\ Missed(calls[k])
  /\ UNCHANGED <<pages, doubled>>

(* A refusal, an error or a lost answer: the page shows a toast and keeps   *)
(* what it has; a failed load leaves the list empty.                        *)
Fail(k) ==
  /\ calls[k] # Idle
  /\ Becomes(k, Idle)
  /\ LET call == calls[k] IN
       /\ pages' = IF call.pc \in {"load", "loaded"} /\ call.page # Nowhere
                   THEN [pages EXCEPT ![call.page].loading = FALSE] ELSE pages
       /\ behind' = IF call.pc \in {"load", "loaded", "saved", "deleted"} /\ call.page # Nowhere
                    THEN behind \cup {call.page} ELSE behind
  /\ UNCHANGED <<rows, doubled>>

-----------------------------------------------------------------------------
(* The answers *)

ApplyList(k) ==
  /\ calls[k].pc = "loaded" /\ calls[k].page # Nowhere
  /\ pages' = [pages EXCEPT ![calls[k].page] =
                 [list |-> calls[k].list, drafts |-> DraftsFrom(calls[k].list), loading |-> FALSE]]
  /\ Becomes(k, Idle)
  /\ UNCHANGED <<rows, doubled, behind>>

(* Mutant: the saved copy is put beside the old one, not in its place. *)
ApplySavedFirst(k) ==
  /\ calls[k].pc = "saved" /\ calls[k].page # Nowhere
  /\ Show(calls[k].page, <<calls[k].copy>> \o pages[calls[k].page].list)
  /\ Becomes(k, Idle)
  /\ UNCHANGED <<rows, doubled, behind>>

(* An app-level copy replaces those of its user; a project's is appended,   *)
(* even when it updates one that is shown already.                          *)
ApplySaved(k) ==
  /\ calls[k].pc = "saved" /\ calls[k].page # Nowhere
  /\ LET copy == calls[k].copy
         Other(c) == ~ (/\ copy.content.scope = NoProject
                        /\ c.content.scope = NoProject /\ c.content.user = copy.content.user)
     IN  Show(calls[k].page, Append(SelectSeq(pages[calls[k].page].list, Other), copy))
  /\ Becomes(k, Idle)
  /\ UNCHANGED <<rows, doubled, behind>>

ApplyDeleted(k) ==
  /\ calls[k].pc = "deleted" /\ calls[k].page # Nowhere
  /\ LET Kept(c) == c.id # calls[k].copy.id
     IN  Show(calls[k].page, SelectSeq(pages[calls[k].page].list, Kept))
  /\ Becomes(k, Idle)
  /\ UNCHANGED <<rows, doubled, behind>>

-----------------------------------------------------------------------------
Init ==
  /\ rows = [i \in RowIds |-> Unborn]
  /\ pages = [admin \in Admins |-> [Fresh EXCEPT !.loading = FALSE]]
  /\ calls = [k \in Calls |-> Idle]
  /\ doubled = {} /\ behind = {}

PageStep(admin, k) ==
  \/ Open(admin, k)
  \/ \E user \in Users :
       \/ \E switch \in Offered : Toggle(admin, user, switch)
       \/ SaveDraft(admin, user, k) \/ ClearDraft(admin, user) \/ ResetDraft(admin, user, k)
       \/ \E project \in Projects, caps \in Created : CreatePolicy(admin, user, project, caps, k)
  \/ \E n \in 1..MaxShown : DeletePolicy(admin, n, k)

RouteStep(k) ==
  \/ List(k) \/ Find(k) \/ Update(k) \/ Insert(k) \/ Delete(k) \/ Fail(k)
  \/ ApplyList(k) \/ ApplySaved(k) \/ ApplyDeleted(k)

Next == \E k \in Calls : RouteStep(k) \/ \E admin \in Admins : PageStep(admin, k)

Spec == Init /\ [][Next]_vars

-----------------------------------------------------------------------------
TypeOK ==
  /\ rows \in [RowIds -> Rows]
  /\ \A admin \in Admins : /\ DOMAIN pages[admin] = {"list", "drafts", "loading"}
                           /\ pages[admin].drafts \in [Users -> Drafts]
                           /\ \A n \in DOMAIN pages[admin].list : pages[admin].list[n] \in Copies
  /\ doubled \subseteq Users \X Scopes
  /\ behind \subseteq Admins

(* A user has at most one policy per scope, although nothing in the schema  *)
(* says so: upsertPermissionPolicy looks first, and only two that looked    *)
(* before either inserted leave two rows.                                   *)
OneRowUnlessDoubled ==
  \A user \in Users, scope \in Scopes :
    <<user, scope>> \notin doubled => Cardinality(RowsFor(user, scope)) <= 1

(* What the page shows without unsaved edits is what the routes enforce:    *)
(* once the page's own calls are answered, nobody else changed the table    *)
(* since it was loaded and no two inserts overlapped, the switches of a row *)
(* of the page are the override every evaluation of that user applies.      *)
PageIsTrue ==
  \A admin \in Admins, user \in Users :
    LET draft == pages[admin].drafts[user] IN
      \/ admin \in behind \/ <<user, NoProject>> \in doubled
      \/ draft.dirty
      \/ \E k \in Calls : From(k, admin)
      \/ GlobalCaps(user) = {draft.caps}

-----------------------------------------------------------------------------
(* The settings page says that project overrides "stack on top of the       *)
(* app-level permissions": what a user's policy for a project turns on, the *)
(* routes for tasks of that project allow.                                  *)
OverridesStack ==
  \A i \in RowIds :
    Live(i) /\ rows[i].content.scope # NoProject =>
      \A action \in rows[i].content.caps, caps \in GlobalCaps(rows[i].content.user) :
        RouteAllows(RolesOf[rows[i].content.user], caps, action)
=============================================================================
