------------------------- MODULE PortalPermissions -------------------------
(***************************************************************************)
(* What a role may do in the portal of one organization: the defaults, the *)
(* table core.portal_role_permissions over them, the two routes that read  *)
(* and write it, and the permissions page, whose switches save themselves. *)
(*                                                                         *)
(* A PATCH is sent, allowed, carried out and answered in steps of their    *)
(* own.  The page shows a switch flipped before the answer is there and    *)
(* puts the whole list back when there is none.                            *)
(*                                                                         *)
(* Left out: the scopes the page groups permissions by, which it takes     *)
(* apart and puts together without loss, labels and counts, and roles      *)
(* nobody has a default for.                                               *)
(***************************************************************************)
EXTENDS FiniteSets

CONSTANTS
  Roles,
  Permissions,   \* two of them are "view" and "modify"
  Defaults,      \* DEFAULT_PORTAL_ROLE_PERMISSIONS
  Editors,       \* the members with the page open
  RoleOf,        \* their roles
  Nobody,
  NoOverride,    \* no row for the role
  Offered,       \* the switches an editor may flip
  Calls          \* requests in flight at a time

PortalAssumption ==
  /\ {"view", "modify"} \subseteq Permissions
  /\ Defaults \in [Roles -> SUBSET Permissions]
  /\ RoleOf \in [Editors -> Roles]
  /\ Nobody \notin Editors \cup Roles
  /\ \A set \in SUBSET Permissions : set # NoOverride
  /\ Offered \subseteq Permissions

VARIABLES
  custom,   \* portal_role_permissions: the set stored for a role
  pages,    \* every editor's page
  calls,    \* the requests in flight
  excused   \* history: the roles every page may show wrongly

vars == <<custom, pages, calls, excused>>

Idle == [pc |-> "idle"]
Closed == [open |-> FALSE]

(* listPortalRolePermissionsForOrganization *)
Effective(role) == IF custom[role] = NoOverride THEN Defaults[role] ELSE custom[role]

(* resolvePortalPermissionSet, of a member the roles of which all have one. *)
May(editor, permission) == permission \in Effective(RoleOf[editor])

Becomes(k, call) == calls' = [calls EXCEPT ![k] = call]

From(k, editor) == calls[k].pc # "idle" /\ calls[k].editor = editor

Busy(editor, role) == \E k \in Calls : From(k, editor) /\ calls[k].role = role

(* The same request, one step further. *)
At(call, pc) ==
  [pc |-> pc, editor |-> call.editor, as |-> call.as, role |-> call.role,
   set |-> call.set, previous |-> call.previous]

(* The state of the page's component: its roles, and the one being saved.   *)
Shows(editor, shown, saving) ==
  pages' = [pages EXCEPT ![editor] = [open |-> TRUE, shown |-> shown, saving |-> saving,
                                      canModify |-> pages[editor].canModify]]

-----------------------------------------------------------------------------
(* The page *)

(* The page is rendered with canModify fixed; when the roles cannot be      *)
(* fetched it shows the defaults instead.  Answers to calls of the page     *)
(* before find nobody, and nothing to put back.                             *)
Open(editor) ==
  /\ May(editor, "view")
  /\ \E shown \in {[role \in Roles |-> Effective(role)], Defaults} :
       /\ pages' = [pages EXCEPT ![editor] =
                      [open |-> TRUE, shown |-> shown, saving |-> Nobody,
                       canModify |-> May(editor, "modify")]]
       /\ excused' = [excused EXCEPT ![editor] =
                        {role \in Roles : \/ shown[role] # Effective(role)
                                          \/ Busy(editor, role)}]
  /\ calls' = [k \in Calls |->
                 IF From(k, editor)
                 THEN [pc |-> calls[k].pc, editor |-> Nobody, as |-> calls[k].as,
                       role |-> calls[k].role, set |-> calls[k].set, previous |-> Defaults]
                 ELSE calls[k]]
  /\ UNCHANGED custom

(* handleToggle: the switches of the role being saved are disabled, and     *)
(* savingRole holds one role only.                                          *)
Toggle(editor, role, permission, k) ==
  LET page == pages[editor] IN
    /\ page.open /\ page.canModify /\ page.saving # role
    /\ calls[k] = Idle
    /\ LET set == page.shown[role]
           flipped == IF permission \in set THEN set \ {permission} ELSE set \cup {permission}
       IN  /\ Shows(editor, [page.shown EXCEPT ![role] = flipped], role)
           /\ Becomes(k, [pc |-> "sent", editor |-> editor, as |-> RoleOf[editor], role |-> role,
                          set |-> flipped, previous |-> page.shown])
    /\ excused' = IF Busy(editor, role) THEN [excused EXCEPT ![editor] = @ \cup {role}]
                  ELSE excused
    /\ UNCHANGED custom

-----------------------------------------------------------------------------
(* PATCH /portal/permissions/:role *)

Allow(k) ==
  /\ calls[k].pc = "sent" /\ "modify" \in Effective(calls[k].as)
  /\ Becomes(k, At(calls[k], "allowed"))
  /\ UNCHANGED <<custom, pages, excused>>

Missed(k) ==
  excused' = [editor \in Editors |->
                IF editor = calls[k].editor THEN excused[editor]
                ELSE excused[editor] \cup {calls[k].role}]

(* Mutant: nothing is stored for a role set to its default. *)
SaveCustomOnly(k) ==
  /\ calls[k].pc = "allowed"
  /\ custom' = IF calls[k].set = Defaults[calls[k].role] THEN custom
               ELSE [custom EXCEPT ![calls[k].role] = calls[k].set]
  /\ Becomes(k, At(calls[k], "saved"))
  /\ Missed(k)
  /\ UNCHANGED pages

(* savePortalRolePermissions: the default is stored as no row. *)
Save(k) ==
  /\ calls[k].pc = "allowed"
  /\ custom' = [custom EXCEPT ![calls[k].role] =
                  IF calls[k].set = Defaults[calls[k].role] THEN NoOverride ELSE calls[k].set]
  /\ Becomes(k, At(calls[k], "saved"))
  /\ Missed(k)
  /\ UNCHANGED pages

Answer(k) ==
  /\ calls[k].pc = "saved"
  /\ LET call == calls[k] IN
       IF call.editor = Nobody THEN UNCHANGED pages
       ELSE Shows(call.editor, [pages[call.editor].shown EXCEPT ![call.role] = call.set], Nobody)
  /\ Becomes(k, Idle)
  /\ UNCHANGED <<custom, excused>>

(* A refusal, an error or a lost answer: setRoles(previous) puts back every *)
(* role as it was when this switch was flipped.                             *)
Fail(k) ==
  /\ calls[k] # Idle
  /\ LET call == calls[k] IN
       IF call.editor = Nobody THEN UNCHANGED <<pages, excused>>
       ELSE /\ Shows(call.editor, call.previous, Nobody)
            /\ excused' = [excused EXCEPT ![call.editor] =
                 @ \cup {role \in Roles :
                           \/ role # call.role /\ call.previous[role] # pages[call.editor].shown[role]
                           \/ role = call.role /\ call.pc = "saved"}]
  /\ Becomes(k, Idle)
  /\ UNCHANGED custom

-----------------------------------------------------------------------------
Init ==
  /\ custom = [role \in Roles |-> NoOverride]
  /\ pages = [editor \in Editors |-> Closed]
  /\ calls = [k \in Calls |-> Idle]
  /\ excused = [editor \in Editors |-> {}]

Next ==
  \/ \E editor \in Editors :
       \/ Open(editor)
       \/ \E role \in Roles, permission \in Offered, k \in Calls :
            Toggle(editor, role, permission, k)
  \/ \E k \in Calls : Allow(k) \/ Save(k) \/ Answer(k) \/ Fail(k)

Spec == Init /\ [][Next]_vars

-----------------------------------------------------------------------------
(* The switches of a role the page is not saving show what the routes       *)
(* enforce for it, unless the page fell back to the defaults, somebody else *)
(* saved the role, two saves of it overlapped, its answer was lost, or the  *)
(* failure of another switch put the whole list back.                       *)
PageShowsWhatHolds ==
  \A editor \in Editors, role \in Roles :
    pages[editor].open /\ ~ Busy(editor, role) /\ role \notin excused[editor] =>
      pages[editor].shown[role] = Effective(role)
=============================================================================
