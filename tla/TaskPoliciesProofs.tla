-------------------------- MODULE TaskPoliciesProofs --------------------------
(* That a user has at most one policy per scope unless two inserts of it    *)
(* overlapped, for any number of members, projects, rows, pages and calls;  *)
(* facts about the evaluation of permissions, for all sets of roles and     *)
(* overrides; that the controls of the Tasks page, which are drawn by such  *)
(* permissions, agree with the routes and with the user's status; and that  *)
(* the cards of the Projects page are the tenant's projects once everything *)
(* has been answered, for any number of projects, tenants and requests.     *)
EXTENDS TaskPolicies, FiniteSetTheorems, SequenceTheorems, TLAPS

-----------------------------------------------------------------------------
(* What a call relies on *)

Pair(content) == <<content.user, content.scope>>

(* A row is in the table with the user and the scope of a policy. *)
Bears(row, content) ==
  row.status = "live" /\ row.content.user = content.user /\ row.content.scope = content.scope

(* The columns a call has when it reaches the transaction that reads them. *)
HasFields(c) ==
  /\ "pc" \in DOMAIN c
  /\ c.pc \in {"find", "insert", "update"} => "content" \in DOMAIN c
  /\ c.pc = "update" => "id" \in DOMAIN c

(* A call about to insert has seen no row of its user and scope, and there  *)
(* is none, or it has been counted as overlapped.  A call about to update   *)
(* has the row it found, which may be gone by now.                          *)
Fits(c, rs, ds) ==
  /\ HasFields(c)
  /\ c.pc = "insert" => Pair(c.content) \in ds \/ \A i \in RowIds : ~ Bears(rs[i], c.content)
  /\ c.pc = "update" => /\ c.id \in RowIds /\ rs[c.id].status \in {"live", "gone"}
                        /\ rs[c.id].status = "live" => Bears(rs[c.id], c.content)

RowShape(row) ==
  /\ row.status \in {"unborn", "live", "gone"} /\ "status" \in DOMAIN row
  /\ row.status = "live" => "content" \in DOMAIN row

Tables ==
  /\ rows = [i \in RowIds |-> rows[i]] /\ \A i \in RowIds : RowShape(rows[i])
  /\ calls = [k \in Calls |-> calls[k]] /\ \A k \in Calls : Fits(calls[k], rows, doubled)

OneRow ==
  \A i, j \in RowIds :
    Live(i) /\ Bears(rows[j], rows[i].content) => i = j \/ Pair(rows[i].content) \in doubled

PolicyInv == Tables /\ OneRow

-----------------------------------------------------------------------------
(* A step narrows the table when it inserts no row and moves none to        *)
(* another user or scope.                                                   *)
Narrows ==
  /\ \A i \in RowIds :
       /\ rows'[i].status = "live" =>
            rows[i].status = "live" /\ Bears(rows[i], rows'[i].content)
       /\ rows[i].status \in {"live", "gone"} => rows'[i].status \in {"live", "gone"}
  /\ doubled \subseteq doubled'

LEMMA NarrowFits ==
  ASSUME Narrows, NEW c, Fits(c, rows, doubled)
  PROVE  Fits(c, rows', doubled')
BY DEF Narrows, Fits, Bears

LEMMA NarrowKeepsOneRow ==
  ASSUME Narrows, OneRow
  PROVE  OneRow'
<1> SUFFICES ASSUME NEW i \in RowIds, NEW j \in RowIds,
                    rows'[i].status = "live", Bears(rows'[j], rows'[i].content), i # j
             PROVE  Pair(rows'[i].content) \in doubled'
  BY DEF OneRow, Live
<1>1. /\ rows[i].status = "live" /\ Bears(rows[i], rows'[i].content)
      /\ rows[j].status = "live" /\ Bears(rows[j], rows'[j].content)
  BY DEF Narrows, Bears
<1>2. Bears(rows[j], rows[i].content) /\ Pair(rows[i].content) = Pair(rows'[i].content)
  BY <1>1 DEF Bears, Pair
<1>3. Pair(rows[i].content) \in doubled
  BY <1>1, <1>2 DEF OneRow, Live
<1> QED
  BY <1>2, <1>3 DEF Narrows

(* Forgetting the page it came from changes nothing else in a call. *)
LEMMA PageForgotten ==
  ASSUME NEW c, NEW rs, NEW ds, NEW page, Fits(c, rs, ds)
  PROVE  Fits([c EXCEPT !.page = page], rs, ds)
<1> DEFINE d == [c EXCEPT !.page = page]
<1>1. DOMAIN d = DOMAIN c /\ d.pc = c.pc
  BY DEF Fits, HasFields
<1>2. /\ c.pc \in {"find", "insert", "update"} => d.content = c.content
      /\ c.pc = "update" => d.id = c.id
  BY DEF Fits, HasFields
<1> HIDE DEF d
<1>3. Fits(d, rs, ds)
  BY <1>1, <1>2 DEF Fits, HasFields
<1> QED
  BY <1>3 DEF d

LEMMA OthersFit ==
  ASSUME NEW c, NEW rs, NEW ds, "pc" \in DOMAIN c, c.pc \notin {"find", "insert", "update"}
  PROVE  Fits(c, rs, ds)
BY DEF Fits, HasFields

LEMMA CallsFit ==
  ASSUME Tables, NEW k \in Calls, NEW c, Becomes(k, c), Fits(c, rows', doubled'),
         \A j \in Calls : j # k => Fits(calls[j], rows', doubled')
  PROVE  /\ calls' = [j \in Calls |-> calls'[j]]
         /\ \A j \in Calls : Fits(calls'[j], rows', doubled')
BY DEF Tables, Becomes

(* The steps that narrow the table and answer or refuse one call. *)
LEMMA NarrowStep ==
  ASSUME PolicyInv, Narrows, rows' = [i \in RowIds |-> rows'[i]],
         \A i \in RowIds : RowShape(rows'[i]),
         NEW k \in Calls, NEW c, Becomes(k, c), Fits(c, rows', doubled')
  PROVE  PolicyInv'
<1>1. \A j \in Calls : Fits(calls[j], rows', doubled')
  BY NarrowFits DEF PolicyInv, Tables
<1>2. /\ calls' = [j \in Calls |-> calls'[j]]
      /\ \A j \in Calls : Fits(calls'[j], rows', doubled')
  BY <1>1, CallsFit DEF PolicyInv
<1> QED
  BY <1>2, NarrowKeepsOneRow DEF PolicyInv, Tables

(* Those of them that leave the table alone. *)
LEMMA ReadStep ==
  ASSUME PolicyInv, rows' = rows, doubled' = doubled,
         NEW k \in Calls, NEW c, Becomes(k, c), Fits(c, rows, doubled)
  PROVE  PolicyInv'
<1>1. Narrows
  BY DEF Narrows, Bears
<1>2. rows' = [i \in RowIds |-> rows'[i]] /\ \A i \in RowIds : RowShape(rows'[i])
  BY DEF PolicyInv, Tables
<1> QED
  BY <1>1, <1>2, NarrowStep

LEMMA PageSteps ==
  ASSUME PolicyInv, NEW k \in Calls, NEW admin \in Admins, PageStep(admin, k)
  PROVE  PolicyInv'
<1>1. CASE Open(admin, k)
  <2>1. rows' = rows /\ doubled' = doubled
    BY <1>1 DEF Open
  <2>2. ASSUME NEW j \in Calls
        PROVE  Fits(calls'[j], rows, doubled)
    <3>1. Fits([pc |-> "load", page |-> admin], rows, doubled)
      BY OthersFit
    <3>2. Fits(calls[j], rows, doubled) /\ Fits([calls[j] EXCEPT !.page = Nowhere], rows, doubled)
      BY PageForgotten DEF PolicyInv, Tables
    <3> QED
      BY <1>1, <3>1, <3>2 DEF Open
  <2>3. calls' = [j \in Calls |-> calls'[j]]
    BY <1>1 DEF Open
  <2> QED
    BY <2>1, <2>2, <2>3 DEF PolicyInv, Tables, OneRow, Live
<1>2. ASSUME NEW content, rows' = rows, doubled' = doubled,
             Send(k, [pc |-> "find", page |-> admin, content |-> content])
      PROVE  PolicyInv'
  <2>1. Fits([pc |-> "find", page |-> admin, content |-> content], rows, doubled)
    BY DEF Fits, HasFields
  <2> QED
    BY <1>2, <2>1, ReadStep DEF Send, Becomes
<1>3. ASSUME NEW copy, rows' = rows, doubled' = doubled,
             Send(k, [pc |-> "delete", page |-> admin, copy |-> copy])
      PROVE  PolicyInv'
  <2>1. Fits([pc |-> "delete", page |-> admin, copy |-> copy], rows, doubled)
    BY OthersFit
  <2> QED
    BY <1>3, <2>1, ReadStep DEF Send, Becomes
<1>4. CASE UNCHANGED <<rows, calls, doubled>>
  BY <1>4 DEF PolicyInv, Tables, OneRow, Live
<1>5. ASSUME NEW user \in Users, NEW switch \in Offered, Toggle(admin, user, switch)
      PROVE  PolicyInv'
  BY <1>4, <1>5 DEF Toggle
<1>6. ASSUME NEW user \in Users, SaveDraft(admin, user, k)
      PROVE  PolicyInv'
  BY <1>2, <1>6 DEF SaveDraft
<1>7. ASSUME NEW user \in Users, ClearDraft(admin, user)
      PROVE  PolicyInv'
  BY <1>4, <1>7 DEF ClearDraft
<1>8. ASSUME NEW user \in Users, ResetDraft(admin, user, k)
      PROVE  PolicyInv'
  BY <1>3, <1>8 DEF ResetDraft
<1>9. ASSUME NEW user \in Users, NEW project \in Projects, NEW caps \in Created,
             CreatePolicy(admin, user, project, caps, k)
      PROVE  PolicyInv'
  BY <1>2, <1>9 DEF CreatePolicy
<1>10. ASSUME NEW n \in 1..MaxShown, DeletePolicy(admin, n, k)
       PROVE  PolicyInv'
  BY <1>3, <1>10 DEF DeletePolicy
<1> QED
  BY <1>1, <1>5, <1>6, <1>7, <1>8, <1>9, <1>10 DEF PageStep

-----------------------------------------------------------------------------
(* The routes *)

LEMMA FindStep ==
  ASSUME PolicyInv, NEW k \in Calls, Find(k)
  PROVE  PolicyInv'
<1> DEFINE call == calls[k]
           found == RowsFor(call.content.user, call.content.scope)
           next(i) == [pc |-> "update", page |-> call.page, content |-> call.content, id |-> i]
<1>1. call.pc = "find" /\ HasFields(call)
  BY DEF PolicyInv, Tables, Fits, Find
<1>2. ASSUME found = {}, Becomes(k, [call EXCEPT !.pc = "insert"])
      PROVE  PolicyInv'
  <2> DEFINE c == [call EXCEPT !.pc = "insert"]
  <2>1. DOMAIN c = DOMAIN call /\ c.pc = "insert" /\ c.content = call.content
    BY <1>1 DEF HasFields
  <2> HIDE DEF c
  <2>2. Fits(c, rows, doubled)
    BY <1>1, <1>2, <2>1 DEF Fits, HasFields, RowsFor, Bears, Live
  <2> QED
    BY <1>2, <2>2, ReadStep DEF c, Find
<1>3. ASSUME NEW i \in found, Becomes(k, next(i))
      PROVE  PolicyInv'
  <2>1. i \in RowIds /\ rows[i].status = "live" /\ Bears(rows[i], call.content)
    BY DEF RowsFor, Bears, Live
  <2>2. Fits(next(i), rows, doubled)
    BY <2>1 DEF Fits, HasFields
  <2> QED
    BY <1>3, <2>2, ReadStep DEF Find
<1> QED
  BY <1>2, <1>3 DEF Find

LEMMA UpdateStep ==
  ASSUME PolicyInv, NEW k \in Calls, Update(k)
  PROVE  PolicyInv'
<1> DEFINE call == calls[k]
           c == [pc |-> "saved", page |-> call.page,
                 copy |-> [id |-> call.id, content |-> call.content]]
<1>1. /\ call.id \in RowIds /\ rows[call.id].status = "live"
      /\ Bears(rows[call.id], call.content) /\ RowShape(rows[call.id])
  BY DEF PolicyInv, Tables, Fits, Update, Live
<1>2. rows' = [rows EXCEPT ![call.id].content = call.content] /\ doubled' = doubled
  BY DEF Update
<1>3. \A i \in RowIds : i # call.id => rows'[i] = rows[i]
  BY <1>2 DEF PolicyInv, Tables
<1>4. /\ rows'[call.id].status = "live" /\ rows'[call.id].content = call.content
      /\ DOMAIN (rows'[call.id]) = DOMAIN (rows[call.id])
  BY <1>1, <1>2 DEF PolicyInv, Tables, RowShape
<1>5. Narrows
  BY <1>1, <1>2, <1>3, <1>4 DEF Narrows, Bears
<1>6. rows' = [i \in RowIds |-> rows'[i]]
  BY <1>2 DEF PolicyInv, Tables
<1>7. \A i \in RowIds : RowShape(rows'[i])
  BY <1>1, <1>3, <1>4 DEF PolicyInv, Tables, RowShape
<1>8. Fits(c, rows', doubled') /\ Becomes(k, c)
  BY OthersFit DEF Update
<1> QED
  BY <1>5, <1>6, <1>7, <1>8, NarrowStep

LEMMA DeleteStep ==
  ASSUME PolicyInv, NEW k \in Calls, Delete(k)
  PROVE  PolicyInv'
<1> DEFINE c == [calls[k] EXCEPT !.pc = "deleted"]
<1>1. rows' = [rows EXCEPT ![calls[k].copy.id] = Gone] /\ doubled' = doubled
  BY DEF Delete
<1>2. \A i \in RowIds : rows'[i] = rows[i] \/ rows'[i] = Gone
  BY <1>1 DEF PolicyInv, Tables
<1>3. \A i \in RowIds : rows[i].status \in {"live", "gone"} => rows'[i].status \in {"live", "gone"}
  BY <1>2 DEF Gone
<1>4. Narrows
  BY <1>1, <1>2, <1>3 DEF Narrows, Bears, Gone
<1>5. rows' = [i \in RowIds |-> rows'[i]] /\ \A i \in RowIds : RowShape(rows'[i])
  BY <1>1, <1>2 DEF PolicyInv, Tables, RowShape, Gone
<1>6. "pc" \in DOMAIN c /\ c.pc = "deleted"
  BY DEF PolicyInv, Tables, Fits, HasFields
<1>7. Fits(c, rows', doubled') /\ Becomes(k, c)
  BY <1>6, OthersFit DEF Delete
<1> QED
  BY <1>4, <1>5, <1>7, NarrowStep

(* Only an insert adds a row.  Another call that has looked for the same    *)
(* user and scope and is about to insert as well is counted.                *)
LEMMA InsertStep ==
  ASSUME PolicyInv, NEW k \in Calls, Insert(k)
  PROVE  PolicyInv'
<1> DEFINE call == calls[k]
           content == call.content
           row == [status |-> "live", content |-> content]
<1>1. PICK i \in RowIds :
        /\ rows[i] = Unborn
        /\ rows' = [rows EXCEPT ![i] = row]
        /\ Becomes(k, [pc |-> "saved", page |-> call.page, copy |-> [id |-> i, content |-> content]])
  BY DEF Insert
<1> DEFINE c == [pc |-> "saved", page |-> call.page, copy |-> [id |-> i, content |-> content]]
<1>2. Pair(content) \in doubled \/ \A j \in RowIds : ~ Bears(rows[j], content)
  BY DEF PolicyInv, Tables, Fits, Insert
<1>3. /\ doubled \subseteq doubled'
      /\ \A j \in Calls : /\ j # k /\ calls[j].pc = "insert"
                          /\ calls[j].content.user = content.user
                          /\ calls[j].content.scope = content.scope
                          => Pair(content) \in doubled'
  BY DEF Insert, Pair
<1>4. rows'[i] = row /\ \A j \in RowIds : j # i => rows'[j] = rows[j]
  BY <1>1 DEF PolicyInv, Tables
<1>5. rows' = [j \in RowIds |-> rows'[j]] /\ \A j \in RowIds : RowShape(rows'[j])
  BY <1>1, <1>4 DEF PolicyInv, Tables, RowShape
<1>6. ASSUME NEW j \in Calls, j # k
      PROVE  Fits(calls[j], rows', doubled')
  <2>1. Fits(calls[j], rows, doubled)
    BY DEF PolicyInv, Tables
  <2>2. ASSUME calls[j].pc = "insert"
        PROVE  \/ Pair(calls[j].content) \in doubled'
               \/ \A n \in RowIds : ~ Bears(rows'[n], calls[j].content)
    <3>1. CASE Bears(row, calls[j].content)
      BY <1>3, <1>6, <2>2, <3>1 DEF Bears, Pair
    <3>2. CASE ~ Bears(row, calls[j].content)
      BY <1>3, <1>4, <2>1, <2>2, <3>2 DEF Fits
    <3> QED
      BY <3>1, <3>2
  <2>3. ASSUME calls[j].pc = "update"
        PROVE  calls[j].id # i
    BY <1>1, <2>1, <2>3 DEF Fits, Unborn
  <2> QED
    BY <1>4, <2>1, <2>2, <2>3 DEF Fits
<1>7. Fits(c, rows', doubled')
  BY OthersFit
<1>8. ASSUME NEW m \in RowIds, NEW n \in RowIds,
             rows'[m].status = "live", Bears(rows'[n], rows'[m].content), m # n
      PROVE  Pair(rows'[m].content) \in doubled'
  <2>1. CASE m # i /\ n # i
    BY <1>3, <1>4, <1>8, <2>1 DEF PolicyInv, OneRow, Live
  <2>2. CASE m = i
    BY <1>2, <1>3, <1>4, <1>8, <2>2 DEF Bears
  <2>3. CASE n = i
    <3>1. Bears(rows[m], content) /\ Pair(rows'[m].content) = Pair(content)
      BY <1>4, <1>8, <2>3 DEF Bears, Pair
    <3> QED
      BY <1>2, <1>3, <3>1
  <2> QED
    BY <2>1, <2>2, <2>3
<1>9. calls' = [j \in Calls |-> calls'[j]] /\ \A j \in Calls : Fits(calls'[j], rows', doubled')
  BY <1>1, <1>6, <1>7, CallsFit DEF PolicyInv
<1> QED
  BY <1>5, <1>8, <1>9 DEF PolicyInv, Tables, OneRow, Live

LEMMA AnswerStep ==
  ASSUME PolicyInv, NEW k \in Calls,
         List(k) \/ Fail(k) \/ ApplyList(k) \/ ApplySaved(k) \/ ApplyDeleted(k)
  PROVE  PolicyInv'
<1>1. rows' = rows /\ doubled' = doubled
  BY DEF List, Fail, ApplyList, ApplySaved, ApplyDeleted
<1>2. Fits(Idle, rows, doubled)
  BY OthersFit DEF Idle
<1>3. Fits([pc |-> "loaded", page |-> calls[k].page, list |-> Listed], rows, doubled)
  BY OthersFit
<1> QED
  BY <1>1, <1>2, <1>3, ReadStep DEF List, Fail, ApplyList, ApplySaved, ApplyDeleted

LEMMA NextPolicyInv == PolicyInv /\ [Next]_vars => PolicyInv'
<1> SUFFICES ASSUME PolicyInv, [Next]_vars
             PROVE  PolicyInv'
  OBVIOUS
<1>1. CASE UNCHANGED vars
  BY <1>1 DEF vars, PolicyInv, Tables, OneRow, Live
<1>2. ASSUME NEW k \in Calls, RouteStep(k)
      PROVE  PolicyInv'
  BY <1>2, FindStep, UpdateStep, InsertStep, DeleteStep, AnswerStep DEF RouteStep
<1> QED
  BY <1>1, <1>2, PageSteps DEF Next

(* Two of the same number are one: what OneRow says of the set of rows. *)
LEMMA AtMostOne ==
  ASSUME NEW S, \A x, y \in S : x = y
  PROVE  Cardinality(S) <= 1
<1>1. CASE S = {}
  BY <1>1, FS_EmptySet
<1>2. ASSUME NEW x \in S
      PROVE  Cardinality(S) <= 1
  <2>1. S = {x}
    OBVIOUS
  <2> QED
    BY <2>1, FS_Singleton
<1> QED
  BY <1>1, <1>2

(* A user has at most one policy per scope unless two inserts of it         *)
(* overlapped, although no unique index says so.                            *)
THEOREM OneRowButForOverlaps == Spec => []OneRowUnlessDoubled
<1>1. Init => PolicyInv
  <2> SUFFICES ASSUME Init
               PROVE  PolicyInv
    OBVIOUS
  <2>1. \A k \in Calls : Fits(calls[k], rows, doubled)
    BY OthersFit DEF Init, Idle
  <2> QED
    BY <2>1 DEF Init, PolicyInv, Tables, OneRow, RowShape, Live, Unborn
<1>2. PolicyInv => OneRowUnlessDoubled
  <2> SUFFICES ASSUME PolicyInv, NEW user \in Users, NEW scope \in Scopes,
                      <<user, scope>> \notin doubled
               PROVE  Cardinality(RowsFor(user, scope)) <= 1
    BY DEF OneRowUnlessDoubled
  <2>1. \A i, j \in RowsFor(user, scope) : i = j
    BY DEF PolicyInv, OneRow, RowsFor, Bears, Pair, Live
  <2> QED
    BY <2>1, AtMostOne
<1> QED
  BY <1>1, <1>2, NextPolicyInv, PTL DEF Spec

-----------------------------------------------------------------------------
(* The evaluation of permissions (TaskPermissions) *)

(* What brings nothing further with it: every capability that another one  *)
(* brings is there.                                                        *)
Closed(caps) ==
  /\ "manage" \in caps => {"create", "edit", "assign"} \subseteq caps
  /\ caps \cap {"edit", "assign"} # {} => {"create", "view"} \subseteq caps
  /\ "comment" \in caps => "view" \in caps

(* Membership in a merge, capability by capability.                        *)
LEMMA InMerge ==
  ASSUME NEW B, NEW M, NEW a
  PROVE  a \in Merge(B, M) <=>
           \/ a \in B \cup M
           \/ /\ "manage" \in B \cup M
              /\ a \in {"create", "edit", "assign", "view"}
           \/ /\ (B \cup M) \cap {"edit", "assign"} # {}
              /\ a \in {"create", "view"}
           \/ /\ "comment" \in B \cup M
              /\ a = "view"
<1> DEFINE S == B \cup M
<1>1. \A x : x \in AfterManage(S) <=>
               x \in S \/ ("manage" \in S /\ x \in {"create", "edit", "assign"})
  BY DEF AfterManage
<1>2. \A T : \A x : x \in AfterEdit(T) <=>
               x \in T \/ (("edit" \in T \/ "assign" \in T) /\ x \in {"create", "view"})
  BY DEF AfterEdit
<1>3. \A T : \A x : x \in AfterComment(T) <=> x \in T \/ ("comment" \in T /\ x = "view")
  BY DEF AfterComment
<1>4. Merge(B, M) = AfterComment(AfterEdit(AfterManage(S)))
  BY DEF Merge
<1> HIDE DEF S
<1>5. a \in Merge(B, M) <=>
           \/ a \in S
           \/ /\ "manage" \in S
              /\ a \in {"create", "edit", "assign", "view"}
           \/ /\ S \cap {"edit", "assign"} # {}
              /\ a \in {"create", "view"}
           \/ /\ "comment" \in S
              /\ a = "view"
  BY <1>1, <1>2, <1>3, <1>4
<1> QED  BY <1>5 DEF S

(* A merge is closed: the order in which the code adds what a capability   *)
(* brings leaves nothing out.                                              *)
LEMMA MergeIsClosed ==
  ASSUME NEW B, NEW M
  PROVE  Closed(Merge(B, M))
BY InMerge DEF Closed

(* mergeCapabilities called for one modifier after another comes to one    *)
(* call with all of them, so the order of a member's roles is of no        *)
(* consequence.                                                            *)
THEOREM MergeTwice ==
  ASSUME NEW B, NEW M1, NEW M2
  PROVE  Merge(Merge(B, M1), M2) = Merge(B, M1 \cup M2)
<1> SUFFICES ASSUME NEW a
             PROVE  a \in Merge(Merge(B, M1), M2) <=> a \in Merge(B, M1 \cup M2)
  OBVIOUS
<1> DEFINE I == Merge(B, M1)
<1>1. \A x : x \in I => x \in Merge(B, M1 \cup M2)
  BY InMerge
<1>2. \A x : x \in B \cup (M1 \cup M2) => x \in I \cup M2
  BY InMerge
<1>3. Closed(Merge(B, M1 \cup M2))
  BY MergeIsClosed
<1>4. M2 \subseteq Merge(B, M1 \cup M2)
  BY InMerge
<1>5. I \cup M2 \subseteq Merge(B, M1 \cup M2)
  BY <1>1, <1>4
<1> HIDE DEF I
<1>6. a \in Merge(I, M2) => a \in Merge(B, M1 \cup M2)
  BY <1>3, <1>5, InMerge DEF Closed
<1>7. a \in Merge(B, M1 \cup M2) => a \in Merge(I, M2)
  BY <1>2, InMerge
<1> QED  BY <1>6, <1>7 DEF I

(* Owners, admins and task admins may do everything, whatever overrides    *)
(* are stored for them.                                                    *)
THEOREM AdminsMayDoEverything ==
  ASSUME NEW roles, NEW global, NEW action \in Actions,
         NEW role \in roles, role \in {"OWNER", "ADMIN", "tasks:admin"}
  PROVE  RouteAllows(roles, global, action)
<1>1. RoleCapabilities(role) = Actions
  BY DEF RoleCapabilities
<1>2. "manage" \in UNION {RoleCapabilities(r) : r \in roles}
  BY <1>1 DEF Actions
<1>3. "manage" \in RoleBase(roles)
  BY <1>2, InMerge DEF RoleBase
<1>4. "manage" \in Merge(RoleBase(roles), global)
  BY <1>3, InMerge
<1> QED  BY <1>4 DEF RouteAllows, Evaluate

(* Overrides only add: what the roles allow stays allowed whatever is      *)
(* switched on or off in the settings, so removing an override never takes *)
(* away what a role gives.                                                 *)
THEOREM OverridesOnlyAdd ==
  ASSUME NEW roles, NEW less, NEW more, less \subseteq more, NEW action,
         RouteAllows(roles, less, action)
  PROVE  RouteAllows(roles, more, action)
<1>1. Merge(RoleBase(roles), less) \subseteq Merge(RoleBase(roles), more)
  BY InMerge
<1>2. \A C : Closed(C) => Merge(C, {}) = C
  <2> SUFFICES ASSUME NEW C, Closed(C), NEW a
               PROVE  a \in Merge(C, {}) <=> a \in C
    OBVIOUS
  <2> QED  BY InMerge DEF Closed
<1>3. Merge(Merge(RoleBase(roles), less), {}) = Merge(RoleBase(roles), less)
  BY <1>2, MergeIsClosed
<1> QED  BY <1>1, <1>3 DEF RouteAllows, Evaluate

-----------------------------------------------------------------------------
(* The controls of the Tasks page.  What the page remembers of the rights   *)
(* it shows, the calls in flight carry along; both are right as long as     *)
(* nothing has changed since.                                               *)

CONSTANTS RoleSets, Overrides, Pressed, MaxChanges, MaxPresses, MaxCalls

VARIABLES member, page, sent, changes, presses, refused, excuses

Page == INSTANCE TaskControls WITH calls <- sent

(* One element taken out of a sequence, as the handlers take up a call.     *)
TakeOut(s, i) == SubSeq(s, 1, i - 1) \o SubSeq(s, i + 1, Len(s))

LEMMA TakenOut ==
  ASSUME NEW S, NEW s \in Seq(S), NEW i \in DOMAIN s
  PROVE  /\ TakeOut(s, i) \in Seq(S)
         /\ DOMAIN s = 1 .. Len(s) /\ Len(s) \in Nat /\ DOMAIN TakeOut(s, i) = 1 .. Len(s) - 1
         /\ \A j \in 1 .. Len(s) - 1 : TakeOut(s, i)[j] = s[IF j < i THEN j ELSE j + 1]
<1> DEFINE rest == TakeOut(s, i)
           front == SubSeq(s, 1, i - 1)
           back == SubSeq(s, i + 1, Len(s))
<1>1. Len(s) \in Nat /\ s \in [1 .. Len(s) -> S] /\ DOMAIN s = 1 .. Len(s) /\ i \in 1 .. Len(s)
  BY LenProperties
<1>2. \A j \in 1 .. i - 1 : s[j] \in S
  BY <1>1
<1>3. \A j \in i + 1 .. Len(s) : s[j] \in S
  BY <1>1
<1>4. /\ front \in Seq(S) /\ Len(front) = i - 1
      /\ \A j \in 1 .. i - 1 : front[j] = s[j]
  <2>1. /\ front \in Seq(S) /\ Len(front) = (IF 1 <= i - 1 THEN i - 1 - 1 + 1 ELSE 0)
        /\ \A j \in 1 .. i - 1 - 1 + 1 : front[j] = s[1 + j - 1]
    <3>1. 1 \in Int /\ i - 1 \in Int
      BY <1>1
    <3> QED
      BY ONLY <3>1, <1>2, SubSeqProperties
  <2> HIDE DEF front
  <2> QED
    BY <1>1, <2>1
<1>5. /\ back \in Seq(S) /\ Len(back) = Len(s) - i
      /\ \A j \in 1 .. Len(s) - i : back[j] = s[i + j]
  <2>1. /\ back \in Seq(S)
        /\ Len(back) = (IF i + 1 <= Len(s) THEN Len(s) - (i + 1) + 1 ELSE 0)
        /\ \A j \in 1 .. Len(s) - (i + 1) + 1 : back[j] = s[i + 1 + j - 1]
    <3>1. i + 1 \in Int /\ Len(s) \in Int
      BY <1>1
    <3> QED
      BY ONLY <3>1, <1>3, SubSeqProperties
  <2>2. \A j \in 1 .. Len(s) - i : i + 1 + j - 1 = i + j
    BY <1>1
  <2> HIDE DEF back
  <2> QED
    BY <1>1, <2>1, <2>2
<1> HIDE DEF front, back, rest
<1>6. /\ front \o back \in Seq(S) /\ Len(front \o back) = Len(front) + Len(back)
      /\ \A j \in 1 .. Len(front) + Len(back) :
           (front \o back)[j] = IF j <= Len(front) THEN front[j] ELSE back[j - Len(front)]
  BY <1>4, <1>5, ConcatProperties
<1>7. /\ rest \in Seq(S) /\ Len(rest) = Len(front) + Len(back)
      /\ \A j \in 1 .. Len(front) + Len(back) :
           rest[j] = IF j <= Len(front) THEN front[j] ELSE back[j - Len(front)]
  <2>1. rest = front \o back
    BY DEF front, back, rest, TakeOut
  <2> QED
    BY ONLY <2>1, <1>6
<1>8. DOMAIN rest = 1 .. Len(s) - 1
  <2>1. Len(front) + Len(back) = Len(s) - 1
    BY ONLY <1>1, <1>4, <1>5
  <2> QED
    BY ONLY <1>7, <2>1, LenProperties
<1>9. ASSUME NEW j \in 1 .. Len(s) - 1
      PROVE  rest[j] = s[IF j < i THEN j ELSE j + 1]
  <2>1. rest[j] = IF j <= i - 1 THEN front[j] ELSE back[j - (i - 1)]
    <3>1. Len(front) + Len(back) = Len(s) - 1
      BY ONLY <1>1, <1>4, <1>5
    <3> QED
      BY ONLY <1>4, <1>7, <1>9, <3>1
  <2>2. CASE j < i
    <3>1. j \in 1 .. i - 1 /\ j <= i - 1
      BY ONLY <1>1, <1>9, <2>2
    <3> QED
      BY ONLY <1>4, <2>1, <2>2, <3>1
  <2>3. CASE ~ (j < i)
    <3>1. /\ j - (i - 1) \in 1 .. Len(s) - i /\ i + (j - (i - 1)) = j + 1
          /\ ~ (j <= i - 1)
      BY ONLY <1>1, <1>9, <2>3
    <3> QED
      BY ONLY <1>5, <2>1, <2>3, <3>1
  <2> QED
    BY <2>2, <2>3
<1> QED
  BY <1>1, <1>7, <1>8, <1>9 DEF rest

(* Everybody may comment, and what is drawn by a permission is asked for by *)
(* its route.                                                               *)
LEMMA GatesAreDemands ==
  ASSUME NEW control \in Page!Controls
  PROVE  /\ Page!Gate[control] = "none" =>
              control = "fields" \/ Page!Needs[control] = "comment"
         /\ Page!Gate[control] # "none" => Page!Needs[control] = Page!Gate[control]
         /\ control \notin {"context", "list", "nothing"}
<1> USE DEF Page!RowGate, Page!FieldsGate, Page!CollaboratorGate, Page!DraftGate, Page!CardGate,
            Page!ProjectGate, Page!PanelGate, Page!ButtonGate, Page!SubtaskGate, Page!CommentGate,
            Page!TaskNeeds, Page!PartNeeds, Page!FollowerNeeds, Page!ProjectNeeds
<1> DEFINE gate == CHOOSE table \in Page!Gates : control \in DOMAIN table
           needs == CHOOSE table \in Page!Demands : control \in DOMAIN table
<1>1. \E table \in Page!Gates : control \in DOMAIN table
  BY DEF Page!Controls
<1>2. gate \in Page!Gates /\ control \in DOMAIN gate /\ Page!Gate[control] = gate[control]
  BY <1>1 DEF Page!Gate
<1> HIDE DEF gate
<1>3. \E table \in Page!Demands : control \in DOMAIN table
  BY <1>2 DEF Page!Gates, Page!Demands
<1>4. needs \in Page!Demands /\ control \in DOMAIN needs /\ Page!Needs[control] = needs[control]
  BY <1>3 DEF Page!Needs
<1> HIDE DEF needs
<1> QED
  BY <1>2, <1>4 DEF Page!Gates, Page!Demands

(* The page asks module TaskPermissions, and so do the lemmas above.        *)
LEMMA PageAsksAsRoutes ==
  /\ Page!Actions = Actions
  /\ \A roles, global, a :
       Page!RouteAllows(roles, global, a) <=> RouteAllows(roles, global, a)
<1>1. Page!Actions = Actions
  BY DEF Page!Actions, Actions
<1>2. \A role : Page!RoleCapabilities(role) = RoleCapabilities(role)
  BY <1>1 DEF Page!RoleCapabilities, RoleCapabilities
<1>3. \A base, modifier : Page!Merge(base, modifier) = Merge(base, modifier)
  BY DEF Page!Merge, Merge, Page!AfterManage, AfterManage, Page!AfterEdit, AfterEdit,
         Page!AfterComment, AfterComment
<1>4. \A roles : Page!RoleBase(roles) = RoleBase(roles)
  <2> TAKE roles
  <2>1. UNION {Page!RoleCapabilities(role) : role \in roles}
          = UNION {RoleCapabilities(role) : role \in roles}
    BY <1>2
  <2> QED
    BY <1>3, <2>1 DEF Page!RoleBase, RoleBase
<1>5. \A roles, global, scoped, a :
        Page!Evaluate(roles, global, scoped, a) <=> Evaluate(roles, global, scoped, a)
  BY <1>3, <1>4 DEF Page!Evaluate, Evaluate
<1> QED
  BY <1>1, <1>5 DEF Page!RouteAllows, RouteAllows

(* Everyone may comment; and without the policies nobody may do more.       *)
LEMMA RightsLapse ==
  /\ Page!Rights \subseteq Actions /\ Page!RightsLapsed \subseteq Page!Rights
  /\ "comment" \in Page!Rights
<1>1. /\ Page!Rights = {a \in Actions : RouteAllows(member.roles, member.global, a)}
      /\ Page!RightsLapsed = {a \in Actions : RouteAllows(member.roles, {}, a)}
  BY PageAsksAsRoutes DEF Page!Rights, Page!RightsLapsed
<1>2. \A a \in Actions : RouteAllows(member.roles, {}, a) =>
                          RouteAllows(member.roles, member.global, a)
  <2> TAKE a \in Actions
  <2>1. {} \subseteq member.global
    OBVIOUS
  <2> QED
    BY <2>1, OverridesOnlyAdd
<1>3. "comment" \in Merge(RoleBase(member.roles), member.global)
  BY InMerge DEF RoleBase
<1>4. RouteAllows(member.roles, member.global, "comment")
  BY <1>3 DEF RouteAllows, Evaluate
<1> QED
  BY <1>1, <1>2, <1>4 DEF Actions

(* A request in flight.                                                    *)
DecidedReplies == [state: {"decided"}, granted: BOOLEAN]
PermissionReplies == [state: {"answered"}, rights: SUBSET Actions, active: BOOLEAN, at: Nat]
Requests ==
  [what: Page!Controls \cup {"context", "list"}, readOnly: BOOLEAN,
   got: {Page!Pending} \cup DecidedReplies \cup PermissionReplies, seen: Nat, late: BOOLEAN]

(* What may be relied on of a request when the user's rights have changed n *)
(* times: a control was drawn by a right the user still has, and an answer  *)
(* still holds, unless there was a change since.                            *)
Relies(request, n, rights) ==
  /\ request.seen <= n
  /\ request.what \in Page!Controls /\ request.seen = n =>
       Page!Gate[request.what] \in {"none"} \cup rights
  /\ request.got.state = "decided" => request.what \in Page!Controls
  /\ request.got.state = "answered" =>
       /\ request.got.at <= n
       /\ request.got.at = n => request.got.rights \subseteq rights

TrueRequests(n, rights) == {request \in Requests : Relies(request, n, rights)}

Members == [roles: RoleSets, global: Overrides, active: BOOLEAN]
PageStates == [known: BOOLEAN, active: BOOLEAN, shown: SUBSET Actions, at: Nat, loaded: BOOLEAN]

PageShowsRights ==
  page.at = changes /\ (page.loaded \/ page.known) => page.shown \subseteq Page!Rights

ControlsInv ==
  /\ changes \in Nat /\ member \in Members
  /\ page \in PageStates /\ page.at <= changes
  /\ sent \in Seq(TrueRequests(changes, Page!Rights))
  /\ PageShowsRights
  /\ Page!RefusedOnlyInRows

(* A request the page sends now.                                            *)
LEMMA SentIsTrue ==
  ASSUME ControlsInv, NEW what \in Page!Controls \cup {"context", "list"},
         NEW readOnly \in BOOLEAN,
         what \in Page!Controls /\ page.at = changes =>
           Page!Gate[what] \in {"none"} \cup Page!Rights
  PROVE  Page!Call(what, readOnly) \in TrueRequests(changes, Page!Rights)
<1> DEFINE call == Page!Call(what, readOnly)
<1>1. page.at \in Nat /\ page.at <= changes
  BY DEF ControlsInv, PageStates
<1>2. call = [what |-> what, readOnly |-> readOnly, got |-> [state |-> "pending"],
              seen |-> page.at, late |-> FALSE]
  BY DEF Page!Call, Page!Pending
<1>3. call \in Requests
  BY <1>1, <1>2 DEF Requests, Page!Pending
<1> HIDE DEF call
<1>4. Relies(call, changes, Page!Rights)
  BY <1>1, <1>2 DEF Relies
<1> QED
  BY <1>3, <1>4 DEF TrueRequests, call

(* A change makes nothing untrue.                                           *)
LEMMA ChangeKeepsTrue ==
  ASSUME NEW n \in Nat, NEW rights, NEW others
  PROVE  TrueRequests(n, rights) \subseteq TrueRequests(n + 1, others)
<1> SUFFICES ASSUME NEW request \in TrueRequests(n, rights)
             PROVE  Relies(request, n + 1, others)
  BY DEF TrueRequests
<1>1. request \in Requests /\ Relies(request, n, rights)
  BY DEF TrueRequests
<1>2. request.seen \in Nat /\ request.seen <= n
  BY <1>1 DEF Requests, Relies
<1>3. request.seen # n + 1 /\ request.seen <= n + 1
  BY <1>2
<1>4. request.got.state = "answered" => request.got.at <= n + 1 /\ request.got.at # n + 1
  <2>1. SUFFICES ASSUME request.got.state = "answered"
                 PROVE  request.got.at <= n + 1 /\ request.got.at # n + 1
    OBVIOUS
  <2>2. request.got \in PermissionReplies
    BY <1>1, <2>1 DEF Requests, DecidedReplies, Page!Pending
  <2>3. request.got.at \in Nat /\ request.got.at <= n
    BY <1>1, <2>1, <2>2 DEF Relies, PermissionReplies
  <2> QED
    BY <2>3
<1> QED
  BY <1>1, <1>3, <1>4 DEF Relies

(* The requests there are, seen one by one.                                 *)
LEMMA InFlight ==
  ASSUME ControlsInv, NEW i \in DOMAIN sent
  PROVE  /\ i \in 1 .. Len(sent) /\ Len(sent) \in Nat
         /\ sent[i] \in Requests /\ Relies(sent[i], changes, Page!Rights)
<1>1. sent \in Seq(TrueRequests(changes, Page!Rights))
  BY DEF ControlsInv
<1>2. /\ i \in 1 .. Len(sent) /\ Len(sent) \in Nat
      /\ sent[i] \in TrueRequests(changes, Page!Rights)
  BY <1>1, LenProperties
<1> QED
  BY <1>2 DEF TrueRequests

LEMMA ControlsStart ==
  ASSUME Page!Init
  PROVE  ControlsInv
<1> DEFINE call == [what |-> "context", readOnly |-> FALSE, got |-> [state |-> "pending"],
                    seen |-> 0, late |-> FALSE]
<1>1. /\ changes = 0 /\ refused = {} /\ member \in Members
      /\ page = [known |-> FALSE, active |-> TRUE, shown |-> Actions, at |-> 0, loaded |-> FALSE]
  BY PageAsksAsRoutes DEF Page!Init, Members
<1>2. sent = <<call>>
  BY <1>1 DEF Page!Init, Page!Call, Page!Pending
<1>3. /\ page \in PageStates /\ page.at <= changes /\ PageShowsRights
  BY <1>1 DEF PageStates, PageShowsRights
<1>4. call \in Requests
  BY DEF Requests, Page!Pending
<1>5. call.what = "context" /\ call.seen = 0 /\ call.got.state = "pending"
  OBVIOUS
<1> HIDE DEF call
<1>6. "context" \notin Page!Controls
  BY GatesAreDemands
<1>7. call \in TrueRequests(changes, Page!Rights)
  <2>1. Relies(call, changes, Page!Rights)
    BY <1>1, <1>5, <1>6 DEF Relies
  <2> QED
    BY <1>4, <2>1 DEF TrueRequests
<1>8. <<call>> \in Seq(TrueRequests(changes, Page!Rights))
  BY ONLY <1>7
<1> QED
  BY <1>1, <1>2, <1>3, <1>8 DEF ControlsInv, Page!RefusedOnlyInRows

(* A step that leaves the rights and the page alone, and only true requests *)
(* in flight.                                                               *)
LEMMA SamePage ==
  ASSUME ControlsInv, UNCHANGED <<member, page, changes, refused>>,
         sent' \in Seq(TrueRequests(changes, Page!Rights))
  PROVE  ControlsInv'
<1>1. Page!Rights' = Page!Rights
  BY DEF Page!Rights
<1> QED
  BY <1>1 DEF ControlsInv, PageShowsRights, Page!RefusedOnlyInRows

(* A control is drawn by a right the user has, if nothing has changed.      *)
LEMMA PressIsTrue ==
  ASSUME Page!ControlsAssumption, ControlsInv, Page!Press
  PROVE  ControlsInv'
<1>1. PICK control \in Pressed :
        /\ Page!Drawn(control)
        /\ sent' = Append(sent, Page!Call(control, ~ page.active))
        /\ UNCHANGED <<member, page, changes, refused>>
  BY DEF Page!Press
<1>2. control \in Page!Controls
  BY <1>1 DEF Page!ControlsAssumption
<1>3. (~ page.active) \in BOOLEAN
  BY DEF ControlsInv, PageStates
<1>4. page.at = changes => Page!Gate[control] \in {"none"} \cup Page!Rights
  BY <1>1 DEF Page!Drawn, ControlsInv, PageShowsRights
<1>5. Page!Call(control, ~ page.active) \in TrueRequests(changes, Page!Rights)
  BY <1>2, <1>3, <1>4, SentIsTrue
<1>6. sent' \in Seq(TrueRequests(changes, Page!Rights))
  BY <1>1, <1>5, AppendProperties DEF ControlsInv
<1> QED
  BY <1>1, <1>6, SamePage

(* A request is answered by what is true now.                               *)
LEMMA GotIsTrue ==
  ASSUME ControlsInv, NEW i \in DOMAIN sent, NEW got,
         \/ got \in DecidedReplies /\ sent[i].what \in Page!Controls
         \/ got \in PermissionReplies /\ got.at <= changes /\ got.rights \subseteq Page!Rights
  PROVE  [sent EXCEPT ![i].got = got] \in Seq(TrueRequests(changes, Page!Rights))
<1> DEFINE call == [sent[i] EXCEPT !.got = got]
<1>1. /\ i \in 1 .. Len(sent)
      /\ sent[i] \in Requests /\ Relies(sent[i], changes, Page!Rights)
  BY InFlight
<1>2. call \in Requests
  BY <1>1 DEF Requests
<1>3. call.got = got /\ call.seen = sent[i].seen /\ call.what = sent[i].what
  BY <1>1 DEF Requests
<1> HIDE DEF call
<1>4. got.state \in {"decided", "answered"} /\ (got.state = "decided" => got \in DecidedReplies)
  BY DEF DecidedReplies, PermissionReplies
<1>5. Relies(call, changes, Page!Rights)
  BY <1>1, <1>3, <1>4 DEF Relies, DecidedReplies, PermissionReplies
<1>6. call \in TrueRequests(changes, Page!Rights)
  BY <1>2, <1>5 DEF TrueRequests
<1>7. sent \in Seq(TrueRequests(changes, Page!Rights))
  BY DEF ControlsInv
<1>8. [sent EXCEPT ![i] = call] \in Seq(TrueRequests(changes, Page!Rights))
  BY <1>1, <1>6, <1>7, ExceptSeq
<1> QED
  BY <1>8 DEF call

LEMMA DecideIsTrue ==
  ASSUME ControlsInv, NEW i \in DOMAIN sent, NEW lapsed \in BOOLEAN, Page!Decide(i, lapsed)
  PROVE  ControlsInv'
<1> DEFINE what == sent[i].what
           rights == IF lapsed THEN Page!RightsLapsed ELSE Page!Rights
           got == [state |-> "decided", granted |-> Page!Needs[what] \in rights]
<1>1. /\ what \in Page!Controls
      /\ sent' = [sent EXCEPT ![i].got = got]
      /\ refused' = refused \cup IF ~ (Page!Needs[what] \in rights) /\ ~ lapsed
                                        /\ sent[i].seen = changes
                                 THEN {what} ELSE {}
      /\ UNCHANGED <<member, page, changes>>
  BY DEF Page!Decide
<1>2. got \in DecidedReplies
  <2>1. (Page!Needs[what] \in rights) \in BOOLEAN
    OBVIOUS
  <2> QED
    BY <2>1 DEF DecidedReplies
<1> HIDE DEF got
<1>3. sent' \in Seq(TrueRequests(changes, Page!Rights))
  BY <1>1, <1>2, GotIsTrue
<1>4. Relies(sent[i], changes, Page!Rights)
  BY InFlight
<1>5. sent[i].seen = changes => what = "fields" \/ Page!Needs[what] \in Page!Rights
  BY <1>1, <1>4, GatesAreDemands, RightsLapse DEF Relies
<1>6. refused' \subseteq {"fields"}
  BY <1>1, <1>5 DEF ControlsInv, Page!RefusedOnlyInRows
<1>7. Page!Rights' = Page!Rights
  BY <1>1 DEF Page!Rights
<1> QED
  BY <1>1, <1>3, <1>6, <1>7 DEF ControlsInv, PageShowsRights, Page!RefusedOnlyInRows

LEMMA AnswerIsTrue ==
  ASSUME ControlsInv, NEW i \in DOMAIN sent, NEW lapsed \in BOOLEAN, Page!Answer(i, lapsed)
  PROVE  ControlsInv'
<1> DEFINE got == [state |-> "answered",
                   rights |-> IF lapsed THEN Page!RightsLapsed ELSE Page!Rights,
                   active |-> member.active, at |-> changes]
<1>1. /\ sent' = [sent EXCEPT ![i].got = got]
      /\ UNCHANGED <<member, page, changes, refused>>
  BY DEF Page!Answer
<1>2. got \in PermissionReplies /\ got.at <= changes /\ got.rights \subseteq Page!Rights
  BY RightsLapse DEF PermissionReplies, ControlsInv, Members
<1> HIDE DEF got
<1>3. sent' \in Seq(TrueRequests(changes, Page!Rights))
  BY <1>1, <1>2, GotIsTrue
<1> QED
  BY <1>1, <1>3, SamePage

(* What is left when a call is taken up, and with one sent behind it.       *)
LEMMA RestIsTrue ==
  ASSUME ControlsInv, NEW i \in DOMAIN sent
  PROVE  /\ Page!Without(i) \in Seq(TrueRequests(changes, Page!Rights))
         /\ \A call \in TrueRequests(changes, Page!Rights) :
              /\ Append(Page!Without(i), call) \in Seq(TrueRequests(changes, Page!Rights))
              /\ Page!Without(i) \o <<call>> = Append(Page!Without(i), call)
         /\ Page!Without(i) \o <<>> = Page!Without(i)
<1> DEFINE T == TrueRequests(changes, Page!Rights)
<1>1. sent \in Seq(T)
  BY DEF ControlsInv
<1> HIDE DEF T
<1>2. Page!Without(i) \in Seq(T)
  BY <1>1, TakenOut DEF Page!Without, TakeOut
<1>3. \A call \in T : Append(Page!Without(i), call) = Page!Without(i) \o <<call>>
  BY ONLY <1>2, AppendIsConcat
<1>4. \A call \in T : Append(Page!Without(i), call) \in Seq(T)
  BY ONLY <1>2, AppendProperties
<1>5. Page!Without(i) \o <<>> = Page!Without(i)
  BY ONLY <1>2, ConcatEmptySeq
<1> QED
  BY <1>2, <1>3, <1>4, <1>5 DEF T

LEMMA TakeUpPressIsTrue ==
  ASSUME ControlsInv, NEW i \in DOMAIN sent, Page!TakeUpPress(i)
  PROVE  ControlsInv'
<1> DEFINE call == sent[i]
           next == IF call.got.granted THEN Page!Then(call.what) ELSE "nothing"
<1>1. /\ sent' = Page!Without(i) \o
                   IF next = "nothing" THEN <<>> ELSE <<Page!Call(next, call.readOnly)>>
      /\ UNCHANGED <<member, page, changes, refused>>
  BY DEF Page!TakeUpPress
<1>2. next \in {"nothing", "context", "list"}
  BY DEF Page!Then
<1>3. call.readOnly \in BOOLEAN
  BY InFlight DEF Requests
<1> HIDE DEF next, call
<1>4. next # "nothing" => Page!Call(next, call.readOnly) \in TrueRequests(changes, Page!Rights)
  <2>1. next # "nothing" => next \in {"context", "list"} /\ next \notin Page!Controls
    BY <1>2, GatesAreDemands
  <2> QED
    BY <1>3, <2>1, SentIsTrue
<1>5. sent' \in Seq(TrueRequests(changes, Page!Rights))
  BY <1>1, <1>4, RestIsTrue
<1> QED
  BY <1>1, <1>5, SamePage

LEMMA FailIsTrue ==
  ASSUME ControlsInv, NEW i \in DOMAIN sent, Page!Fail(i)
  PROVE  ControlsInv'
BY RestIsTrue, SamePage DEF Page!Fail

(* An answer is shown as it was given.                                      *)
LEMMA TakeUpContextIsTrue ==
  ASSUME ControlsInv, NEW i \in DOMAIN sent, Page!TakeUpContext(i)
  PROVE  ControlsInv'
<1> DEFINE got == sent[i].got
<1>1. /\ got.state = "answered"
      /\ page' = [page EXCEPT !.known = TRUE, !.active = got.active, !.at = got.at,
                              !.shown = IF got.active THEN got.rights ELSE {}]
      /\ sent' = Append(Page!Without(i), Page!Call("list", ~ got.active))
      /\ UNCHANGED <<member, changes, refused>>
  BY DEF Page!TakeUpContext
<1>2. /\ got \in PermissionReplies /\ got.at <= changes
      /\ got.at = changes => got.rights \subseteq Page!Rights
  BY <1>1, InFlight DEF Requests, DecidedReplies, Page!Pending, Relies
<1> HIDE DEF got
<1>3. "list" \notin Page!Controls
  BY GatesAreDemands
<1>4. (~ got.active) \in BOOLEAN
  BY <1>2 DEF PermissionReplies
<1>5. Page!Call("list", ~ got.active) \in TrueRequests(changes, Page!Rights)
  BY <1>3, <1>4, SentIsTrue
<1>6. sent' \in Seq(TrueRequests(changes, Page!Rights))
  BY <1>1, <1>5, RestIsTrue
<1>7. Page!Rights' = Page!Rights
  BY <1>1 DEF Page!Rights
<1>8. /\ page' \in PageStates /\ page'.at = got.at
      /\ page'.shown \subseteq got.rights
  BY <1>1, <1>2 DEF ControlsInv, PageStates, PermissionReplies
<1> QED
  BY <1>1, <1>2, <1>6, <1>7, <1>8 DEF ControlsInv, PageShowsRights, Page!RefusedOnlyInRows

(* Marking the lists that are outrun makes nothing untrue.                  *)
LEMMA OutrunIsTrue ==
  ASSUME ControlsInv, NEW i \in DOMAIN sent
  PROVE  /\ Page!Outrun(i) \in Seq(TrueRequests(changes, Page!Rights))
         /\ DOMAIN Page!Outrun(i) = DOMAIN sent /\ Len(Page!Outrun(i)) = Len(sent)
<1> DEFINE T == TrueRequests(changes, Page!Rights)
           outrun(j) == [sent[j] EXCEPT !.late = TRUE]
           n == Len(sent)
<1>1. n \in Nat /\ DOMAIN sent = 1 .. n
  BY InFlight, LenProperties DEF ControlsInv
<1>2. ASSUME NEW j \in DOMAIN sent
      PROVE  sent[j] \in T /\ outrun(j) \in T
  <2>1. sent[j] \in Requests /\ Relies(sent[j], changes, Page!Rights)
    BY InFlight
  <2>2. outrun(j) \in Requests
    BY <2>1 DEF Requests
  <2>3. /\ outrun(j).what = sent[j].what /\ outrun(j).seen = sent[j].seen
        /\ outrun(j).got = sent[j].got
    BY <2>1 DEF Requests
  <2> HIDE DEF outrun
  <2>4. Relies(outrun(j), changes, Page!Rights)
    BY <2>1, <2>3 DEF Relies
  <2> QED
    BY <2>1, <2>2, <2>4 DEF TrueRequests
<1> HIDE DEF T, n
<1>3. Page!Outrun(i) \in [1 .. n -> T]
  BY <1>1, <1>2 DEF Page!Outrun
<1>4. Page!Outrun(i) \in Seq(T)
  BY <1>1, <1>3, SeqDef
<1>5. DOMAIN Page!Outrun(i) = 1 .. n
  BY <1>3
<1>6. Len(Page!Outrun(i)) \in Nat /\ DOMAIN Page!Outrun(i) = 1 .. Len(Page!Outrun(i))
  BY <1>4, LenProperties
<1>7. Len(Page!Outrun(i)) = n
  BY ONLY <1>1, <1>5, <1>6
<1> QED
  BY <1>1, <1>4, <1>5, <1>7 DEF T, n

LEMMA TakeUpListIsTrue ==
  ASSUME ControlsInv, NEW i \in DOMAIN sent, Page!TakeUpList(i)
  PROVE  ControlsInv'
<1> DEFINE call == sent[i]
           got == call.got
           T == TrueRequests(changes, Page!Rights)
           next == Page!Call("list", ~ page.active)
<1>1. /\ got.state = "answered"
      /\ page' = [page EXCEPT !.shown = IF call.readOnly THEN {} ELSE got.rights,
                              !.at = got.at, !.loaded = TRUE]
      /\ sent' = Page!OutrunWithout(i) \o IF page.loaded THEN <<>> ELSE <<next>>
      /\ UNCHANGED <<member, changes, refused>>
  BY DEF Page!TakeUpList
<1>2. /\ got \in PermissionReplies /\ got.at <= changes
      /\ got.at = changes => got.rights \subseteq Page!Rights
  BY <1>1, InFlight DEF Requests, DecidedReplies, Page!Pending, Relies
<1>3. next \in T
  <2>1. "list" \notin Page!Controls
    BY GatesAreDemands
  <2>2. page.active \in BOOLEAN
    BY DEF ControlsInv, PageStates
  <2>3. (~ page.active) \in BOOLEAN
    BY <2>2
  <2> QED
    BY <2>1, <2>3, SentIsTrue
<1>4. Page!OutrunWithout(i) \in Seq(T)
  <2>1. Page!OutrunWithout(i) = TakeOut(Page!Outrun(i), i)
    BY OutrunIsTrue DEF Page!OutrunWithout, TakeOut
  <2> QED
    BY <2>1, OutrunIsTrue, TakenOut
<1> HIDE DEF got, T, next
<1>5. <<next>> \in Seq(T) /\ <<>> \in Seq(T)
  BY ONLY <1>3
<1>6. sent' \in Seq(T)
  <2>1. \A tail \in Seq(T) : Page!OutrunWithout(i) \o tail \in Seq(T)
    BY ONLY <1>4, ConcatProperties
  <2> QED
    BY <1>1, <1>5, <2>1
<1>7. Page!Rights' = Page!Rights
  BY <1>1 DEF Page!Rights
<1>8. /\ page' \in PageStates /\ page'.at = got.at
      /\ page'.shown \subseteq got.rights
  BY <1>1, <1>2 DEF ControlsInv, PageStates, PermissionReplies
<1> QED
  BY <1>1, <1>2, <1>6, <1>7, <1>8 DEF ControlsInv, PageShowsRights, Page!RefusedOnlyInRows, T

(* A change of the rights: what is shown and in flight is of before it.     *)
LEMMA ChangeIsTrue ==
  ASSUME ControlsInv, Page!Change
  PROVE  ControlsInv'
<1>1. /\ changes \in Nat /\ changes' = changes + 1 /\ member' \in Members
      /\ UNCHANGED <<page, sent, refused>>
  BY DEF Page!Change, ControlsInv, Members
<1>2. TrueRequests(changes, Page!Rights) \subseteq TrueRequests(changes', Page!Rights')
  BY <1>1, ChangeKeepsTrue
<1>3. sent' \in Seq(TrueRequests(changes', Page!Rights'))
  BY <1>1, <1>2, SeqMonotonic DEF ControlsInv
<1>4. page.at \in Nat /\ page.at <= changes
  BY DEF ControlsInv, PageStates
<1>5. page'.at <= changes' /\ page'.at # changes'
  BY <1>1, <1>4
<1> QED
  BY <1>1, <1>3, <1>5 DEF ControlsInv, PageShowsRights, Page!RefusedOnlyInRows

LEMMA ControlsStep ==
  ASSUME Page!ControlsAssumption, ControlsInv, [Page!Next]_Page!vars
  PROVE  ControlsInv'
<1>1. CASE Page!Press
  BY <1>1, PressIsTrue
<1>2. CASE Page!Change
  BY <1>2, ChangeIsTrue
<1>3. CASE \E i \in DOMAIN sent :
             \E lapsed \in BOOLEAN : Page!Decide(i, lapsed) \/ Page!Answer(i, lapsed)
  BY <1>3, DecideIsTrue, AnswerIsTrue
<1>4. CASE \E i \in DOMAIN sent : Page!TakeUpPress(i)
  BY <1>4, TakeUpPressIsTrue
<1>5. CASE \E i \in DOMAIN sent : Page!TakeUpList(i)
  BY <1>5, TakeUpListIsTrue
<1>6. CASE \E i \in DOMAIN sent : Page!TakeUpContext(i)
  BY <1>6, TakeUpContextIsTrue
<1>7. CASE \E i \in DOMAIN sent : Page!Fail(i)
  BY <1>7, FailIsTrue
<1>8. CASE UNCHANGED Page!vars
  <2>1. /\ UNCHANGED <<member, page, changes, refused>>
        /\ sent' \in Seq(TrueRequests(changes, Page!Rights))
    BY <1>8 DEF Page!vars, ControlsInv
  <2> QED
    BY <2>1, SamePage
<1> QED
  BY <1>1, <1>2, <1>3, <1>4, <1>5, <1>6, <1>7, <1>8 DEF Page!Next

(* RefusedOnlyInRows: no control of an up-to-date page is refused by its    *)
(* route but the fields of a row, whatever roles and overrides there are    *)
(* and however often they change.                                           *)
THEOREM ControlsAreGranted ==
  Page!ControlsAssumption => (Page!Spec => []Page!RefusedOnlyInRows)
<1> SUFFICES ASSUME Page!ControlsAssumption
             PROVE  Page!Spec => []Page!RefusedOnlyInRows
  OBVIOUS
<1>1. Page!Init => ControlsInv
  BY ControlsStart
<1>2. ControlsInv /\ [Page!Next]_Page!vars => ControlsInv'
  BY ControlsStep
<1>3. ControlsInv => Page!RefusedOnlyInRows
  BY DEF ControlsInv
<1> QED
  BY <1>1, <1>2, <1>3, PTL DEF Page!Spec

-----------------------------------------------------------------------------
(* A read-only page.  Lists asked for by a page that was not read-only are  *)
(* followed by one that was, which ends up shown; so while nothing has been *)
(* out of the ordinary, what is drawn by a permission goes.                 *)

ListAs(request, readOnly) == request.what = "list" /\ request.readOnly = readOnly

Awaited(s) == \E k \in DOMAIN s : ListAs(s[k], TRUE)

Covered(s) ==
  \A j \in DOMAIN s :
    ListAs(s[j], FALSE) => s[j].late \/ \E k \in DOMAIN s : k > j /\ ListAs(s[k], TRUE)

Quiet == ~ page.active /\ excuses \cap {"late", "captured", "failed"} = {}

RestInv ==
  /\ ControlsInv
  /\ Quiet => Covered(sent) /\ (page.shown = {} \/ Awaited(sent))

(* Only answers change.                                                     *)
LEMMA AnswersCoverAsMuch ==
  ASSUME NEW s, NEW t, DOMAIN t = DOMAIN s,
         \A j \in DOMAIN s : /\ t[j].what = s[j].what /\ t[j].readOnly = s[j].readOnly
                             /\ t[j].late = s[j].late
  PROVE  (Covered(s) => Covered(t)) /\ (Awaited(s) => Awaited(t))
BY DEF Covered, Awaited, ListAs

(* A request more.                                                          *)
LEMMA MoreCovers ==
  ASSUME NEW S, NEW s \in Seq(S), NEW call,
         \/ ListAs(call, TRUE)
         \/ Covered(s) /\ ~ ListAs(call, FALSE)
  PROVE  /\ Covered(Append(s, call))
         /\ Awaited(s) \/ ListAs(call, TRUE) => Awaited(Append(s, call))
<1> DEFINE t == Append(s, call)
           n == Len(s)
<1>1. /\ t \in Seq(S \cup {call}) /\ Len(t) = n + 1
      /\ t[n + 1] = call /\ \A j \in 1 .. n : t[j] = s[j]
  <2>1. call \in S \cup {call} /\ S \subseteq S \cup {call}
    OBVIOUS
  <2>2. s \in Seq(S \cup {call})
    BY ONLY <2>1, s \in Seq(S), SeqMonotonic
  <2> QED
    BY ONLY <2>1, <2>2, AppendProperties
<1>2. n \in Nat /\ DOMAIN s = 1 .. n
  BY LenProperties
<1> HIDE DEF t, n
<1>3. DOMAIN t = 1 .. n + 1
  BY <1>1, LenProperties
<1>4. \A j \in 1 .. n + 1 : j = n + 1 \/ j \in 1 .. n
  BY <1>2
<1>5. \A j \in 1 .. n : j \in 1 .. n + 1 /\ n + 1 > j
  BY <1>2
<1>6. n + 1 \in 1 .. n + 1
  BY <1>2
<1>7. Awaited(s) \/ ListAs(call, TRUE) => Awaited(t)
  BY <1>1, <1>2, <1>3, <1>5, <1>6 DEF Awaited
<1>8. Covered(t)
  <2> SUFFICES ASSUME NEW j \in 1 .. n + 1, ListAs(t[j], FALSE), ~ t[j].late
               PROVE  \E k \in 1 .. n + 1 : k > j /\ ListAs(t[k], TRUE)
    BY <1>3 DEF Covered
  <2>1. j \in 1 .. n /\ t[j] = s[j]
    BY <1>1, <1>4 DEF ListAs
  <2>2. CASE ListAs(call, TRUE)
    BY <1>1, <1>5, <1>6, <2>1, <2>2
  <2>3. CASE Covered(s)
    BY <1>1, <1>2, <1>5, <2>1, <2>3 DEF Covered
  <2> QED
    BY <2>2, <2>3
<1> QED
  BY <1>7, <1>8 DEF t

(* A request less: no list of a read-only page, or one that has outrun all  *)
(* lists before it.                                                         *)
LEMMA LessCovers ==
  ASSUME NEW S, NEW s \in Seq(S), NEW i \in DOMAIN s
  PROVE  /\ Covered(s) /\ (\/ ~ ListAs(s[i], TRUE)
                           \/ \A j \in DOMAIN s : j < i /\ ListAs(s[j], FALSE) => s[j].late)
              => Covered(TakeOut(s, i))
         /\ Awaited(s) /\ ~ ListAs(s[i], TRUE) => Awaited(TakeOut(s, i))
<1> DEFINE rest == TakeOut(s, i)
           n == Len(s)
           from(j) == IF j < i THEN j ELSE j + 1
           to(j) == IF j < i THEN j ELSE j - 1
<1>1. /\ n \in Nat /\ DOMAIN s = 1 .. n /\ DOMAIN rest = 1 .. n - 1
      /\ \A j \in 1 .. n - 1 : rest[j] = s[from(j)]
  BY TakenOut
<1> HIDE DEF rest, n
<1>2. i \in 1 .. n
  BY <1>1
<1>3. \A j \in 1 .. n - 1 : from(j) \in 1 .. n
  BY <1>1, <1>2
<1>4. \A k \in 1 .. n : k # i => to(k) \in 1 .. n - 1 /\ from(to(k)) = k
  BY <1>1, <1>2
<1>5. \A j \in 1 .. n - 1, k \in 1 .. n : /\ k # i /\ k > from(j) => to(k) > j
                                          /\ k = i /\ k > from(j) => from(j) < i
  BY <1>1, <1>2
<1> HIDE DEF from, to
<1>6. \A k \in 1 .. n : k # i /\ ListAs(s[k], TRUE) =>
                          to(k) \in 1 .. n - 1 /\ ListAs(rest[to(k)], TRUE)
  BY <1>1, <1>4
<1>7. Awaited(s) /\ ~ ListAs(s[i], TRUE) => Awaited(rest)
  BY <1>1, <1>6 DEF Awaited
<1>8. ASSUME Covered(s),
             \/ ~ ListAs(s[i], TRUE)
             \/ \A j \in DOMAIN s : j < i /\ ListAs(s[j], FALSE) => s[j].late,
             NEW j \in 1 .. n - 1, ListAs(rest[j], FALSE), ~ rest[j].late
      PROVE  \E k \in 1 .. n - 1 : k > j /\ ListAs(rest[k], TRUE)
  <2>1. from(j) \in 1 .. n /\ rest[j] = s[from(j)]
    BY <1>1, <1>3, <1>8
  <2>2. PICK k \in 1 .. n : k > from(j) /\ ListAs(s[k], TRUE)
    BY <1>1, <1>8, <2>1 DEF Covered
  <2>3. k # i
    BY <1>1, <1>5, <1>8, <2>1, <2>2
  <2> QED
    BY <1>5, <1>6, <1>8, <2>2, <2>3
<1> QED
  BY <1>1, <1>7, <1>8 DEF Covered, rest

(* Rights and answers leave the lists as they are.                          *)
LEMMA RestKeptBySame ==
  ASSUME RestInv, ControlsInv', UNCHANGED <<page, excuses>>,
         \/ UNCHANGED sent
         \/ \E i \in DOMAIN sent : \E got : sent' = [sent EXCEPT ![i].got = got]
  PROVE  RestInv'
<1>1. CASE UNCHANGED sent
  BY <1>1 DEF RestInv, Quiet
<1>2. ASSUME NEW i \in DOMAIN sent, NEW got, sent' = [sent EXCEPT ![i].got = got]
      PROVE  RestInv'
  <2>1. sent[i] \in Requests
    BY InFlight DEF RestInv
  <2>2. DOMAIN sent' = DOMAIN sent
    BY <1>2
  <2>3. \A j \in DOMAIN sent : sent'[j].what = sent[j].what /\ sent'[j].readOnly = sent[j].readOnly
                               /\ sent'[j].late = sent[j].late
    <3> TAKE j \in DOMAIN sent
    <3>1. CASE j = i
      <4>1. sent'[j] = [sent[i] EXCEPT !.got = got]
        BY <1>2, <3>1
      <4> QED
        BY <2>1, <3>1, <4>1 DEF Requests
    <3>2. CASE j # i
      BY <1>2, <3>2
    <3> QED
      BY <3>1, <3>2
  <2>4. (Covered(sent) => Covered(sent')) /\ (Awaited(sent) => Awaited(sent'))
    BY <2>2, <2>3, AnswersCoverAsMuch
  <2> QED
    BY <2>4 DEF RestInv, Quiet
<1> QED
  BY <1>1, <1>2

LEMMA RestKeptByPress ==
  ASSUME RestInv, ControlsInv', Page!ControlsAssumption, Page!Press
  PROVE  RestInv'
<1>1. PICK control \in Pressed :
        /\ sent' = Append(sent, Page!Call(control, ~ page.active))
        /\ UNCHANGED <<page, excuses>>
  BY DEF Page!Press
<1> DEFINE call == Page!Call(control, ~ page.active)
           T == TrueRequests(changes, Page!Rights)
<1>2. call.what = control
  BY DEF Page!Call
<1> HIDE DEF call
<1>3. control # "list"
  BY GatesAreDemands DEF Page!ControlsAssumption
<1>4. ~ ListAs(call, FALSE)
  BY <1>2, <1>3 DEF ListAs
<1>5. sent' = Append(sent, call)
  BY <1>1 DEF call
<1>6. sent \in Seq(T)
  BY DEF RestInv, ControlsInv
<1> HIDE DEF T
<1>7. Covered(sent) => Covered(sent') /\ (Awaited(sent) => Awaited(sent'))
  BY <1>4, <1>5, <1>6, MoreCovers
<1> QED
  BY <1>1, <1>7 DEF RestInv, Quiet

(* A handler that goes on asks for the list as its render would: in a page  *)
(* that has become read-only since, that is out of the ordinary (captured). *)
LEMMA RestKeptByTakeUpPress ==
  ASSUME RestInv, ControlsInv', NEW i \in DOMAIN sent, Page!TakeUpPress(i)
  PROVE  RestInv'
<1> DEFINE next == IF sent[i].got.granted THEN Page!Then(sent[i].what) ELSE "nothing"
           call == Page!Call(next, sent[i].readOnly)
           rest == TakeOut(sent, i)
           T == TrueRequests(changes, Page!Rights)
<1> SUFFICES ASSUME Quiet'
             PROVE  Covered(sent') /\ (page'.shown = {} \/ Awaited(sent'))
  BY DEF RestInv
<1>1. /\ sent[i].got.state = "decided" /\ page' = page
      /\ sent' = Page!Without(i) \o IF next = "nothing" THEN <<>> ELSE <<call>>
      /\ excuses' = excuses \cup
           (IF next = "list" /\ sent[i].readOnly = page.active THEN {"captured"} ELSE {})
  BY DEF Page!TakeUpPress
<1>2. /\ sent[i] \in Requests /\ sent[i].what \in Page!Controls
  BY <1>1, InFlight DEF RestInv, Relies
<1>3. sent[i].readOnly \in BOOLEAN
  BY <1>2 DEF Requests
<1>4. next \in {"nothing", "context", "list"}
  BY DEF Page!Then
<1>5. call.what = next /\ call.readOnly = sent[i].readOnly
  BY DEF Page!Call
<1>6. page.active \in BOOLEAN
  BY DEF RestInv, ControlsInv, PageStates
<1> HIDE DEF next, call
<1>7. Quiet /\ (next = "list" => sent[i].readOnly = TRUE)
  BY <1>1, <1>3, <1>6 DEF Quiet
<1>8. sent[i].what # "list"
  BY <1>2, GatesAreDemands
<1>9. sent \in Seq(T)
  BY DEF RestInv, ControlsInv
<1>10. rest \in Seq(T) /\ Covered(rest) /\ (page'.shown = {} \/ Awaited(rest))
  <2>1. ~ ListAs(sent[i], TRUE)
    BY <1>8 DEF ListAs
  <2>2. Covered(sent) /\ (page.shown = {} \/ Awaited(sent))
    BY <1>7 DEF RestInv
  <2> HIDE DEF T
  <2> QED
    BY <1>1, <1>9, <2>1, <2>2, TakenOut, LessCovers
<1>11. Page!Without(i) = rest
  BY DEF Page!Without, TakeOut
<1> HIDE DEF rest, T
<1>12. CASE next = "nothing"
  <2>1. sent' = rest
    BY <1>1, <1>10, <1>11, <1>12, ConcatEmptySeq
  <2> QED
    BY <1>10, <2>1
<1>13. CASE next # "nothing"
  <2>1. sent' = Append(rest, call)
    <3>1. sent' = rest \o <<call>>
      BY <1>1, <1>11, <1>13
    <3>2. rest \in Seq(T \cup {call}) /\ call \in T \cup {call}
      <4>1. call \in T \cup {call} /\ T \subseteq T \cup {call}
        OBVIOUS
      <4> QED
        BY ONLY <4>1, <1>10, SeqMonotonic
    <3> QED
      BY ONLY <3>1, <3>2, AppendIsConcat
  <2>2. ListAs(call, TRUE) \/ ~ ListAs(call, FALSE)
    BY <1>4, <1>5, <1>7 DEF ListAs
  <2> QED
    BY <1>10, <2>1, <2>2, MoreCovers
<1> QED
  BY <1>12, <1>13

LEMMA RestKeptByTakeUpContext ==
  ASSUME RestInv, ControlsInv', NEW i \in DOMAIN sent, Page!TakeUpContext(i)
  PROVE  RestInv'
<1> DEFINE got == sent[i].got
           call == Page!Call("list", ~ got.active)
           rest == Page!Without(i)
           T == TrueRequests(changes, Page!Rights)
<1> SUFFICES ASSUME Quiet'
             PROVE  Covered(sent') /\ page'.shown = {}
  BY DEF RestInv
<1>1. /\ got.state = "answered"
      /\ page' = [page EXCEPT !.known = TRUE, !.active = got.active, !.at = got.at,
                              !.shown = IF got.active THEN got.rights ELSE {}]
      /\ sent' = Append(rest, call)
  BY DEF Page!TakeUpContext
<1>2. got.active \in BOOLEAN /\ page \in PageStates
  <2>1. sent[i] \in Requests
    BY InFlight DEF RestInv
  <2>2. got \in PermissionReplies
    BY <1>1, <2>1 DEF Requests, DecidedReplies, Page!Pending
  <2> QED
    BY <2>2 DEF PermissionReplies, RestInv, ControlsInv
<1>3. call.what = "list" /\ call.readOnly = ~ got.active
  BY DEF Page!Call
<1> HIDE DEF got, call
<1>4. page'.active = got.active /\ page'.shown = IF got.active THEN got.rights ELSE {}
  BY <1>1, <1>2 DEF PageStates
<1>5. got.active = FALSE
  BY <1>2, <1>4 DEF Quiet
<1>6. ListAs(call, TRUE)
  BY <1>3, <1>5 DEF ListAs
<1>7. rest \in Seq(T)
  BY RestIsTrue DEF RestInv
<1> HIDE DEF rest, T
<1>8. Covered(sent')
  BY <1>1, <1>6, <1>7, MoreCovers
<1> QED
  BY <1>4, <1>5, <1>8

(* The list taken up outruns those before it; if it is not one of a read-   *)
(* only page, one that is follows it.                                       *)
LEMMA RestKeptByTakeUpList ==
  ASSUME RestInv, ControlsInv', NEW i \in DOMAIN sent, Page!TakeUpList(i)
  PROVE  RestInv'
<1> DEFINE call == sent[i]
           next == Page!Call("list", ~ page.active)
           outrun == Page!Outrun(i)
           rest == TakeOut(outrun, i)
           T == TrueRequests(changes, Page!Rights)
<1> SUFFICES ASSUME Quiet'
             PROVE  Covered(sent') /\ (page'.shown = {} \/ Awaited(sent'))
  BY DEF RestInv
<1>1. /\ call.what = "list"
      /\ page' = [page EXCEPT !.shown = IF call.readOnly THEN {} ELSE call.got.rights,
                              !.at = call.got.at, !.loaded = TRUE]
      /\ sent' = Page!OutrunWithout(i) \o IF page.loaded THEN <<>> ELSE <<next>>
      /\ excuses' = excuses \cup (IF call.late THEN {"late"} ELSE {})
  BY DEF Page!TakeUpList
<1>2. /\ i \in 1 .. Len(sent) /\ Len(sent) \in Nat /\ DOMAIN sent = 1 .. Len(sent)
      /\ \A j \in DOMAIN sent : sent[j] \in Requests
  BY InFlight, LenProperties DEF RestInv, ControlsInv
<1>3. /\ outrun \in Seq(T) /\ DOMAIN outrun = DOMAIN sent /\ Len(outrun) = Len(sent)
  BY OutrunIsTrue DEF RestInv
<1>4. \A j \in DOMAIN sent :
        /\ outrun[j].what = sent[j].what /\ outrun[j].readOnly = sent[j].readOnly
        /\ j < i /\ sent[j].what = "list" => outrun[j].late = TRUE
        /\ ~ (j < i) => outrun[j] = sent[j]
  <2> SUFFICES ASSUME NEW j \in DOMAIN sent
               PROVE  /\ outrun[j].what = sent[j].what /\ outrun[j].readOnly = sent[j].readOnly
                      /\ j < i /\ sent[j].what = "list" => outrun[j].late = TRUE
                      /\ ~ (j < i) => outrun[j] = sent[j]
    OBVIOUS
  <2>1. outrun[j] = IF j < i /\ sent[j].what = "list" THEN [sent[j] EXCEPT !.late = TRUE]
                                                      ELSE sent[j]
    BY DEF Page!Outrun
  <2>2. sent[j] \in Requests
    BY <1>2
  <2> HIDE DEF outrun
  <2>3. CASE j < i /\ sent[j].what = "list"
    BY <2>1, <2>2, <2>3 DEF Requests
  <2>4. CASE ~ (j < i /\ sent[j].what = "list")
    BY <2>1, <2>4
  <2> QED
    BY <2>3, <2>4
<1>5. /\ page.active \in BOOLEAN /\ page'.active = page.active
      /\ page'.shown = IF call.readOnly THEN {} ELSE call.got.rights
  BY <1>1 DEF RestInv, ControlsInv, PageStates
<1>6. Quiet /\ ~ call.late /\ ~ page.active
  BY <1>1, <1>5 DEF Quiet
<1>7. call.readOnly \in BOOLEAN
  BY <1>2 DEF Requests
<1>8. rest = Page!OutrunWithout(i)
  BY <1>3 DEF Page!OutrunWithout, TakeOut
<1>9. ListAs(next, TRUE)
  BY <1>5, <1>6 DEF ListAs, Page!Call
<1> HIDE DEF outrun, next, T
<1>10. Covered(sent)
  BY <1>6 DEF RestInv
<1>11. Covered(outrun)
  <2> SUFFICES ASSUME NEW j \in DOMAIN sent, ListAs(outrun[j], FALSE), ~ outrun[j].late
               PROVE  \E k \in DOMAIN sent : k > j /\ ListAs(outrun[k], TRUE)
    BY <1>3 DEF Covered
  <2>1. ListAs(sent[j], FALSE) /\ ~ (j < i) /\ outrun[j] = sent[j]
    BY <1>4 DEF ListAs
  <2>2. PICK k \in DOMAIN sent : k > j /\ ListAs(sent[k], TRUE)
    BY <1>10, <2>1 DEF Covered
  <2> QED
    BY <1>4, <2>2 DEF ListAs
<1>12. Covered(rest)
  <2>1. \A j \in DOMAIN outrun : j < i /\ ListAs(outrun[j], FALSE) => outrun[j].late
    BY <1>3, <1>4 DEF ListAs
  <2>2. i \in DOMAIN outrun
    BY <1>3
  <2> QED
    BY <1>3, <1>11, <2>1, <2>2, LessCovers
<1>13. call.readOnly \/ Awaited(rest)
  <2> SUFFICES ASSUME ~ call.readOnly
               PROVE  Awaited(rest)
    OBVIOUS
  <2>1. ListAs(sent[i], FALSE) /\ ~ ListAs(sent[i], TRUE)
    BY <1>1, <1>7 DEF ListAs
  <2>2. \E k \in DOMAIN sent : ListAs(sent[k], TRUE)
    BY <1>6, <1>10, <2>1 DEF Covered
  <2>3. Awaited(outrun) /\ ~ ListAs(outrun[i], TRUE)
    BY <1>3, <1>4, <2>1, <2>2 DEF Awaited, ListAs
  <2>4. i \in DOMAIN outrun
    BY <1>3
  <2> QED
    BY <1>3, <2>3, <2>4, LessCovers
<1>14. rest \in Seq(T)
  BY <1>3, TakenOut
<1> HIDE DEF rest, call
<1>15. CASE page.loaded
  <2>1. sent' = rest
    BY <1>1, <1>8, <1>14, <1>15, ConcatEmptySeq
  <2> QED
    BY <1>5, <1>7, <1>12, <1>13, <2>1
<1>16. CASE ~ page.loaded
  <2>1. sent' = Append(rest, next)
    <3>1. sent' = rest \o <<next>>
      BY <1>1, <1>8, <1>16
    <3>2. rest \in Seq(T \cup {next}) /\ next \in T \cup {next}
      <4>1. next \in T \cup {next} /\ T \subseteq T \cup {next}
        OBVIOUS
      <4> QED
        BY ONLY <4>1, <1>14, SeqMonotonic
    <3> QED
      BY ONLY <3>1, <3>2, AppendIsConcat
  <2> QED
    BY <1>9, <1>14, <2>1, MoreCovers
<1> QED
  BY <1>15, <1>16

LEMMA RestStep ==
  ASSUME RestInv, Page!ControlsAssumption, [Page!Next]_Page!vars
  PROVE  RestInv'
<1>0. ControlsInv'
  BY ControlsStep DEF RestInv
<1>1. CASE Page!Press
  BY <1>0, <1>1, RestKeptByPress
<1>2. CASE \/ Page!Change \/ UNCHANGED Page!vars
           \/ \E i \in DOMAIN sent : \E lapsed \in BOOLEAN :
                Page!Decide(i, lapsed) \/ Page!Answer(i, lapsed)
  <2>1. /\ UNCHANGED <<page, excuses>>
        /\ \/ UNCHANGED sent
           \/ \E i \in DOMAIN sent : \E got : sent' = [sent EXCEPT ![i].got = got]
    BY <1>2 DEF Page!Change, Page!vars, Page!Decide, Page!Answer
  <2> QED
    BY <1>0, <2>1, RestKeptBySame
<1>3. CASE \E i \in DOMAIN sent : Page!TakeUpPress(i)
  BY <1>0, <1>3, RestKeptByTakeUpPress
<1>4. CASE \E i \in DOMAIN sent : Page!TakeUpList(i)
  BY <1>0, <1>4, RestKeptByTakeUpList
<1>5. CASE \E i \in DOMAIN sent : Page!TakeUpContext(i)
  BY <1>0, <1>5, RestKeptByTakeUpContext
<1>6. CASE \E i \in DOMAIN sent : Page!Fail(i)
  BY <1>0, <1>6 DEF Page!Fail, RestInv, Quiet
<1> QED
  BY <1>1, <1>2, <1>3, <1>4, <1>5, <1>6 DEF Page!Next

(* ReadOnlyAtRest: a page that says the account is read-only, and waits for *)
(* nothing, offers nothing that is drawn by a permission, unless a request  *)
(* failed or an older list came last.                                       *)
THEOREM ReadOnlyOffersNothing ==
  Page!ControlsAssumption => (Page!Spec => []Page!ReadOnlyAtRest)
<1> SUFFICES ASSUME Page!ControlsAssumption
             PROVE  Page!Spec => []Page!ReadOnlyAtRest
  OBVIOUS
<1>1. Page!Init => RestInv
  <2> SUFFICES ASSUME Page!Init
               PROVE  RestInv
    OBVIOUS
  <2>1. page.active = TRUE
    BY DEF Page!Init
  <2> QED
    BY <2>1, ControlsStart DEF RestInv, Quiet
<1>2. RestInv /\ [Page!Next]_Page!vars => RestInv'
  BY RestStep
<1>3. RestInv => Page!ReadOnlyAtRest
  <2> SUFFICES ASSUME RestInv, sent = <<>>, Quiet
               PROVE  page.shown = {}
    BY DEF Page!ReadOnlyAtRest, Quiet
  <2>1. ~ Awaited(sent)
    BY DEF Awaited
  <2> QED
    BY <2>1 DEF RestInv
<1> QED
  BY <1>1, <1>2, <1>3, PTL DEF Page!Spec

-----------------------------------------------------------------------------
(* The projects page.  A list on its way is as old as the moment it was     *)
(* read at; what was written since is an answer that has yet to come.       *)

CONSTANTS Tenants, NoTenant, Home, TenantOf, Given, Managed, MaxActs

VARIABLES table, writes, screen, asks, acts, wanted, slips

Cards == INSTANCE ProjectsPage WITH page <- screen, calls <- asks, excuses <- slips

(* The requests in flight, in whatever order.                               *)
AnyOf(s) == {s[k] : k \in DOMAIN s}
AllBut(s, i) == {s[k] : k \in DOMAIN s \ {i}}
Flying == AnyOf(asks)

Written(c) == c.what \in {"create", "edit", "delete"} /\ c.state = "written"
Sums(c) == c.what = "list" \/ (c.what # "create" /\ Written(c))

(* The handler of the dialog, while it has requests to wait for.            *)
Handles(c) ==
  \/ c.what \in {"create", "edit"}
  \/ c.what = "list" /\ c.then # <<>>
  \/ c.what = "context" /\ c.then \in {<<"create">>, <<"edit">>}

Alone(s) == \A i, j \in DOMAIN s : Handles(s[i]) /\ Handles(s[j]) => i = j

(* What is on its way: lists, summaries, and answers of writes.             *)
ListsOf(S) == {[tenant |-> c.tenant, seen |-> c.rows] : c \in {d \in S : d.what = "list"}}
SumsOf(S) == {[tenant |-> c.tenant, seen |-> c.sums] : c \in {d \in S : Sums(d)}}
DoneOf(S) ==
  {[what |-> c.what, project |-> c.project, wrote |-> c.rows] : c \in {d \in S : Written(d)}}
EditsOf(S) == {c.project : c \in {d \in S : d.what = "edit"}}

Lists == ListsOf(Flying)
Summaries == SumsOf(Flying)
Done == DoneOf(Flying)

(* The projects the page knows of.                                          *)
Known ==
  DOMAIN screen.rows \cup EditsOf(Flying)
  \cup (IF screen.dialog.mode = "edit" THEN {screen.dialog.project} ELSE {})

ReadYet(l) == l.seen # Cards!Unread
Sees(view, p) ==
  IF Cards!Live(p) THEN p \in DOMAIN view /\ view[p] = table[p] ELSE p \notin DOMAIN view

(* Nothing has gone wrong, and no answer on its way is from before what is  *)
(* shown: it would be noted when it comes.                                  *)
Fine == slips \cap {"failed", "late", "strayed"} = {}
Hopeful ==
  /\ Fine
  /\ \A l \in Lists : ReadYet(l) => screen.rowsAt <= l.seen.at
  /\ \A s \in Summaries : ReadYet(s) => screen.sums.at <= s.seen.at

-----------------------------------------------------------------------------
(* The inductive invariant, in parts *)

(* What has been read of a tenant is what was there at the time.            *)
View(v, t) ==
  /\ v.at \in 0 .. writes
  /\ v.at = writes => v.is = Cards!RowsOf(t)
  /\ \A p \in DOMAIN v.is : p \in Projects /\ TenantOf[p] = t /\ table[p] # 0

ViewsOK ==
  \A l \in Lists \cup Summaries : l.tenant \in Tenants /\ (ReadYet(l) => View(l.seen, l.tenant))

(* Only one edit is under way; a project that was deleted remains so.       *)
DoneOK ==
  \A w \in Done :
    /\ w.project \in Projects /\ w.what \in {"create", "edit", "delete"}
    /\ w.wrote.at \in 0 .. writes /\ table[w.project] # 0
    /\ w.what = "delete" => table[w.project] = -1
    /\ w.what = "edit" => w.wrote.is = table[w.project] \/ table[w.project] = -1

(* A later list has all that an earlier one has, unless it was deleted.     *)
Grown ==
  \A l, m \in Lists :
    l.tenant = m.tenant /\ ReadYet(l) /\ ReadYet(m) /\ l.seen.at <= m.seen.at =>
      \A p \in DOMAIN l.seen.is : p \in DOMAIN m.seen.is \/ table[p] = -1

(* The last write of a project, as far as its answer has yet to come.       *)
Last(w) == w.what = "edit" => table[w.project] # -1

(* A list that was read after a write shows it.                             *)
AfterWrites ==
  \A w \in Done : w.what # "create" /\ Last(w) =>
    \A l \in Lists :
      l.tenant = TenantOf[w.project] /\ ReadYet(l) /\ w.wrote.at <= l.seen.at =>
        Sees(l.seen.is, w.project)

(* What the page knows of, it shows, and so do the lists to come.           *)
KnownOK == \A p \in Known : p \in Projects /\ table[p] # 0
Kept ==
  Hopeful => \A p \in Known :
    /\ screen.listed = TenantOf[p] => p \in DOMAIN screen.rows \/ table[p] = -1
    /\ \A l \in Lists : l.tenant = TenantOf[p] /\ ReadYet(l) =>
         p \in DOMAIN l.seen.is \/ table[p] = -1

ScreenOK ==
  /\ screen.rowsAt \in Int /\ screen.rowsAt <= writes
  /\ screen.sums.at \in Int /\ screen.sums.at <= writes
  /\ Fine => \A p \in DOMAIN screen.rows : TenantOf[p] = screen.listed

Shows(t) == screen.listed = t /\ screen.tenant = t /\ t \in Tenants
NoneOf(S, t) == \A l \in S : l.tenant # t
LatestOf(S, l) == \A m \in S : m.tenant = l.tenant => ReadYet(m) /\ m.seen.at <= l.seen.at
Unchanging(p) == \A w \in Done : w.project = p => ~ Last(w)
NoneMade(t) == \A w \in Done : w.what = "create" => TenantOf[w.project] # t

(* The latest list shows what there is, and so does the page when there is  *)
(* none, but for what answers to come will tell.                            *)
ListsTell ==
  Hopeful => \A l \in Lists : ReadYet(l) /\ LatestOf(Lists, l) =>
    \A p \in Projects : TenantOf[p] = l.tenant /\ Unchanging(p) => Sees(l.seen.is, p)
RowsTell ==
  Hopeful => \A p \in Projects :
    Shows(TenantOf[p]) /\ NoneOf(Lists, TenantOf[p]) /\ Unchanging(p) => Sees(screen.rows, p)

(* The same of summaries, which answers of edits and deletions bring along. *)
SumsTell ==
  Hopeful => \A s \in Summaries :
    ReadYet(s) /\ LatestOf(Summaries, s) /\ NoneMade(s.tenant) =>
      s.seen.is = Cards!RowsOf(s.tenant)
SummaryTells ==
  Hopeful => \A t \in Tenants :
    Shows(t) /\ NoneOf(Summaries, t) /\ NoneMade(t) => screen.sums.is = Cards!RowsOf(t)

ViewsInv ==
  /\ table \in [Projects -> Nat \cup {-1}] /\ writes \in Nat
  /\ ViewsOK /\ DoneOK /\ Grown /\ AfterWrites /\ KnownOK /\ Kept /\ ScreenOK
  /\ ListsTell /\ RowsTell /\ SumsTell /\ SummaryTells

(* The requests, and what they do next.                                     *)
Fields == {"what", "tenant", "project", "state", "rows", "sums", "then"}
Mapped(f) == f = [x \in DOMAIN f |-> f[x]]
Refresh(c) ==
  /\ DOMAIN c = Fields /\ c.what = "context" /\ c.tenant \in Tenants /\ c.state = "sent"
  /\ c.then \in {<<>>, <<"create">>, <<"edit">>, <<"delete">>}
Loads(c) ==
  /\ c.what = "list" /\ c.state = "sent"
  /\ c.rows # Cards!Unread => Mapped(c.rows.is)
  /\ c.then = <<>> \/ \E r : Refresh(r) /\ r.then = <<"create">> /\ c.then = <<r>>
Asks(c) ==
  /\ c.what \in {"create", "edit", "delete"} /\ c.project \in Projects
  /\ c.state \in {"sent", "written", "refused"}
  /\ c.what = "create" => TenantOf[c.project] = c.tenant
  /\ c.what = "create" /\ c.state = "sent" => table[c.project] = 0
  /\ c.state = "written" => c.tenant \in Tenants /\ c.tenant = TenantOf[c.project]
  /\ c.state # "written" => c.sums = Cards!Unread

RequestOK(c) == DOMAIN c = Fields /\ (Refresh(c) \/ Loads(c) \/ Asks(c))

(* The tenant that is shown is the one that was asked for, or a context is  *)
(* on its way; its list is shown, or on its way.                            *)
TenantOK ==
  "failed" \notin slips =>
    /\ \/ screen.tenant \in Tenants /\ (screen.tenant = wanted \/ "rushed" \in slips)
       \/ \E c \in Flying : c.what = "context"
    /\ Fine /\ screen.tenant \in Tenants =>
         screen.listed = screen.tenant \/ ~ NoneOf(Lists, screen.tenant)

CardsInv ==
  /\ asks \in Seq(Flying) /\ Alone(asks)
  /\ \A c \in Flying : RequestOK(c)
  /\ (\E c \in Flying : Handles(c)) => screen.creating
  /\ DOMAIN screen = {"tenant", "waiting", "listed", "loading", "rows", "rowsAt", "sums", "manage",
                      "dialog", "creating", "deleting"}
  /\ Mapped(screen.rows)
  /\ TenantOK /\ ViewsInv

-----------------------------------------------------------------------------
(* A request sent, one that gets on, and one that is taken up               *)

LEMMA SeqOfItsOwn ==
  ASSUME NEW S, NEW s \in Seq(S)
  PROVE  /\ s \in Seq(AnyOf(s)) /\ AnyOf(s) \subseteq S
         /\ Len(s) \in Nat /\ DOMAIN s = 1 .. Len(s)
<1>1. Len(s) \in Nat /\ DOMAIN s = 1 .. Len(s) /\ s \in [1 .. Len(s) -> S]
  BY LenProperties
<1>2. s \in [1 .. Len(s) -> AnyOf(s)]
  BY <1>1 DEF AnyOf
<1>3. AnyOf(s) \subseteq S
  BY <1>1 DEF AnyOf
<1> QED
  BY <1>1, <1>2, <1>3, SeqDef

LEMMA OneMore ==
  ASSUME NEW s, s \in Seq(AnyOf(s)), NEW c
  PROVE  /\ Append(s, c) \in Seq(AnyOf(Append(s, c)))
         /\ AnyOf(Append(s, c)) = AnyOf(s) \cup {c}
         /\ s \o <<c>> = Append(s, c)
         /\ Alone(s) /\ (Handles(c) => \A d \in AnyOf(s) : ~ Handles(d)) => Alone(Append(s, c))
<1> DEFINE S == AnyOf(s) \cup {c}
           t == Append(s, c)
           n == Len(s)
<1>1. s \in Seq(S) /\ c \in S
  <2>1. AnyOf(s) \subseteq S
    OBVIOUS
  <2> QED
    BY <2>1, SeqMonotonic
<1> HIDE DEF S
<1>2. /\ t \in Seq(S) /\ Len(t) = n + 1 /\ t[n + 1] = c /\ \A j \in 1 .. n : t[j] = s[j]
      /\ t = s \o <<c>>
  BY <1>1, AppendProperties, AppendIsConcat
<1>3. n \in Nat /\ DOMAIN s = 1 .. n
  BY <1>1, LenProperties
<1>4. DOMAIN t = 1 .. n + 1 /\ t \in Seq(AnyOf(t))
  BY <1>2, LenProperties, SeqOfItsOwn
<1> HIDE DEF t, n
<1>5. \A j \in 1 .. n + 1 : j = n + 1 \/ (j \in 1 .. n /\ j # n + 1)
  BY <1>3
<1>6. \A j \in 1 .. n : j \in 1 .. n + 1
  BY <1>3
<1>7. n + 1 \in 1 .. n + 1
  BY <1>3
<1>8. AnyOf(t) = AnyOf(s) \cup {c}
  BY <1>2, <1>3, <1>4, <1>5, <1>6, <1>7 DEF AnyOf
<1>9. ASSUME Alone(s), Handles(c) => \A d \in AnyOf(s) : ~ Handles(d)
      PROVE  Alone(t)
  <2>1. \A j \in 1 .. n : s[j] \in AnyOf(s)
    BY <1>3 DEF AnyOf
  <2> SUFFICES ASSUME NEW i \in DOMAIN t, NEW j \in DOMAIN t, Handles(t[i]), Handles(t[j])
               PROVE  i = j
    BY DEF Alone
  <2>2. CASE i \in 1 .. n /\ j \in 1 .. n
    BY <1>2, <1>3, <1>9, <2>2 DEF Alone
  <2>3. CASE i = n + 1 /\ j \in 1 .. n
    BY <1>2, <1>9, <2>1, <2>3
  <2>4. CASE i \in 1 .. n /\ j = n + 1
    BY <1>2, <1>9, <2>1, <2>4
  <2> QED
    BY <1>4, <1>5, <2>2, <2>3, <2>4
<1> QED
  BY <1>2, <1>4, <1>8, <1>9 DEF t

LEMMA OneChanged ==
  ASSUME NEW s, s \in Seq(AnyOf(s)), NEW i \in DOMAIN s, NEW d,
         NEW t, t \in [DOMAIN s -> AnyOf(s) \cup {d}], t[i] = d,
         \A k \in DOMAIN s \ {i} : t[k] = s[k]
  PROVE  /\ t \in Seq(AnyOf(t))
         /\ AnyOf(s) = AllBut(s, i) \cup {s[i]} /\ AnyOf(t) = AllBut(s, i) \cup {d}
         /\ Alone(s) /\ (Handles(d) => Handles(s[i])) => Alone(t)
         /\ Alone(s) /\ Handles(s[i]) => \A c \in AllBut(s, i) : ~ Handles(c)
<1>1. Len(s) \in Nat /\ DOMAIN s = 1 .. Len(s)
  BY LenProperties
<1>2. t \in [1 .. Len(s) -> AnyOf(s) \cup {d}]
  BY <1>1
<1>3. t \in Seq(AnyOf(s) \cup {d})
  BY <1>1, <1>2, SeqDef
<1>4. t \in Seq(AnyOf(t))
  BY <1>3, SeqOfItsOwn
<1>5. DOMAIN t = DOMAIN s /\ t[i] = d /\ \A k \in DOMAIN s \ {i} : t[k] = s[k]
  OBVIOUS
<1>6. AnyOf(s) = AllBut(s, i) \cup {s[i]} /\ AnyOf(t) = AllBut(s, i) \cup {d}
  BY <1>5 DEF AnyOf, AllBut
<1>7. Alone(s) /\ (Handles(d) => Handles(s[i])) => Alone(t)
  <2> SUFFICES ASSUME Alone(s), Handles(d) => Handles(s[i]),
                      NEW j \in DOMAIN s, NEW k \in DOMAIN s, Handles(t[j]), Handles(t[k])
               PROVE  j = k
    BY <1>5 DEF Alone
  <2>1. Handles(s[j]) /\ Handles(s[k])
    BY <1>5
  <2> QED
    BY <2>1 DEF Alone
<1>8. Alone(s) /\ Handles(s[i]) => \A c \in AllBut(s, i) : ~ Handles(c)
  BY DEF Alone, AllBut
<1> QED
  BY <1>4, <1>6, <1>7, <1>8

LEMMA OneLess ==
  ASSUME NEW s, s \in Seq(AnyOf(s)), NEW i \in DOMAIN s
  PROVE  LET t == TakeOut(s, i)
         IN  /\ t \in Seq(AnyOf(t))
             /\ AnyOf(s) = AllBut(s, i) \cup {s[i]} /\ AnyOf(t) = AllBut(s, i)
             /\ t \o <<>> = t
             /\ Alone(s) => Alone(t)
             /\ Alone(s) /\ Handles(s[i]) => \A c \in AllBut(s, i) : ~ Handles(c)
<1> DEFINE t == TakeOut(s, i)
           n == Len(s)
<1>1. /\ t \in Seq(AnyOf(s)) /\ DOMAIN s = 1 .. n /\ n \in Nat /\ DOMAIN t = 1 .. n - 1
      /\ \A j \in 1 .. n - 1 : t[j] = s[IF j < i THEN j ELSE j + 1]
  BY TakenOut
<1> HIDE DEF t, n
<1>2. t \in Seq(AnyOf(t)) /\ t \o <<>> = t
  <2>1. t \in Seq(AnyOf(t))
    BY <1>1, SeqOfItsOwn
  <2> QED
    BY <2>1, ConcatEmptySeq
<1> DEFINE Old(j) == IF j < i THEN j ELSE j + 1
<1>3. i \in 1 .. n
  BY <1>1
<1>4. \A j \in 1 .. n - 1 : Old(j) \in 1 .. n /\ Old(j) # i
  BY <1>1, <1>3
<1>5. \A j, k \in 1 .. n - 1 : Old(j) = Old(k) => j = k
  BY <1>1, <1>3
<1>6. \A k \in 1 .. n \ {i} : \E j \in 1 .. n - 1 : Old(j) = k
  <2> TAKE k \in 1 .. n \ {i}
  <2>1. CASE k < i
    <3>1. k \in 1 .. n - 1 /\ Old(k) = k
      BY <1>1, <1>3, <2>1
    <3> QED
      BY <3>1
  <2>2. CASE ~ (k < i)
    <3>1. k - 1 \in 1 .. n - 1 /\ Old(k - 1) = k
      BY <1>1, <1>3, <2>2
    <3> QED
      BY <3>1
  <2> QED
    BY <2>1, <2>2
<1>7. \A j \in 1 .. n - 1 : t[j] = s[Old(j)]
  BY <1>1
<1> HIDE DEF Old
<1>8. AnyOf(t) = AllBut(s, i)
  <2>1. ASSUME NEW j \in 1 .. n - 1
        PROVE  t[j] \in AllBut(s, i)
    BY <1>1, <1>4, <1>7 DEF AllBut
  <2>2. ASSUME NEW k \in 1 .. n \ {i}
        PROVE  s[k] \in AnyOf(t)
    <3>1. PICK j \in 1 .. n - 1 : Old(j) = k
      BY <1>6
    <3> QED
      BY <1>1, <1>7, <3>1 DEF AnyOf
  <2> QED
    BY <1>1, <2>1, <2>2 DEF AnyOf, AllBut
<1>9. AnyOf(s) = AllBut(s, i) \cup {s[i]}
  BY <1>1, <1>3 DEF AnyOf, AllBut
<1>10. Alone(s) => Alone(t)
  BY <1>1, <1>4, <1>5, <1>7 DEF Alone
<1>11. Alone(s) /\ Handles(s[i]) => \A c \in AllBut(s, i) : ~ Handles(c)
  BY DEF Alone, AllBut
<1> QED
  BY <1>2, <1>8, <1>9, <1>10, <1>11 DEF t

(* What is on its way is what each request has on its way.                  *)
LEMMA OfBoth ==
  /\ \A S, T : ListsOf(S \cup T) = ListsOf(S) \cup ListsOf(T)
  /\ \A S, T : SumsOf(S \cup T) = SumsOf(S) \cup SumsOf(T)
  /\ \A S, T : DoneOf(S \cup T) = DoneOf(S) \cup DoneOf(T)
  /\ \A S, T : EditsOf(S \cup T) = EditsOf(S) \cup EditsOf(T)
<1>1. \A S, T : ListsOf(S \cup T) = ListsOf(S) \cup ListsOf(T)
  BY DEF ListsOf
<1>2. \A S, T : SumsOf(S \cup T) = SumsOf(S) \cup SumsOf(T)
  BY DEF SumsOf
<1>3. \A S, T : DoneOf(S \cup T) = DoneOf(S) \cup DoneOf(T)
  BY DEF DoneOf
<1>4. \A S, T : EditsOf(S \cup T) = EditsOf(S) \cup EditsOf(T)
  BY DEF EditsOf
<1> QED
  BY <1>1, <1>2, <1>3, <1>4

LEMMA OfOne ==
  ASSUME NEW c
  PROVE  /\ ListsOf({c}) = IF c.what = "list" THEN {[tenant |-> c.tenant, seen |-> c.rows]} ELSE {}
         /\ SumsOf({c}) = IF Sums(c) THEN {[tenant |-> c.tenant, seen |-> c.sums]} ELSE {}
         /\ DoneOf({c}) = IF Written(c)
                          THEN {[what |-> c.what, project |-> c.project, wrote |-> c.rows]} ELSE {}
         /\ EditsOf({c}) = IF c.what = "edit" THEN {c.project} ELSE {}
<1>1. ListsOf({c}) = IF c.what = "list" THEN {[tenant |-> c.tenant, seen |-> c.rows]} ELSE {}
  BY DEF ListsOf
<1>2. SumsOf({c}) = IF Sums(c) THEN {[tenant |-> c.tenant, seen |-> c.sums]} ELSE {}
  BY DEF SumsOf
<1>3. DoneOf({c}) = IF Written(c)
                    THEN {[what |-> c.what, project |-> c.project, wrote |-> c.rows]} ELSE {}
  BY DEF DoneOf
<1>4. EditsOf({c}) = IF c.what = "edit" THEN {c.project} ELSE {}
  BY DEF EditsOf
<1> QED
  BY <1>1, <1>2, <1>3, <1>4

-----------------------------------------------------------------------------
(* What a step does to what is on its way *)

LEMMA SameTable ==
  ASSUME UNCHANGED table
  PROVE  /\ \A view, p : Sees(view, p)' <=> Sees(view, p)
         /\ \A t : Cards!RowsOf(t)' = Cards!RowsOf(t)
BY DEF Sees, Cards!RowsOf, Cards!Live

(* Nothing is answered, and the page is where it was.                       *)
LEMMA NothingComes ==
  ASSUME ViewsInv, UNCHANGED <<table, writes>>,
         Lists' = Lists, Summaries' = Summaries, Done' = Done, Known' \subseteq Known,
         DOMAIN screen'.rows = DOMAIN screen.rows, screen'.rows = screen.rows,
         screen'.rowsAt = screen.rowsAt, screen'.sums = screen.sums,
         screen'.listed = screen.listed, screen'.tenant = screen.tenant, Fine' <=> Fine
  PROVE  ViewsInv'
<1>1. Hopeful' <=> Hopeful
  BY DEF Hopeful, ReadYet
<1>2. /\ \A view, p : Sees(view, p)' <=> Sees(view, p)
      /\ \A t : Cards!RowsOf(t)' = Cards!RowsOf(t)
  BY SameTable
<1>3. ViewsOK' /\ DoneOK' /\ Grown'
  BY <1>2 DEF ViewsInv, ViewsOK, View, ReadYet, DoneOK, Grown
<1>4. AfterWrites'
  BY <1>2 DEF ViewsInv, AfterWrites, Last, ReadYet
<1>5. KnownOK' /\ Kept'
  BY <1>1 DEF ViewsInv, KnownOK, Kept, ReadYet
<1>6. ScreenOK'
  BY DEF ViewsInv, ScreenOK
<1>7. ListsTell' /\ RowsTell'
  BY <1>1, <1>2 DEF ViewsInv, ListsTell, RowsTell, LatestOf, Unchanging, Last, ReadYet, Shows, NoneOf
<1>8. SumsTell' /\ SummaryTells'
  BY <1>1, <1>2 DEF ViewsInv, SumsTell, SummaryTells, LatestOf, NoneMade, ReadYet, Shows, NoneOf
<1> QED
  BY <1>3, <1>4, <1>5, <1>6, <1>7, <1>8 DEF ViewsInv

(* A request fails: nothing is promised any more.                           *)
LEMMA SomethingFails ==
  ASSUME ViewsInv, UNCHANGED <<table, writes>>,
         Lists' \subseteq Lists, Summaries' \subseteq Summaries, Done' \subseteq Done,
         Known' \subseteq Known, screen'.rowsAt = screen.rowsAt, screen'.sums = screen.sums,
         "failed" \in slips'
  PROVE  ViewsInv'
<1>1. ~ Fine' /\ ~ Hopeful'
  BY DEF Hopeful, Fine
<1>2. /\ \A view, p : Sees(view, p)' <=> Sees(view, p)
      /\ \A t : Cards!RowsOf(t)' = Cards!RowsOf(t)
  BY SameTable
<1>3. ViewsOK' /\ DoneOK' /\ Grown'
  BY <1>2 DEF ViewsInv, ViewsOK, View, ReadYet, DoneOK, Grown
<1>4. AfterWrites'
  BY <1>2 DEF ViewsInv, AfterWrites, Last, ReadYet
<1>5. KnownOK' /\ ScreenOK'
  BY <1>1 DEF ViewsInv, KnownOK, ScreenOK
<1>6. Kept' /\ ListsTell' /\ RowsTell' /\ SumsTell' /\ SummaryTells'
  BY <1>1 DEF Kept, ListsTell, RowsTell, SumsTell, SummaryTells
<1> QED
  BY <1>3, <1>4, <1>5, <1>6 DEF ViewsInv

(* The page has moved to another tenant, whose list it has asked for.       *)
LEMMA ListIsAskedFor ==
  ASSUME ViewsInv, UNCHANGED <<table, writes>>,
         NEW t \in Tenants, NEW l, l.tenant = t, l.seen = Cards!Unread,
         Lists' = Lists \cup {l}, Summaries' = Summaries \cup {l}, Done' \subseteq Done,
         \A w \in Done \ Done' : w.what = "create" /\ TenantOf[w.project] = t,
         screen'.tenant \in {screen.tenant, t},
         Known' \subseteq Known,
         screen'.rows = screen.rows, screen'.rowsAt = screen.rowsAt, screen'.sums = screen.sums,
         screen'.listed = screen.listed, Fine' <=> Fine
  PROVE  ViewsInv'
<1>1. Hopeful' <=> Hopeful
  BY DEF Hopeful, ReadYet
<1>2. /\ \A view, p : Sees(view, p)' <=> Sees(view, p)
      /\ \A u : Cards!RowsOf(u)' = Cards!RowsOf(u)
  BY SameTable
<1>3. \A m : ReadYet(m)' <=> ReadYet(m)
  BY DEF ReadYet
<1>4. ~ ReadYet(l)
  BY DEF ReadYet
<1>5. ViewsOK'
  BY <1>2, <1>4 DEF ViewsInv, ViewsOK, View, ReadYet
<1>6. DoneOK' /\ Grown'
  BY <1>2, <1>4 DEF ViewsInv, DoneOK, Grown, ReadYet
<1>7. AfterWrites'
  BY <1>2, <1>4 DEF ViewsInv, AfterWrites, Last, ReadYet
<1>8. KnownOK' /\ Kept'
  BY <1>1, <1>4 DEF ViewsInv, KnownOK, Kept, ReadYet
<1>9. ScreenOK'
  BY DEF ViewsInv, ScreenOK
<1>10. ListsTell'
  <2> SUFFICES ASSUME Hopeful', NEW m \in Lists', ReadYet(m), LatestOf(Lists', m),
                      NEW p \in Projects, TenantOf[p] = m.tenant, Unchanging(p)'
               PROVE  Sees(m.seen.is, p)
    BY <1>2, <1>3 DEF ListsTell, LatestOf, ReadYet
  <2>1. m \in Lists /\ m.tenant # t
    BY <1>4 DEF LatestOf
  <2>2. LatestOf(Lists, m)
    BY DEF LatestOf
  <2>3. Unchanging(p)
    BY <2>1 DEF Unchanging, Last
  <2> QED
    BY <1>1, <2>1, <2>2, <2>3 DEF ViewsInv, ListsTell
<1>11. RowsTell'
  <2> SUFFICES ASSUME Hopeful', NEW p \in Projects, Shows(TenantOf[p])',
                      NoneOf(Lists', TenantOf[p]), Unchanging(p)'
               PROVE  Sees(screen.rows, p)
    BY <1>2 DEF RowsTell, NoneOf
  <2>1. TenantOf[p] # t
    BY DEF NoneOf
  <2>2. Shows(TenantOf[p]) /\ NoneOf(Lists, TenantOf[p])
    BY <2>1 DEF Shows, NoneOf
  <2>3. Unchanging(p)
    BY <2>1 DEF Unchanging, Last
  <2> QED
    BY <1>1, <2>2, <2>3 DEF ViewsInv, RowsTell
<1>12. SumsTell'
  <2> SUFFICES ASSUME Hopeful', NEW s \in Summaries', ReadYet(s), LatestOf(Summaries', s),
                      NoneMade(s.tenant)'
               PROVE  s.seen.is = Cards!RowsOf(s.tenant)
    BY <1>2, <1>3 DEF SumsTell, LatestOf, ReadYet
  <2>1. s \in Summaries /\ s.tenant # t
    BY <1>4 DEF LatestOf
  <2>2. LatestOf(Summaries, s)
    BY DEF LatestOf
  <2>3. NoneMade(s.tenant)
    BY <2>1 DEF NoneMade
  <2> QED
    BY <1>1, <2>1, <2>2, <2>3 DEF ViewsInv, SumsTell
<1>13. SummaryTells'
  <2> SUFFICES ASSUME Hopeful', NEW u \in Tenants, Shows(u)', NoneOf(Summaries', u), NoneMade(u)'
               PROVE  screen.sums.is = Cards!RowsOf(u)
    BY <1>2 DEF SummaryTells, NoneOf
  <2>1. u # t
    BY DEF NoneOf
  <2>2. Shows(u) /\ NoneOf(Summaries, u) /\ NoneMade(u)
    BY <2>1 DEF Shows, NoneOf, NoneMade
  <2> QED
    BY <1>1, <2>2 DEF ViewsInv, SummaryTells
<1> QED
  BY <1>5, <1>6, <1>7, <1>8, <1>9, <1>10, <1>11, <1>12, <1>13 DEF ViewsInv

(* The service has written a project.                                       *)
LEMMA SomethingIsWritten ==
  ASSUME ViewsInv, NEW p \in Projects, NEW what \in {"create", "edit", "delete"}, NEW value, NEW w,
         what = "create" => table[p] = 0 /\ value = 1,
         what = "edit" => table[p] > 0 /\ value = table[p] + 1 /\ \A d \in Done : d.what # "edit",
         what = "delete" => table[p] > 0 /\ value = -1,
         table' = [table EXCEPT ![p] = value], writes' = writes + 1,
         w.what = what, w.project = p, w.wrote.at = writes + 1, w.wrote.is = value,
         Done' = Done \cup {w}, Lists' = Lists,
         NEW s, s.tenant = TenantOf[p], s.tenant \in Tenants, s.seen = Cards!Unread,
         Summaries \subseteq Summaries', Summaries' \subseteq Summaries \cup {s},
         what # "create" => s \in Summaries',
         UNCHANGED screen, Known' \subseteq Known, Fine' <=> Fine
  PROVE  ViewsInv'
<1>1. Hopeful' <=> Hopeful
  BY DEF Hopeful, ReadYet
<1>2. /\ \A l : ReadYet(l)' <=> ReadYet(l)
      /\ ~ ReadYet(s)
  BY DEF ReadYet
<1>3. /\ table \in [Projects -> Nat \cup {-1}] /\ writes \in Nat
      /\ table' \in [Projects -> Nat \cup {-1}] /\ writes' \in Nat
      /\ table'[p] = value /\ value # 0 /\ value # table[p] /\ table[p] # -1
      /\ \A q \in Projects \ {p} : table'[q] = table[q]
  BY DEF ViewsInv
<1>4. \A view : \A q \in Projects \ {p} : Sees(view, q)' <=> Sees(view, q)
  BY <1>3 DEF Sees, Cards!Live
<1>5. \A t : t # TenantOf[p] => Cards!RowsOf(t)' = Cards!RowsOf(t)
  BY <1>3 DEF Cards!RowsOf, Cards!Live
<1>6. \A q \in Projects : table[q] = -1 => table'[q] = -1
  BY <1>3
<1>7. \A q \in Projects : table[q] # 0 => table'[q] # 0
  BY <1>3
<1>8. ViewsOK'
  <2> SUFFICES ASSUME NEW l \in Lists' \cup Summaries'
               PROVE  l.tenant \in Tenants /\ (ReadYet(l) => View(l.seen, l.tenant)')
    BY <1>2 DEF ViewsOK
  <2>1. CASE l = s
    BY <1>2, <2>1
  <2>2. CASE l \in Lists \cup Summaries
    <3>1. l.tenant \in Tenants /\ (ReadYet(l) => View(l.seen, l.tenant))
      BY <2>2 DEF ViewsInv, ViewsOK
    <3>2. View(l.seen, l.tenant) => View(l.seen, l.tenant)'
      BY <1>3, <1>7 DEF View
    <3> QED
      BY <3>1, <3>2
  <2> QED
    BY <2>1, <2>2
<1>9. DoneOK'
  <2> SUFFICES ASSUME NEW d \in Done'
               PROVE  /\ d.project \in Projects /\ d.what \in {"create", "edit", "delete"}
                      /\ d.wrote.at \in 0 .. writes' /\ table'[d.project] # 0
                      /\ d.what = "delete" => table'[d.project] = -1
                      /\ d.what = "edit" => d.wrote.is = table'[d.project] \/ table'[d.project] = -1
    BY DEF DoneOK
  <2>1. CASE d = w
    BY <1>3, <2>1
  <2>2. CASE d \in Done
    <3>1. /\ d.project \in Projects /\ d.what \in {"create", "edit", "delete"}
          /\ d.wrote.at \in 0 .. writes /\ table[d.project] # 0
          /\ d.what = "delete" => table[d.project] = -1
          /\ d.what = "edit" => d.wrote.is = table[d.project] \/ table[d.project] = -1
      BY <2>2 DEF ViewsInv, DoneOK
    <3>2. CASE d.project = p
      BY <1>3, <2>2, <3>1, <3>2
    <3>3. CASE d.project # p
      BY <1>3, <3>1, <3>3
    <3> QED
      BY <3>2, <3>3
  <2> QED
    BY <2>1, <2>2
<1>10. Grown'
  <2>1. \A l \in Lists : ReadYet(l) => \A q \in DOMAIN l.seen.is : q \in Projects
    BY DEF ViewsInv, ViewsOK, View
  <2> QED
    BY <1>2, <1>6, <2>1 DEF ViewsInv, Grown
<1>11. AfterWrites'
  <2> SUFFICES ASSUME NEW d \in Done', d.what # "create", Last(d)',
                      NEW l \in Lists, l.tenant = TenantOf[d.project], ReadYet(l),
                      d.wrote.at <= l.seen.at
               PROVE  Sees(l.seen.is, d.project)'
    BY <1>2 DEF AfterWrites
  <2>1. CASE d = w
    <3>1. l.seen.at \in 0 .. writes
      BY DEF ViewsInv, ViewsOK, View
    <3> QED
      BY <1>3, <2>1, <3>1
  <2>2. CASE d \in Done
    <3>1. /\ d.project \in Projects /\ d.what \in {"edit", "delete"} /\ table[d.project] # 0
          /\ d.what = "delete" => table[d.project] = -1
      BY <2>2 DEF ViewsInv, DoneOK
    <3>2. d.project # p
      BY <1>3, <2>2, <3>1 DEF Last
    <3>3. Last(d)
      BY <1>3, <3>1, <3>2 DEF Last
    <3>4. Sees(l.seen.is, d.project)
      BY <2>2, <3>3 DEF ViewsInv, AfterWrites
    <3> QED
      BY <1>4, <3>1, <3>2, <3>4
  <2> QED
    BY <2>1, <2>2
<1>12. KnownOK' /\ Kept'
  <2>1. \A q \in Known : q \in Projects
    BY DEF ViewsInv, KnownOK
  <2>2. KnownOK'
    BY <1>7 DEF ViewsInv, KnownOK
  <2>3. Kept'
    BY <1>1, <1>2, <1>6, <2>1 DEF ViewsInv, Kept
  <2> QED
    BY <2>2, <2>3
<1>13. ScreenOK'
  BY <1>3 DEF ViewsInv, ScreenOK
<1>14. \A q \in Projects : Unchanging(q)' => q # p /\ Unchanging(q)
  <2> SUFFICES ASSUME NEW q \in Projects, Unchanging(q)'
               PROVE  q # p /\ Unchanging(q)
    OBVIOUS
  <2>1. q # p
    BY <1>3 DEF Unchanging, Last
  <2> QED
    BY <1>3, <2>1 DEF Unchanging, Last
<1>15. ListsTell'
  <2> SUFFICES ASSUME Hopeful, NEW l \in Lists, ReadYet(l), LatestOf(Lists, l),
                      NEW q \in Projects, TenantOf[q] = l.tenant, Unchanging(q)'
               PROVE  Sees(l.seen.is, q)'
    BY <1>1, <1>2 DEF ListsTell, LatestOf
  <2> QED
    BY <1>4, <1>14 DEF ViewsInv, ListsTell
<1>16. RowsTell'
  <2> SUFFICES ASSUME Hopeful, NEW q \in Projects, Shows(TenantOf[q]),
                      NoneOf(Lists, TenantOf[q]), Unchanging(q)'
               PROVE  Sees(screen.rows, q)'
    BY <1>1 DEF RowsTell, Shows, NoneOf
  <2> QED
    BY <1>4, <1>14 DEF ViewsInv, RowsTell
<1>17. \A t : NoneMade(t)' => NoneMade(t) /\ (what = "create" => t # TenantOf[p])
  BY DEF NoneMade
<1>18. SumsTell'
  <2> SUFFICES ASSUME Hopeful, NEW l \in Summaries', ReadYet(l), LatestOf(Summaries', l),
                      NoneMade(l.tenant)'
               PROVE  l.seen.is = Cards!RowsOf(l.tenant)'
    BY <1>1, <1>2 DEF SumsTell, LatestOf
  <2>1. l \in Summaries /\ LatestOf(Summaries, l)
    BY <1>2 DEF LatestOf
  <2>2. l.tenant # TenantOf[p]
    BY <1>2, <1>17 DEF LatestOf
  <2> QED
    BY <1>5, <1>17, <2>1, <2>2 DEF ViewsInv, SumsTell
<1>19. SummaryTells'
  <2> SUFFICES ASSUME Hopeful, NEW t \in Tenants, Shows(t), NoneOf(Summaries', t), NoneMade(t)'
               PROVE  screen.sums.is = Cards!RowsOf(t)'
    BY <1>1 DEF SummaryTells, Shows, NoneOf
  <2>1. t # TenantOf[p] /\ NoneOf(Summaries, t)
    BY <1>17 DEF NoneOf
  <2> QED
    BY <1>5, <1>17, <2>1 DEF ViewsInv, SummaryTells
<1> QED
  BY <1>3, <1>8, <1>9, <1>10, <1>11, <1>12, <1>13, <1>15, <1>16, <1>18, <1>19 DEF ViewsInv

(* What is there now is what a list read now has.                           *)
LEMMA ReadNow ==
  ASSUME ViewsInv, NEW t
  PROVE  /\ View(Cards!Read(t), t) /\ Cards!Read(t).at = writes /\ Cards!Read(t) # Cards!Unread
         /\ Cards!Read(t).is = Cards!RowsOf(t)
         /\ \A p \in Projects : TenantOf[p] = t => Sees(Cards!RowsOf(t), p)
         /\ \A p \in Projects : TenantOf[p] = t /\ table[p] # 0 =>
              p \in DOMAIN Cards!RowsOf(t) \/ table[p] = -1
<1>1. table \in [Projects -> Nat \cup {-1}] /\ writes \in Nat
  BY DEF ViewsInv
<1>2. Cards!Read(t).at = writes /\ Cards!Read(t).is = Cards!RowsOf(t)
  BY DEF Cards!Read
<1>3. Cards!Read(t) # Cards!Unread
  BY <1>1, <1>2 DEF Cards!Unread
<1>4. DOMAIN Cards!RowsOf(t) = {q \in Projects : table[q] > 0 /\ TenantOf[q] = t}
  BY DEF Cards!RowsOf, Cards!Live
<1>5. \A q \in DOMAIN Cards!RowsOf(t) : Cards!RowsOf(t)[q] = table[q]
  BY DEF Cards!RowsOf
<1>6. View(Cards!Read(t), t)
  BY <1>1, <1>2, <1>4 DEF View
<1>7. \A p \in Projects : TenantOf[p] = t => Sees(Cards!RowsOf(t), p)
  BY <1>4, <1>5 DEF Sees, Cards!Live
<1>8. \A p \in Projects : TenantOf[p] = t /\ table[p] # 0 =>
        p \in DOMAIN Cards!RowsOf(t) \/ table[p] = -1
  BY <1>1, <1>4
<1> QED
  BY <1>2, <1>3, <1>6, <1>7, <1>8

(* A list reads its rows.                                                   *)
LEMMA RowsAreRead ==
  ASSUME ViewsInv, UNCHANGED <<table, writes, screen>>, Fine' <=> Fine, Known' \subseteq Known,
         NEW t \in Tenants, NEW l, l.tenant = t, l.seen = Cards!Read(t),
         Lists' \subseteq Lists \cup {l}, l \in Lists',
         \A m \in Lists \ Lists' : m.tenant = t /\ ~ ReadYet(m),
         Summaries' = Summaries, Done' = Done
  PROVE  ViewsInv'
<1>1. /\ \A view, p : Sees(view, p)' <=> Sees(view, p)
      /\ \A u : Cards!RowsOf(u)' = Cards!RowsOf(u)
  BY SameTable
<1>2. /\ View(l.seen, t) /\ l.seen.at = writes /\ ReadYet(l) /\ l.seen.is = Cards!RowsOf(t)
      /\ \A p \in Projects : TenantOf[p] = t => Sees(l.seen.is, p)
      /\ \A p \in Projects : TenantOf[p] = t /\ table[p] # 0 => p \in DOMAIN l.seen.is \/ table[p] = -1
  BY ReadNow DEF ReadYet
<1>3. /\ \A m : ReadYet(m)' <=> ReadYet(m)
      /\ writes \in Nat
      /\ \A m \in Lists : ReadYet(m) =>
           /\ m.seen.at \in 0 .. writes
           /\ m.seen.at = writes => m.seen.is = Cards!RowsOf(m.tenant)
           /\ \A p \in DOMAIN m.seen.is : p \in Projects /\ TenantOf[p] = m.tenant /\ table[p] # 0
  BY DEF ViewsInv, ViewsOK, View, ReadYet
<1>4. Hopeful' => Hopeful
  BY <1>3 DEF Hopeful
<1>5. ViewsOK'
  BY <1>1, <1>2, <1>3 DEF ViewsInv, ViewsOK, View
<1>6. DoneOK' /\ KnownOK' /\ ScreenOK'
  BY DEF ViewsInv, DoneOK, KnownOK, ScreenOK
<1>7. Grown'
  <2> SUFFICES ASSUME NEW k \in Lists', NEW m \in Lists', k.tenant = m.tenant,
                      ReadYet(k), ReadYet(m), k.seen.at <= m.seen.at, NEW p \in DOMAIN k.seen.is
               PROVE  p \in DOMAIN m.seen.is \/ table[p] = -1
    BY <1>3 DEF Grown
  <2>1. p \in Projects /\ TenantOf[p] = k.tenant /\ table[p] # 0
    BY <1>2, <1>3 DEF View
  <2>2. CASE m = l
    BY <1>2, <2>1, <2>2
  <2>3. CASE m # l /\ k = l
    BY <1>2, <1>3, <2>1, <2>3
  <2>4. CASE m # l /\ k # l
    BY <2>4 DEF ViewsInv, Grown
  <2> QED
    BY <2>2, <2>3, <2>4
<1>8. AfterWrites'
  <2>1. \A d \in Done : d.project \in Projects
    BY DEF ViewsInv, DoneOK
  <2> QED
    BY <1>1, <1>2, <1>3, <2>1 DEF ViewsInv, AfterWrites, Last
<1>9. Kept'
  <2> SUFFICES ASSUME Hopeful', NEW p \in Known
               PROVE  /\ screen.listed = TenantOf[p] => p \in DOMAIN screen.rows \/ table[p] = -1
                      /\ \A m \in Lists' : m.tenant = TenantOf[p] /\ ReadYet(m) =>
                           p \in DOMAIN m.seen.is \/ table[p] = -1
    BY <1>3 DEF Kept
  <2>1. p \in Projects /\ table[p] # 0
    BY DEF ViewsInv, KnownOK
  <2> QED
    BY <1>2, <1>4, <2>1 DEF ViewsInv, Kept
<1>10. ListsTell'
  <2> SUFFICES ASSUME Hopeful', NEW m \in Lists', ReadYet(m), LatestOf(Lists', m),
                      NEW p \in Projects, TenantOf[p] = m.tenant, Unchanging(p)
               PROVE  Sees(m.seen.is, p)
    BY <1>1, <1>3 DEF ListsTell, LatestOf, Unchanging, Last
  <2>1. CASE m.tenant = t
    <3>1. m = l \/ m.seen.at = writes
      BY <1>2, <1>3, <2>1 DEF LatestOf
    <3> QED
      BY <1>2, <1>3, <2>1, <3>1
  <2>2. CASE m.tenant # t
    <3>1. m \in Lists /\ LatestOf(Lists, m)
      BY <2>2 DEF LatestOf
    <3> QED
      BY <1>4, <3>1 DEF ViewsInv, ListsTell
  <2> QED
    BY <2>1, <2>2
<1>11. RowsTell'
  <2> SUFFICES ASSUME Hopeful', NEW p \in Projects, Shows(TenantOf[p]),
                      NoneOf(Lists', TenantOf[p]), Unchanging(p)
               PROVE  Sees(screen.rows, p)
    BY <1>1 DEF RowsTell, NoneOf, Shows, Unchanging, Last
  <2>1. NoneOf(Lists, TenantOf[p])
    BY DEF NoneOf
  <2> QED
    BY <1>4, <2>1 DEF ViewsInv, RowsTell
<1>12. SumsTell' /\ SummaryTells'
  BY <1>1, <1>3, <1>4 DEF ViewsInv, SumsTell, SummaryTells, LatestOf, NoneMade, Shows, NoneOf
<1> QED
  BY <1>5, <1>6, <1>7, <1>8, <1>9, <1>10, <1>11, <1>12 DEF ViewsInv

(* Summaries are read, by a list or by the answer of a write.               *)
LEMMA SumsAreRead ==
  ASSUME ViewsInv, UNCHANGED <<table, writes, screen>>, Fine' <=> Fine, Known' \subseteq Known,
         NEW t \in Tenants, NEW s, s.tenant = t, s.seen = Cards!Read(t),
         Summaries' \subseteq Summaries \cup {s}, s \in Summaries',
         \A m \in Summaries \ Summaries' : m.tenant = t /\ ~ ReadYet(m),
         Lists' = Lists, Done' = Done
  PROVE  ViewsInv'
<1>1. /\ \A view, p : Sees(view, p)' <=> Sees(view, p)
      /\ \A u : Cards!RowsOf(u)' = Cards!RowsOf(u)
  BY SameTable
<1>2. View(s.seen, t) /\ s.seen.at = writes /\ ReadYet(s) /\ s.seen.is = Cards!RowsOf(t)
  BY ReadNow DEF ReadYet
<1>3. /\ \A m : ReadYet(m)' <=> ReadYet(m)
      /\ writes \in Nat
      /\ \A m \in Summaries : ReadYet(m) =>
           /\ m.seen.at \in 0 .. writes
           /\ m.seen.at = writes => m.seen.is = Cards!RowsOf(m.tenant)
  BY DEF ViewsInv, ViewsOK, View, ReadYet
<1>4. Hopeful' => Hopeful
  BY <1>3 DEF Hopeful
<1>5. ViewsOK'
  BY <1>1, <1>2, <1>3 DEF ViewsInv, ViewsOK, View
<1>6. DoneOK' /\ KnownOK' /\ ScreenOK' /\ Grown'
  BY <1>3 DEF ViewsInv, DoneOK, KnownOK, ScreenOK, Grown
<1>7. AfterWrites'
  BY <1>1, <1>3 DEF ViewsInv, AfterWrites, Last
<1>8. Kept'
  BY <1>3, <1>4 DEF ViewsInv, Kept
<1>9. ListsTell' /\ RowsTell'
  BY <1>1, <1>3, <1>4 DEF ViewsInv, ListsTell, RowsTell, LatestOf, Unchanging, Last, Shows, NoneOf
<1>10. SumsTell'
  <2> SUFFICES ASSUME Hopeful', NEW m \in Summaries', ReadYet(m), LatestOf(Summaries', m),
                      NoneMade(m.tenant)
               PROVE  m.seen.is = Cards!RowsOf(m.tenant)
    BY <1>1, <1>3 DEF SumsTell, LatestOf, NoneMade
  <2>1. CASE m.tenant = t
    <3>1. m = s \/ m.seen.at = writes
      BY <1>2, <1>3, <2>1 DEF LatestOf
    <3> QED
      BY <1>2, <1>3, <2>1, <3>1
  <2>2. CASE m.tenant # t
    <3>1. m \in Summaries /\ LatestOf(Summaries, m)
      BY <2>2 DEF LatestOf
    <3> QED
      BY <1>4, <3>1 DEF ViewsInv, SumsTell
  <2> QED
    BY <2>1, <2>2
<1>11. SummaryTells'
  <2> SUFFICES ASSUME Hopeful', NEW u \in Tenants, Shows(u), NoneOf(Summaries', u), NoneMade(u)
               PROVE  screen.sums.is = Cards!RowsOf(u)
    BY <1>1 DEF SummaryTells, NoneOf, Shows, NoneMade
  <2>1. NoneOf(Summaries, u)
    BY DEF NoneOf
  <2> QED
    BY <1>4, <2>1 DEF ViewsInv, SummaryTells
<1> QED
  BY <1>5, <1>6, <1>7, <1>8, <1>9, <1>10, <1>11 DEF ViewsInv

(* A list is shown, with its summaries.                                     *)
LEMMA ListIsShown ==
  ASSUME ViewsInv, UNCHANGED <<table, writes>>,
         NEW l \in Lists, NEW s \in Summaries, ReadYet(l), ReadYet(s), s.tenant = l.tenant,
         Lists' \subseteq Lists, \A m \in Lists \ Lists' : m = l,
         Summaries' \subseteq Summaries, \A m \in Summaries \ Summaries' : m = s,
         Done' = Done, Known' \subseteq Known \cup DOMAIN l.seen.is,
         screen'.rows = l.seen.is, screen'.rowsAt = l.seen.at, screen'.sums = s.seen,
         screen'.listed = l.tenant, screen'.tenant = screen.tenant,
         Fine' => /\ Fine /\ screen.rowsAt <= l.seen.at /\ screen.sums.at <= s.seen.at
                  /\ l.tenant = screen.tenant \/ screen.listed # screen.tenant
  PROVE  ViewsInv'
<1> DEFINE t == l.tenant
<1>1. /\ \A view, p : Sees(view, p)' <=> Sees(view, p)
      /\ \A u : Cards!RowsOf(u)' = Cards!RowsOf(u)
  BY SameTable
<1>2. /\ \A m : ReadYet(m)' <=> ReadYet(m)
      /\ writes \in Nat /\ screen.rowsAt \in Int /\ screen.sums.at \in Int
      /\ \A m \in Lists \cup Summaries : ReadYet(m) => m.seen.at \in 0 .. writes
      /\ \A p \in DOMAIN l.seen.is : p \in Projects /\ TenantOf[p] = t /\ table[p] # 0
  BY DEF ViewsInv, ViewsOK, View, ReadYet, ScreenOK
<1>3. ASSUME Hopeful'
      PROVE  /\ Hopeful
             /\ \A m \in Lists : ReadYet(m) => l.seen.at <= m.seen.at
             /\ \A m \in Summaries : ReadYet(m) => s.seen.at <= m.seen.at
  <2>1. /\ \A m \in Lists' : ReadYet(m) => l.seen.at <= m.seen.at
        /\ \A m \in Summaries' : ReadYet(m) => s.seen.at <= m.seen.at
        /\ Fine'
    BY <1>2, <1>3 DEF Hopeful
  <2>2. /\ \A m \in Lists : ReadYet(m) => l.seen.at <= m.seen.at
        /\ \A m \in Summaries : ReadYet(m) => s.seen.at <= m.seen.at
    BY <1>2, <2>1
  <2> QED
    BY <1>2, <2>1, <2>2 DEF Hopeful
<1>4. ViewsOK' /\ DoneOK' /\ Grown'
  BY <1>1, <1>2 DEF ViewsInv, ViewsOK, View, DoneOK, Grown
<1>5. AfterWrites'
  BY <1>1, <1>2 DEF ViewsInv, AfterWrites, Last
<1>6. KnownOK'
  BY <1>2 DEF ViewsInv, KnownOK
<1>7. Kept'
  <2> SUFFICES ASSUME Hopeful', NEW p \in Known'
               PROVE  /\ t = TenantOf[p] => p \in DOMAIN l.seen.is \/ table[p] = -1
                      /\ \A m \in Lists' : m.tenant = TenantOf[p] /\ ReadYet(m) =>
                           p \in DOMAIN m.seen.is \/ table[p] = -1
    BY <1>2 DEF Kept
  <2>1. CASE p \in Known
    BY <1>3, <2>1 DEF ViewsInv, Kept
  <2>2. CASE p \in DOMAIN l.seen.is
    BY <1>2, <1>3, <2>2 DEF ViewsInv, Grown
  <2> QED
    BY <2>1, <2>2
<1>8. ScreenOK'
  BY <1>2 DEF ScreenOK
<1>9. ListsTell'
  <2> SUFFICES ASSUME Hopeful', NEW m \in Lists', ReadYet(m), LatestOf(Lists', m),
                      NEW p \in Projects, TenantOf[p] = m.tenant, Unchanging(p)
               PROVE  Sees(m.seen.is, p)
    BY <1>1, <1>2 DEF ListsTell, LatestOf, Unchanging, Last
  <2>1. LatestOf(Lists, m)
    BY <1>3 DEF LatestOf
  <2> QED
    BY <1>3, <2>1 DEF ViewsInv, ListsTell
<1>10. RowsTell'
  <2> SUFFICES ASSUME Hopeful', NEW p \in Projects, Shows(TenantOf[p])',
                      NoneOf(Lists', TenantOf[p]), Unchanging(p)
               PROVE  Sees(l.seen.is, p)
    BY <1>1 DEF RowsTell, NoneOf, Unchanging, Last
  <2>1. TenantOf[p] = t
    BY DEF Shows
  <2>2. LatestOf(Lists, l)
    BY <1>2, <2>1 DEF LatestOf, NoneOf
  <2> QED
    BY <1>3, <2>1, <2>2 DEF ViewsInv, ListsTell
<1>11. SumsTell'
  <2> SUFFICES ASSUME Hopeful', NEW m \in Summaries', ReadYet(m), LatestOf(Summaries', m),
                      NoneMade(m.tenant)
               PROVE  m.seen.is = Cards!RowsOf(m.tenant)
    BY <1>1, <1>2 DEF SumsTell, LatestOf, NoneMade
  <2>1. LatestOf(Summaries, m)
    BY <1>3 DEF LatestOf
  <2> QED
    BY <1>3, <2>1 DEF ViewsInv, SumsTell
<1>12. SummaryTells'
  <2> SUFFICES ASSUME Hopeful', NEW u \in Tenants, Shows(u)', NoneOf(Summaries', u), NoneMade(u)
               PROVE  s.seen.is = Cards!RowsOf(u)
    BY <1>1 DEF SummaryTells, NoneOf, NoneMade
  <2>1. u = t
    BY DEF Shows
  <2>2. LatestOf(Summaries, s)
    BY <1>2, <2>1 DEF LatestOf, NoneOf
  <2> QED
    BY <1>3, <2>1, <2>2 DEF ViewsInv, SumsTell
<1> QED
  BY <1>4, <1>5, <1>6, <1>7, <1>8, <1>9, <1>10, <1>11, <1>12 DEF ViewsInv

(* The answer of an edit or of a deletion is put into what is shown.        *)
LEMMA AnswerIsShown ==
  ASSUME ViewsInv, UNCHANGED <<table, writes>>,
         NEW w \in Done, w.what \in {"edit", "delete"}, w.what = "edit" => w.project \in Known,
         NEW s \in Summaries, ReadYet(s), s.tenant = TenantOf[w.project],
         Lists' = Lists, Done' \subseteq Done, \A d \in Done \ Done' : d = w,
         Summaries' \subseteq Summaries, \A m \in Summaries \ Summaries' : m = s,
         Known' \subseteq Known,
         DOMAIN screen'.rows =
           IF w.what = "delete" THEN DOMAIN screen.rows \ {w.project} ELSE DOMAIN screen.rows,
         \A p \in DOMAIN screen'.rows :
           screen'.rows[p] = IF p = w.project THEN w.wrote.is ELSE screen.rows[p],
         screen'.rowsAt = IF screen.rowsAt > w.wrote.at THEN screen.rowsAt ELSE w.wrote.at,
         screen'.sums = s.seen,
         screen'.listed = screen.listed, screen'.tenant = screen.tenant,
         Fine' => /\ Fine /\ screen.sums.at <= s.seen.at
                  /\ s.tenant = screen.tenant \/ screen.listed # screen.tenant
  PROVE  ViewsInv'
<1> DEFINE p == w.project
<1>1. /\ \A view, q : Sees(view, q)' <=> Sees(view, q)
      /\ \A u : Cards!RowsOf(u)' = Cards!RowsOf(u)
  BY SameTable
<1>2. /\ \A m : ReadYet(m)' <=> ReadYet(m)
      /\ writes \in Nat /\ screen.rowsAt \in Int /\ screen.sums.at \in Int
      /\ \A m \in Lists \cup Summaries : ReadYet(m) => m.seen.at \in 0 .. writes
      /\ p \in Projects /\ w.wrote.at \in 0 .. writes /\ table \in [Projects -> Nat \cup {-1}]
      /\ table[p] # 0 /\ (w.what = "delete" => table[p] = -1)
      /\ w.what = "edit" => w.wrote.is = table[p] \/ table[p] = -1
  BY DEF ViewsInv, ViewsOK, View, ReadYet, ScreenOK, DoneOK
<1>3. ASSUME Hopeful'
      PROVE  /\ Hopeful
             /\ \A m \in Lists : ReadYet(m) => w.wrote.at <= m.seen.at
             /\ \A m \in Summaries : ReadYet(m) => s.seen.at <= m.seen.at
  <2>1. /\ \A m \in Lists : ReadYet(m) => screen'.rowsAt <= m.seen.at
        /\ \A m \in Summaries' : ReadYet(m) => s.seen.at <= m.seen.at
        /\ Fine'
    BY <1>2, <1>3 DEF Hopeful
  <2>2. \A m \in Summaries : ReadYet(m) => s.seen.at <= m.seen.at
    BY <1>2, <2>1
  <2>3. w.wrote.at <= screen'.rowsAt /\ screen.rowsAt <= screen'.rowsAt /\ screen'.rowsAt \in Int
    BY <1>2
  <2> QED
    BY <1>2, <2>1, <2>2, <2>3 DEF Hopeful
<1>4. ViewsOK' /\ DoneOK' /\ Grown'
  BY <1>1, <1>2 DEF ViewsInv, ViewsOK, View, DoneOK, Grown
<1>5. AfterWrites'
  BY <1>1, <1>2 DEF ViewsInv, AfterWrites, Last
<1>6. KnownOK'
  BY DEF ViewsInv, KnownOK
<1>7. Kept'
  <2> SUFFICES ASSUME Hopeful', NEW q \in Known
               PROVE  /\ screen.listed = TenantOf[q] => q \in DOMAIN screen'.rows \/ table[q] = -1
                      /\ \A m \in Lists : m.tenant = TenantOf[q] /\ ReadYet(m) =>
                           q \in DOMAIN m.seen.is \/ table[q] = -1
    BY <1>2 DEF Kept
  <2> QED
    BY <1>2, <1>3 DEF ViewsInv, Kept
<1>8. ScreenOK'
  <2>1. screen'.rowsAt \in Int /\ screen'.rowsAt <= writes
    BY <1>2 DEF ViewsInv, ScreenOK
  <2> QED
    BY <1>2, <2>1 DEF ViewsInv, ScreenOK
<1>9. ASSUME NEW q \in Projects, Unchanging(q)'
      PROVE  Unchanging(q) \/ (q = p /\ Last(w))
  BY <1>9 DEF Unchanging, Last
<1>10. ListsTell'
  <2> SUFFICES ASSUME Hopeful', NEW m \in Lists, ReadYet(m), LatestOf(Lists, m),
                      NEW q \in Projects, TenantOf[q] = m.tenant, Unchanging(q)'
               PROVE  Sees(m.seen.is, q)
    BY <1>1, <1>2 DEF ListsTell, LatestOf
  <2>1. CASE Unchanging(q)
    BY <1>3, <2>1 DEF ViewsInv, ListsTell
  <2>2. CASE q = p /\ Last(w)
    BY <1>3, <2>2 DEF ViewsInv, AfterWrites
  <2> QED
    BY <1>9, <2>1, <2>2
<1>11. RowsTell'
  <2> SUFFICES ASSUME Hopeful', NEW q \in Projects, Shows(TenantOf[q]),
                      NoneOf(Lists, TenantOf[q]), Unchanging(q)'
               PROVE  Sees(screen'.rows, q)
    BY <1>1 DEF RowsTell, NoneOf, Shows
  <2>1. CASE q # p
    <3>1. Sees(screen.rows, q)
      BY <1>3, <1>9, <2>1 DEF ViewsInv, RowsTell
    <3> QED
      BY <2>1, <3>1 DEF Sees
  <2>2. CASE q = p /\ w.what = "delete"
    BY <1>2, <2>2 DEF Sees, Cards!Live
  <2>3. CASE q = p /\ w.what = "edit" /\ table[p] # -1
    <3>1. q \in DOMAIN screen.rows
      BY <1>3, <2>3 DEF ViewsInv, Kept, Shows
    <3> QED
      BY <1>2, <2>3, <3>1 DEF Sees, Cards!Live
  <2>4. CASE q = p /\ w.what = "edit" /\ table[p] = -1
    <3>1. Unchanging(q)
      BY <1>9, <2>4 DEF Last
    <3>2. Sees(screen.rows, q)
      BY <1>3, <3>1 DEF ViewsInv, RowsTell
    <3> QED
      BY <2>4, <3>2 DEF Sees, Cards!Live
  <2> QED
    BY <2>1, <2>2, <2>3, <2>4
<1>12. \A u : NoneMade(u)' => NoneMade(u)
  BY DEF NoneMade
<1>13. SumsTell'
  <2> SUFFICES ASSUME Hopeful', NEW m \in Summaries', ReadYet(m), LatestOf(Summaries', m),
                      NoneMade(m.tenant)'
               PROVE  m.seen.is = Cards!RowsOf(m.tenant)
    BY <1>1, <1>2 DEF SumsTell, LatestOf
  <2>1. LatestOf(Summaries, m)
    BY <1>3 DEF LatestOf
  <2> QED
    BY <1>3, <1>12, <2>1 DEF ViewsInv, SumsTell
<1>14. SummaryTells'
  <2> SUFFICES ASSUME Hopeful', NEW u \in Tenants, Shows(u), NoneOf(Summaries', u), NoneMade(u)'
               PROVE  s.seen.is = Cards!RowsOf(u)
    BY <1>1 DEF SummaryTells, NoneOf, Shows
  <2>1. u = s.tenant
    BY DEF Shows, Hopeful
  <2>2. LatestOf(Summaries, s)
    BY <1>2, <2>1 DEF LatestOf, NoneOf
  <2> QED
    BY <1>3, <1>12, <2>1, <2>2 DEF ViewsInv, SumsTell
<1> QED
  BY <1>2, <1>4, <1>5, <1>6, <1>7, <1>8, <1>10, <1>11, <1>13, <1>14 DEF ViewsInv

-----------------------------------------------------------------------------
(* What a handler does to the requests in flight *)

LEMMA OneIsSent ==
  ASSUME CardsInv, NEW c, asks' = Append(asks, c),
         Handles(c) => \A d \in Flying : ~ Handles(d)
  PROVE  /\ asks' \in Seq(Flying') /\ Alone(asks') /\ Flying' = Flying \cup {c}
         /\ Lists' = Lists \cup ListsOf({c}) /\ Summaries' = Summaries \cup SumsOf({c})
         /\ Done' = Done \cup DoneOf({c})
         /\ EditsOf(Flying)' = EditsOf(Flying) \cup EditsOf({c})
<1>1. asks \in Seq(AnyOf(asks)) /\ Alone(asks)
  BY DEF CardsInv, Flying
<1>2. asks' \in Seq(AnyOf(asks')) /\ AnyOf(asks') = AnyOf(asks) \cup {c} /\ Alone(asks')
  BY <1>1, OneMore DEF Flying
<1>3. Flying' = AnyOf(asks') /\ Flying = AnyOf(asks)
  BY DEF Flying, AnyOf
<1>4. Lists' = ListsOf(Flying') /\ Summaries' = SumsOf(Flying') /\ Done' = DoneOf(Flying')
      /\ EditsOf(Flying)' = EditsOf(Flying')
  BY DEF Lists, Summaries, Done, ListsOf, SumsOf, DoneOf, EditsOf
<1> QED
  BY <1>2, <1>3, <1>4, OfBoth DEF Lists, Summaries, Done

LEMMA OneTurns ==
  ASSUME CardsInv, NEW i \in DOMAIN asks, NEW new,
         \/ new = {} /\ asks' = Cards!Without(i) \o <<>>
         \/ \E d : /\ new = {d} /\ (Handles(d) => Handles(asks[i]))
                   /\ \/ asks' = [asks EXCEPT ![i] = d]
                      \/ asks' = Append(Cards!Without(i), d)
                      \/ asks' = Cards!Without(i) \o <<d>>
  PROVE  LET rest == AllBut(asks, i)
         IN  /\ asks' \in Seq(Flying') /\ Alone(asks')
             /\ Flying = rest \cup {asks[i]} /\ Flying' = rest \cup new
             /\ Handles(asks[i]) => \A c \in rest : ~ Handles(c)
             /\ Lists = ListsOf(rest) \cup ListsOf({asks[i]})
             /\ Lists' = ListsOf(rest) \cup ListsOf(new)
             /\ Summaries = SumsOf(rest) \cup SumsOf({asks[i]})
             /\ Summaries' = SumsOf(rest) \cup SumsOf(new)
             /\ Done = DoneOf(rest) \cup DoneOf({asks[i]})
             /\ Done' = DoneOf(rest) \cup DoneOf(new)
             /\ EditsOf(Flying) = EditsOf(rest) \cup EditsOf({asks[i]})
             /\ EditsOf(Flying)' = EditsOf(rest) \cup EditsOf(new)
<1> DEFINE rest == AllBut(asks, i)
           less == TakeOut(asks, i)
<1>1. asks \in Seq(AnyOf(asks)) /\ Alone(asks) /\ Cards!Without(i) = less
  BY DEF CardsInv, Flying, Cards!Without, TakeOut
<1>2. /\ less \in Seq(AnyOf(less)) /\ AnyOf(less) = rest /\ Alone(less) /\ less \o <<>> = less
      /\ AnyOf(asks) = rest \cup {asks[i]}
      /\ Handles(asks[i]) => \A c \in rest : ~ Handles(c)
  BY <1>1, OneLess
<1>3. /\ asks' \in Seq(AnyOf(asks')) /\ Alone(asks')
      /\ AnyOf(asks') = rest \cup new
  <2>1. CASE new = {} /\ asks' = Cards!Without(i) \o <<>>
    <3>1. asks' = less
      BY <1>1, <1>2, <2>1
    <3> HIDE DEF less
    <3> QED
      BY <1>2, <2>1, <3>1
  <2>2. ASSUME NEW d, new = {d}, Handles(d) => Handles(asks[i]), asks' = [asks EXCEPT ![i] = d]
        PROVE  <1>3
    <3>1. PICK t : t = [asks EXCEPT ![i] = d]
      OBVIOUS
    <3>2. Handles(d) => Handles(asks[i])
      BY <2>2
    <3>3. /\ t \in [DOMAIN asks -> AnyOf(asks) \cup {d}] /\ t[i] = d
          /\ \A k \in DOMAIN asks \ {i} : t[k] = asks[k]
      BY <3>1 DEF AnyOf
    <3>4. t \in Seq(AnyOf(t)) /\ AnyOf(t) = AllBut(asks, i) \cup {d} /\ Alone(t)
      BY ONLY <1>1, <3>2, <3>3, i \in DOMAIN asks, OneChanged
    <3> QED
      BY <2>2, <3>1, <3>4
  <2>3. ASSUME NEW d, new = {d}, Handles(d) => Handles(asks[i]),
               asks' = Append(Cards!Without(i), d) \/ asks' = Cards!Without(i) \o <<d>>
        PROVE  <1>3
    <3> HIDE DEF less
    <3>1. /\ Append(less, d) \in Seq(AnyOf(Append(less, d))) /\ less \o <<d>> = Append(less, d)
          /\ AnyOf(Append(less, d)) = rest \cup {d} /\ Alone(Append(less, d))
      BY <1>2, <2>3, OneMore
    <3> QED
      BY <1>1, <2>3, <3>1
  <2> QED
    BY <2>1, <2>2, <2>3
<1>4. Flying' = AnyOf(asks') /\ Flying = AnyOf(asks)
  BY DEF Flying, AnyOf
<1>5. Lists' = ListsOf(Flying') /\ Summaries' = SumsOf(Flying') /\ Done' = DoneOf(Flying')
      /\ EditsOf(Flying)' = EditsOf(Flying')
  BY DEF Lists, Summaries, Done, ListsOf, SumsOf, DoneOf, EditsOf
<1> HIDE DEF rest, less
<1>6. /\ ListsOf(Flying) = ListsOf(rest) \cup ListsOf({asks[i]})
      /\ ListsOf(Flying') = ListsOf(rest) \cup ListsOf(new)
      /\ SumsOf(Flying) = SumsOf(rest) \cup SumsOf({asks[i]})
      /\ SumsOf(Flying') = SumsOf(rest) \cup SumsOf(new)
      /\ DoneOf(Flying) = DoneOf(rest) \cup DoneOf({asks[i]})
      /\ DoneOf(Flying') = DoneOf(rest) \cup DoneOf(new)
      /\ EditsOf(Flying) = EditsOf(rest) \cup EditsOf({asks[i]})
      /\ EditsOf(Flying') = EditsOf(rest) \cup EditsOf(new)
  BY <1>2, <1>3, <1>4, OfBoth
<1> QED
  BY <1>2, <1>3, <1>4, <1>5, <1>6 DEF rest, Lists, Summaries, Done

(* A request that has not been answered by a write has nothing on its way.  *)
LEMMA NothingOfThem ==
  /\ ListsOf({}) = {} /\ SumsOf({}) = {} /\ DoneOf({}) = {} /\ EditsOf({}) = {}
BY DEF ListsOf, SumsOf, DoneOf, EditsOf

-----------------------------------------------------------------------------
(* The actions *)

SameScreen ==
  /\ DOMAIN screen' = DOMAIN screen
  /\ screen'.rows = screen.rows /\ screen'.rowsAt = screen.rowsAt /\ screen'.sums = screen.sums
  /\ screen'.listed = screen.listed /\ screen'.tenant = screen.tenant

LEMMA SameRequests ==
  ASSUME UNCHANGED table
  PROVE  \A c : RequestOK(c)' <=> RequestOK(c)
BY DEF RequestOK, Refresh, Loads, Asks

LEMMA CardsStart == Cards!ProjectsAssumption /\ Cards!Init => CardsInv
<1> SUFFICES ASSUME Cards!ProjectsAssumption, Cards!Init
             PROVE  CardsInv
  OBVIOUS
<1> DEFINE c == Cards!Call("context", Home, NoProject)
<1>1. /\ asks = <<c>> /\ RequestOK(c) /\ Refresh(c) /\ ~ Handles(c)
      /\ c.what = "context" /\ ~ Sums(c) /\ ~ Written(c)
  BY DEF Cards!Init, Cards!ProjectsAssumption, Cards!Call, RequestOK, Refresh, Fields, Handles,
         Sums, Written
<1> HIDE DEF c
<1>2. /\ asks \in Seq({c}) /\ DOMAIN asks = {1} /\ asks[1] = c
  BY <1>1
<1>3. Flying = {c} /\ asks \in Seq(Flying)
  BY <1>2 DEF Flying, AnyOf
<1>4. Alone(asks)
  BY <1>2 DEF Alone
<1>5. Lists = {} /\ Summaries = {} /\ Done = {} /\ EditsOf(Flying) = {}
  BY <1>1, <1>3, OfOne DEF Lists, Summaries, Done
<1>6. /\ table \in [Projects -> Nat \cup {-1}] /\ writes = 0 /\ Cards!Init
      /\ screen.tenant = NoTenant /\ screen.listed = NoTenant /\ screen.rows = << >>
      /\ screen.rowsAt = -1 /\ screen.sums.at = -1 /\ screen.dialog.mode = "closed"
  BY DEF Cards!Init, Cards!Unread, Cards!Closed
<1>7. DOMAIN screen.rows = {} /\ Known = {}
  <2>1. DOMAIN << >> = {}
    OBVIOUS
  <2> QED
    BY <1>5, <1>6, <2>1 DEF Known
<1>8. NoTenant \notin Tenants
  BY DEF Cards!ProjectsAssumption
<1>9. ViewsOK /\ DoneOK /\ Grown /\ AfterWrites /\ KnownOK /\ Kept /\ ScreenOK
  BY <1>5, <1>6, <1>7 DEF ViewsOK, DoneOK, Grown, AfterWrites, KnownOK, Kept, ScreenOK
<1>10. ListsTell /\ RowsTell /\ SumsTell /\ SummaryTells
  BY <1>5, <1>6, <1>8 DEF ListsTell, RowsTell, SumsTell, SummaryTells, Shows
<1>11. TenantOK
  BY <1>1, <1>3, <1>6, <1>8 DEF TenantOK
<1>12. DOMAIN screen = {"tenant", "waiting", "listed", "loading", "rows", "rowsAt", "sums", "manage",
                        "dialog", "creating", "deleting"}
  BY DEF Cards!Init
<1>13. Mapped(screen.rows)
  BY <1>6, <1>7 DEF Mapped
<1> QED
  BY <1>1, <1>3, <1>4, <1>6, <1>9, <1>10, <1>11, <1>12, <1>13 DEF CardsInv, ViewsInv

(* The dialog opens and closes.                                             *)
LEMMA DialogKeeps ==
  ASSUME CardsInv, SameScreen, UNCHANGED <<table, writes, asks, wanted, slips>>,
         screen'.creating = screen.creating,
         screen'.dialog.mode = "edit" => screen'.dialog.project \in Known
  PROVE  CardsInv'
<1>1. Flying' = Flying /\ Lists' = Lists /\ Summaries' = Summaries /\ Done' = Done
  BY DEF Flying, Lists, Summaries, Done, AnyOf, ListsOf, SumsOf, DoneOf
<1>2. Known' \subseteq Known
  BY <1>1 DEF Known, SameScreen, EditsOf
<1>3. ViewsInv'
  BY <1>1, <1>2, NothingComes DEF CardsInv, SameScreen, Fine
<1>4. TenantOK'
  BY <1>1 DEF CardsInv, TenantOK, SameScreen, NoneOf, Fine
<1> QED
  BY <1>1, <1>3, <1>4, SameRequests DEF CardsInv, SameScreen, Alone, Handles

(* The user asks for something.                                             *)
LEMMA SendKeeps ==
  ASSUME CardsInv, SameScreen, UNCHANGED <<table, writes, slips>>,
         NEW c, asks' = Append(asks, c), RequestOK(c),
         c.what = "context" \/ (Asks(c) /\ c.state = "sent"),
         c.what = "edit" => c.project \in Known,
         Handles(c) => ~ screen.creating /\ screen'.creating,
         screen'.creating = screen.creating \/ screen'.creating,
         screen'.dialog = screen.dialog,
         wanted' = wanted \/ c.what = "context"
  PROVE  CardsInv'
<1>1. Handles(c) => \A d \in Flying : ~ Handles(d)
  BY DEF CardsInv
<1>2. /\ asks' \in Seq(Flying') /\ Alone(asks') /\ Flying' = Flying \cup {c}
      /\ Lists' = Lists \cup ListsOf({c}) /\ Summaries' = Summaries \cup SumsOf({c})
      /\ Done' = Done \cup DoneOf({c}) /\ EditsOf(Flying)' = EditsOf(Flying) \cup EditsOf({c})
  BY <1>1, OneIsSent
<1>3. /\ ListsOf({c}) = {} /\ SumsOf({c}) = {} /\ DoneOf({c}) = {} /\ EditsOf({c}) \subseteq Known
  BY OfOne DEF Asks, Sums, Written
<1>4. Known' \subseteq Known
  BY <1>2, <1>3 DEF Known, SameScreen
<1>5. Lists' = Lists /\ Summaries' = Summaries /\ Done' = Done
  BY <1>2, <1>3
<1>6. ViewsInv'
  BY <1>4, <1>5, NothingComes DEF CardsInv, SameScreen, Fine
<1>7. TenantOK'
  BY <1>2, <1>5 DEF CardsInv, TenantOK, SameScreen, NoneOf, Fine
<1>8. \A d \in Flying' : RequestOK(d)'
  BY <1>2, SameRequests DEF CardsInv
<1>9. (\E d \in Flying' : Handles(d)) => screen'.creating
  BY <1>2 DEF CardsInv
<1>10. \A d : Handles(d)' <=> Handles(d)
  BY DEF Handles
<1> QED
  BY <1>2, <1>6, <1>7, <1>8, <1>9, <1>10 DEF CardsInv, SameScreen, Alone

LEMMA UserKeeps ==
  ASSUME CardsInv, NEW p,
         \/ Cards!Switch \/ Cards!OpenCreate \/ Cards!Close \/ Cards!Submit
         \/ p \in Projects /\ (Cards!OpenEdit(p) \/ Cards!Delete(p))
  PROVE  CardsInv'
<1> DEFINE All == {"tenant", "waiting", "listed", "loading", "rows", "rowsAt", "sums", "manage",
                   "dialog", "creating", "deleting"}
<1>1. DOMAIN screen = All
  BY DEF CardsInv
<1>2. CASE Cards!Switch
  <2>1. PICK tenant \in Tenants : asks' = Append(asks, Cards!Call("context", tenant, NoProject))
    BY <1>2 DEF Cards!Switch
  <2> DEFINE c == Cards!Call("context", tenant, NoProject)
  <2>2. RequestOK(c) /\ c.what = "context" /\ ~ Handles(c)
    BY DEF Cards!Call, RequestOK, Refresh, Fields, Handles
  <2>3. /\ SameScreen /\ UNCHANGED <<table, writes, slips>> /\ screen'.creating = screen.creating
        /\ screen'.dialog = screen.dialog
    BY <1>1, <1>2 DEF Cards!Switch, SameScreen
  <2> HIDE DEF c
  <2>4. asks' = Append(asks, c)
    BY <2>1 DEF c
  <2> QED
    BY <2>2, <2>3, <2>4, SendKeeps
<1>3. CASE Cards!OpenCreate \/ Cards!Close
  <2>1. /\ SameScreen /\ UNCHANGED <<table, writes, asks, wanted, slips>>
        /\ screen'.creating = screen.creating
    BY <1>1, <1>3 DEF Cards!OpenCreate, Cards!Close, SameScreen
  <2>2. screen'.dialog.mode # "edit"
    BY <1>1, <1>3 DEF Cards!OpenCreate, Cards!Close, Cards!Making, Cards!Closed
  <2> QED
    BY <2>1, <2>2, DialogKeeps
<1>4. CASE p \in Projects /\ Cards!OpenEdit(p)
  <2>1. /\ SameScreen /\ UNCHANGED <<table, writes, asks, wanted, slips>>
        /\ screen'.creating = screen.creating /\ p \in DOMAIN screen.rows
        /\ screen'.dialog.project = p
    BY <1>1, <1>4 DEF Cards!OpenEdit, Cards!Shown, SameScreen, Cards!Editing
  <2> QED
    BY <2>1, DialogKeeps DEF Known
<1>5. CASE p \in Projects /\ Cards!Delete(p)
  <2> DEFINE c == Cards!Call("delete", screen.tenant, p)
  <2>1. RequestOK(c) /\ c.what = "delete" /\ Asks(c) /\ c.state = "sent" /\ ~ Handles(c)
    BY <1>5 DEF Cards!Call, RequestOK, Asks, Fields, Handles
  <2>2. /\ SameScreen /\ UNCHANGED <<table, writes, wanted, slips>>
        /\ screen'.creating = screen.creating /\ screen'.dialog = screen.dialog
        /\ asks' = Append(asks, c)
    BY <1>1, <1>5 DEF Cards!Delete, SameScreen
  <2> HIDE DEF c
  <2> QED
    BY <2>1, <2>2, SendKeeps
<1>6. CASE Cards!Submit
  <2>1. /\ SameScreen /\ UNCHANGED <<table, writes, wanted, slips>>
        /\ screen'.creating /\ screen'.dialog = screen.dialog /\ ~ screen.creating
    BY <1>1, <1>6 DEF Cards!Submit, SameScreen
  <2>2. CASE screen.dialog.mode = "edit"
    <3> DEFINE c == Cards!Call("edit", screen.tenant, screen.dialog.project)
    <3>1. screen.dialog.project \in Known /\ screen.dialog.project \in Projects
      BY <2>2 DEF Known, CardsInv, ViewsInv, KnownOK
    <3>2. RequestOK(c) /\ c.what = "edit" /\ Asks(c) /\ c.state = "sent" /\ c.project \in Known
      BY <3>1 DEF Cards!Call, RequestOK, Asks, Fields
    <3>3. asks' = Append(asks, c)
      BY <1>6, <2>2 DEF Cards!Submit
    <3> HIDE DEF c
    <3> QED
      BY <2>1, <3>2, <3>3, SendKeeps
  <2>3. CASE screen.dialog.mode # "edit"
    <3>1. PICK q \in Projects :
            /\ table[q] = 0 /\ TenantOf[q] = screen.tenant
            /\ asks' = Append(asks, Cards!Call("create", screen.tenant, q))
      BY <1>6, <2>3 DEF Cards!Submit
    <3> DEFINE c == Cards!Call("create", screen.tenant, q)
    <3>2. RequestOK(c) /\ c.what = "create" /\ Asks(c) /\ c.state = "sent"
      BY <3>1 DEF Cards!Call, RequestOK, Asks, Fields
    <3>3. asks' = Append(asks, c)
      BY <3>1
    <3> HIDE DEF c
    <3> QED
      BY <2>1, <3>2, <3>3, SendKeeps
  <2> QED
    BY <2>2, <2>3
<1> QED
  BY <1>2, <1>3, <1>4, <1>5, <1>6

(* A request on its way to the service has nothing on its way back.         *)
LEMMA WriteKeeps ==
  ASSUME Cards!ProjectsAssumption, CardsInv, NEW i \in DOMAIN asks, Cards!Write(i)
  PROVE  CardsInv'
<1> DEFINE c == asks[i]
           p == c.project
           rest == AllBut(asks, i)
           allowed == c.tenant \in Managed
                      /\ (c.what = "create" \/ (Cards!Live(p) /\ TenantOf[p] = c.tenant))
<1>1. /\ c.what \in {"create", "edit", "delete"} /\ c.state = "sent"
      /\ UNCHANGED <<screen, acts, wanted, slips>>
  BY DEF Cards!Write
<1>2. c \in Flying /\ RequestOK(c)
  BY DEF CardsInv, Flying, AnyOf
<1>3. Asks(c) /\ DOMAIN c = Fields /\ ~ Written(c) /\ ~ Sums(c) /\ c.sums = Cards!Unread
  BY <1>1, <1>2 DEF RequestOK, Refresh, Loads, Asks, Written, Sums
<1>4. ListsOf({c}) = {} /\ SumsOf({c}) = {} /\ DoneOf({c}) = {}
  BY <1>1, <1>3, OfOne
<1>5. (TenantOf[p] = c.tenant /\ p \in Projects /\ c.tenant \in Tenants) \/ ~ allowed
  BY <1>1, <1>3 DEF Asks, Cards!ProjectsAssumption
<1>6. CASE allowed
  <2> DEFINE value == CASE c.what = "create" -> 1
                        [] c.what = "edit" -> table[p] + 1
                        [] OTHER -> -1
             d == [c EXCEPT !.state = "written", !.rows = [at |-> writes + 1, is |-> value]]
             w == [what |-> d.what, project |-> d.project, wrote |-> d.rows]
             s == [tenant |-> d.tenant, seen |-> d.sums]
  <2>1. p \in Projects /\ TenantOf[p] = c.tenant /\ c.tenant \in Tenants /\ DOMAIN table = Projects
    BY <1>5, <1>6 DEF CardsInv, ViewsInv
  <2>2. table' = [table EXCEPT ![p] = value] /\ writes' = writes + 1
    BY <1>6 DEF Cards!Write
  <2>3. asks' = [asks EXCEPT ![i] = d]
    <3>1. table'[p] = value
      BY <2>1, <2>2
    <3>2. asks' = [asks EXCEPT ![i].state = "written",
                               ![i].rows = [at |-> writes + 1, is |-> table'[p]]]
      BY <1>6 DEF Cards!Write
    <3> QED
      BY <3>1, <3>2
  <2>4. /\ d.what = c.what /\ d.project = p /\ d.tenant = c.tenant /\ d.sums = Cards!Unread
        /\ d.then = c.then /\ d.state = "written" /\ d.rows.at = writes + 1 /\ d.rows.is = value
        /\ DOMAIN d = Fields
    BY <1>3 DEF Fields
  <2> HIDE DEF d
  <2>5. Written(d) /\ (Handles(d) => Handles(c))
    BY <1>1, <2>4 DEF Written, Handles
  <2>6. /\ asks' \in Seq(Flying') /\ Alone(asks')
        /\ Flying = rest \cup {c} /\ Flying' = rest \cup {d}
        /\ Handles(c) => \A e \in rest : ~ Handles(e)
        /\ Lists = ListsOf(rest) \cup ListsOf({c}) /\ Lists' = ListsOf(rest) \cup ListsOf({d})
        /\ Summaries = SumsOf(rest) \cup SumsOf({c}) /\ Summaries' = SumsOf(rest) \cup SumsOf({d})
        /\ Done = DoneOf(rest) \cup DoneOf({c}) /\ Done' = DoneOf(rest) \cup DoneOf({d})
        /\ EditsOf(Flying) = EditsOf(rest) \cup EditsOf({c})
        /\ EditsOf(Flying)' = EditsOf(rest) \cup EditsOf({d})
    BY <2>3, <2>5, OneTurns
  <2>7. /\ ListsOf({d}) = {} /\ SumsOf({d}) = (IF c.what = "create" THEN {} ELSE {s})
        /\ DoneOf({d}) = {w} /\ EditsOf({d}) = EditsOf({c})
    BY <1>1, <2>4, <2>5, OfOne DEF Sums
  <2>8. c.what = "edit" => \A e \in Done : e.what # "edit"
    BY <1>4, <2>6 DEF DoneOf, Handles
  <2>9. /\ c.what = "create" => table[p] = 0 /\ value = 1
        /\ c.what = "edit" => table[p] > 0 /\ value = table[p] + 1
        /\ c.what = "delete" => table[p] > 0 /\ value = -1
    BY <1>1, <1>3, <1>6 DEF Asks, Cards!Live
  <2>10. ViewsInv'
    <3> HIDE DEF value
    <3>1. /\ w.what = c.what /\ w.project = p /\ w.wrote.at = writes + 1 /\ w.wrote.is = value
          /\ s.tenant = TenantOf[p] /\ s.tenant \in Tenants /\ s.seen = Cards!Unread
      BY <2>1, <2>4
    <3>2. /\ Done' = Done \cup {w} /\ Lists' = Lists
          /\ Summaries \subseteq Summaries' /\ Summaries' \subseteq Summaries \cup {s}
          /\ c.what # "create" => s \in Summaries'
          /\ EditsOf(Flying)' = EditsOf(Flying)
      BY <1>4, <2>6, <2>7
    <3>3. Known' \subseteq Known /\ (Fine' <=> Fine)
      BY <1>1, <3>2 DEF Known, Fine
    <3>4. ViewsInv
      BY DEF CardsInv
    <3> HIDE DEF w, s, c
    <3> QED
      BY <1>1, <2>1, <2>2, <2>8, <2>9, <3>1, <3>2, <3>3, <3>4, SomethingIsWritten
  <2>11. ASSUME NEW e \in Flying'
         PROVE  RequestOK(e)'
    <3>1. CASE e = d
      BY <1>1, <1>3, <2>1, <2>4, <3>1 DEF RequestOK, Asks
    <3>2. CASE e \in rest
      <4>1. RequestOK(e) /\ (c.what = "create" => ~ Handles(e))
        BY <2>6, <3>2 DEF CardsInv, Handles
      <4>2. e.what = "create" /\ e.state = "sent" /\ Asks(e) => table'[e.project] = 0
        BY <1>1, <2>1, <2>2, <2>9, <4>1 DEF Asks, Handles
      <4> QED
        BY <4>1, <4>2 DEF RequestOK, Refresh, Loads, Asks
    <3> QED
      BY <2>6, <3>1, <3>2
  <2>12. TenantOK'
    BY <1>1, <1>4, <2>4, <2>6, <2>7 DEF CardsInv, TenantOK, NoneOf, Fine
  <2>13. (\E e \in Flying' : Handles(e)) => screen'.creating
    BY <1>1, <2>5, <2>6 DEF CardsInv
  <2> QED
    BY <1>1, <2>6, <2>10, <2>11, <2>12, <2>13 DEF CardsInv, Alone, Handles
<1>7. CASE ~ allowed
  <2> DEFINE d == [c EXCEPT !.state = "refused"]
  <2>1. asks' = [asks EXCEPT ![i] = d] /\ UNCHANGED <<table, writes>>
    BY <1>7 DEF Cards!Write, Cards!Step
  <2>2. /\ d.what = c.what /\ d.project = p /\ d.tenant = c.tenant /\ d.sums = Cards!Unread
        /\ d.then = c.then /\ d.state = "refused" /\ DOMAIN d = Fields
    BY <1>3 DEF Fields
  <2> HIDE DEF d
  <2>3. ~ Written(d) /\ ~ Sums(d) /\ (Handles(d) => Handles(c))
    BY <1>1, <2>2 DEF Written, Handles, Sums
  <2>4. /\ asks' \in Seq(Flying') /\ Alone(asks')
        /\ Flying = rest \cup {c} /\ Flying' = rest \cup {d}
        /\ Lists = ListsOf(rest) \cup ListsOf({c}) /\ Lists' = ListsOf(rest) \cup ListsOf({d})
        /\ Summaries = SumsOf(rest) \cup SumsOf({c}) /\ Summaries' = SumsOf(rest) \cup SumsOf({d})
        /\ Done = DoneOf(rest) \cup DoneOf({c}) /\ Done' = DoneOf(rest) \cup DoneOf({d})
        /\ EditsOf(Flying) = EditsOf(rest) \cup EditsOf({c})
        /\ EditsOf(Flying)' = EditsOf(rest) \cup EditsOf({d})
    BY <2>1, <2>3, OneTurns
  <2>5. /\ ListsOf({d}) = {} /\ SumsOf({d}) = {} /\ DoneOf({d}) = {} /\ EditsOf({d}) = EditsOf({c})
    BY <1>1, <2>2, <2>3, OfOne
  <2>6. Lists' = Lists /\ Summaries' = Summaries /\ Done' = Done /\ Known' \subseteq Known
    BY <1>1, <1>4, <2>4, <2>5 DEF Known
  <2>7. ViewsInv'
    BY <1>1, <2>1, <2>6, NothingComes DEF CardsInv, Fine
  <2>8. \A e \in Flying' : RequestOK(e)'
    <3>1. RequestOK(d)
      BY <1>1, <1>3, <2>2 DEF RequestOK, Asks
    <3> QED
      BY <2>1, <2>4, <3>1, SameRequests DEF CardsInv
  <2>9. TenantOK'
    BY <1>1, <2>2, <2>4, <2>6 DEF CardsInv, TenantOK, NoneOf, Fine
  <2>10. (\E e \in Flying' : Handles(e)) => screen'.creating
    BY <1>1, <2>3, <2>4 DEF CardsInv
  <2> QED
    BY <1>1, <2>4, <2>7, <2>8, <2>9, <2>10 DEF CardsInv, Alone, Handles
<1> QED
  BY <1>6, <1>7

(* A list reads its rows, or it or the answer of a write its summaries.     *)
LEMMA ReadsKeep ==
  ASSUME CardsInv, NEW i \in DOMAIN asks, Cards!ReadRows(i) \/ Cards!ReadSums(i)
  PROVE  CardsInv'
<1> DEFINE c == asks[i]
           rest == AllBut(asks, i)
<1>1. UNCHANGED <<table, writes, screen, wanted, slips>>
  BY DEF Cards!ReadRows, Cards!ReadSums
<1>2. c \in Flying /\ RequestOK(c) /\ DOMAIN c = Fields
  BY DEF CardsInv, Flying, AnyOf, RequestOK
<1>3. CASE Cards!ReadRows(i)
  <2> DEFINE d == [c EXCEPT !.rows = Cards!Read(c.tenant)]
             l == [tenant |-> d.tenant, seen |-> d.rows]
             u == [tenant |-> c.tenant, seen |-> Cards!Unread]
  <2>1. asks' = [asks EXCEPT ![i] = d] /\ c.what = "list" /\ c.rows = Cards!Unread
    BY <1>3 DEF Cards!ReadRows
  <2>2. /\ d.what = c.what /\ d.project = c.project /\ d.tenant = c.tenant /\ d.sums = c.sums
        /\ d.then = c.then /\ d.state = c.state /\ DOMAIN d = Fields /\ d.rows = Cards!Read(c.tenant)
    BY <1>2 DEF Fields
  <2> HIDE DEF d
  <2>3. ~ Written(d) /\ ~ Written(c) /\ (Handles(d) <=> Handles(c)) /\ Sums(c) /\ Sums(d)
    BY <2>1, <2>2 DEF Written, Handles, Sums
  <2>4. /\ asks' \in Seq(Flying') /\ Alone(asks')
        /\ Flying = rest \cup {c} /\ Flying' = rest \cup {d}
        /\ Lists = ListsOf(rest) \cup ListsOf({c}) /\ Lists' = ListsOf(rest) \cup ListsOf({d})
        /\ Summaries = SumsOf(rest) \cup SumsOf({c}) /\ Summaries' = SumsOf(rest) \cup SumsOf({d})
        /\ Done = DoneOf(rest) \cup DoneOf({c}) /\ Done' = DoneOf(rest) \cup DoneOf({d})
        /\ EditsOf(Flying) = EditsOf(rest) \cup EditsOf({c})
        /\ EditsOf(Flying)' = EditsOf(rest) \cup EditsOf({d})
    BY <2>1, <2>3, OneTurns
  <2>5. /\ ListsOf({c}) = {[tenant |-> c.tenant, seen |-> Cards!Unread]} /\ ListsOf({d}) = {l}
        /\ SumsOf({d}) = SumsOf({c}) /\ DoneOf({d}) = {} /\ DoneOf({c}) = {}
        /\ EditsOf({d}) = EditsOf({c})
    BY <2>1, <2>2, <2>3, OfOne
  <2>6. Summaries' = Summaries /\ Done' = Done /\ Known' \subseteq Known /\ (Fine' <=> Fine)
    BY <1>1, <2>4, <2>5 DEF Known, Fine
  <2>7. /\ Lists' \subseteq Lists \cup {l} /\ l \in Lists'
        /\ \A m \in Lists \ Lists' : m.tenant = c.tenant /\ ~ ReadYet(m)
    <3>1. Lists' = ListsOf(rest) \cup {l} /\ Lists = ListsOf(rest) \cup {u}
      BY <2>4, <2>5
    <3>2. u.tenant = c.tenant /\ ~ ReadYet(u)
      BY DEF ReadYet
    <3> HIDE DEF l, u, c, rest
    <3> QED
      BY <3>1, <3>2
  <2>8. l.tenant = c.tenant /\ l.seen = Cards!Read(c.tenant) /\ c.tenant \in Tenants
    <3>1. u \in Lists /\ u.tenant = c.tenant
      BY <2>4, <2>5
    <3>2. ViewsOK
      BY DEF CardsInv, ViewsInv
    <3> QED
      BY <2>2, <3>1, <3>2 DEF ViewsOK
  <2>9. ViewsInv'
    <3>1. ViewsInv
      BY DEF CardsInv
    <3> HIDE DEF c, l
    <3> QED
      BY <1>1, <2>6, <2>7, <2>8, <3>1, RowsAreRead
  <2>10. \A e \in Flying' : RequestOK(e)'
    <3>1. RequestOK(d)
      <4>1. Mapped(d.rows.is)
        <5>1. d.rows.is = Cards!RowsOf(c.tenant)
          BY <2>2 DEF Cards!Read
        <5> QED
          BY <5>1 DEF Mapped, Cards!RowsOf
      <4> QED
        BY <1>2, <2>1, <2>2, <4>1 DEF RequestOK, Asks, Refresh, Loads
    <3> QED
      BY <1>1, <2>4, <3>1, SameRequests DEF CardsInv
  <2>11. TenantOK'
    <3>1. (\E e \in Flying : e.what = "context") => \E e \in Flying' : e.what = "context"
      BY <2>1, <2>4
    <3>2. \A t : NoneOf(Lists', t) => NoneOf(Lists, t)
      <4> SUFFICES ASSUME NEW t, NoneOf(Lists', t), NEW m \in Lists
                   PROVE  m.tenant # t
        BY DEF NoneOf
      <4> HIDE DEF c, l
      <4> QED
        BY <2>7, <2>8 DEF NoneOf
    <3>3. TenantOK
      BY DEF CardsInv
    <3> HIDE DEF c, l
    <3> QED
      BY <1>1, <2>6, <3>1, <3>2, <3>3 DEF TenantOK, NoneOf
  <2>12. (\E e \in Flying' : Handles(e)) => screen'.creating
    BY <1>1, <2>3, <2>4 DEF CardsInv
  <2> QED
    BY <1>1, <2>4, <2>9, <2>10, <2>11, <2>12 DEF CardsInv, Alone, Handles
<1>4. CASE Cards!ReadSums(i)
  <2> DEFINE d == [c EXCEPT !.sums = Cards!Read(c.tenant)]
             s == [tenant |-> d.tenant, seen |-> d.sums]
             u == [tenant |-> c.tenant, seen |-> Cards!Unread]
  <2>1. /\ asks' = [asks EXCEPT ![i] = d] /\ c.sums = Cards!Unread
        /\ c.what = "list" \/ (c.what \in {"edit", "delete"} /\ c.state = "written")
    <3>1. asks' = [asks EXCEPT ![i].sums = Cards!Read(asks[i].tenant)]
      BY <1>4 DEF Cards!ReadSums
    <3>2. c.sums = Cards!Unread
      BY <1>4 DEF Cards!ReadSums
    <3>3. c.what = "list" \/ (c.what \in {"edit", "delete"} /\ c.state = "written")
      BY <1>4 DEF Cards!ReadSums
    <3> QED
      BY <3>1, <3>2, <3>3
  <2>2. /\ d.what = c.what /\ d.project = c.project /\ d.tenant = c.tenant /\ d.rows = c.rows
        /\ d.then = c.then /\ d.state = c.state /\ DOMAIN d = Fields /\ d.sums = Cards!Read(c.tenant)
    BY <1>2 DEF Fields
  <2> HIDE DEF d
  <2>3. (Written(d) <=> Written(c)) /\ (Handles(d) <=> Handles(c)) /\ Sums(c) /\ Sums(d)
    BY <2>1, <2>2 DEF Written, Handles, Sums
  <2>4. /\ asks' \in Seq(Flying') /\ Alone(asks')
        /\ Flying = rest \cup {c} /\ Flying' = rest \cup {d}
        /\ Lists = ListsOf(rest) \cup ListsOf({c}) /\ Lists' = ListsOf(rest) \cup ListsOf({d})
        /\ Summaries = SumsOf(rest) \cup SumsOf({c}) /\ Summaries' = SumsOf(rest) \cup SumsOf({d})
        /\ Done = DoneOf(rest) \cup DoneOf({c}) /\ Done' = DoneOf(rest) \cup DoneOf({d})
        /\ EditsOf(Flying) = EditsOf(rest) \cup EditsOf({c})
        /\ EditsOf(Flying)' = EditsOf(rest) \cup EditsOf({d})
    BY <2>1, <2>3, OneTurns
  <2>5. /\ SumsOf({c}) = {[tenant |-> c.tenant, seen |-> Cards!Unread]} /\ SumsOf({d}) = {s}
        /\ ListsOf({d}) = ListsOf({c}) /\ DoneOf({d}) = DoneOf({c})
        /\ EditsOf({d}) = EditsOf({c})
    BY <2>1, <2>2, <2>3, OfOne
  <2>6. Lists' = Lists /\ Done' = Done /\ Known' \subseteq Known /\ (Fine' <=> Fine)
    BY <1>1, <2>4, <2>5 DEF Known, Fine
  <2>7. /\ Summaries' \subseteq Summaries \cup {s} /\ s \in Summaries'
        /\ \A m \in Summaries \ Summaries' : m.tenant = c.tenant /\ ~ ReadYet(m)
    <3>1. Summaries' = SumsOf(rest) \cup {s} /\ Summaries = SumsOf(rest) \cup {u}
      BY <2>4, <2>5
    <3>2. u.tenant = c.tenant /\ ~ ReadYet(u)
      BY DEF ReadYet
    <3> HIDE DEF s, u, c, rest
    <3> QED
      BY <3>1, <3>2
  <2>8. s.tenant = c.tenant /\ s.seen = Cards!Read(c.tenant) /\ c.tenant \in Tenants
    <3>1. u \in Summaries /\ u.tenant = c.tenant
      BY <2>4, <2>5
    <3>2. ViewsOK
      BY DEF CardsInv, ViewsInv
    <3> QED
      BY <2>2, <3>1, <3>2 DEF ViewsOK
  <2>9. ViewsInv'
    <3>1. ViewsInv
      BY DEF CardsInv
    <3> HIDE DEF c, s
    <3> QED
      BY <1>1, <2>6, <2>7, <2>8, <3>1, SumsAreRead
  <2>10. \A e \in Flying' : RequestOK(e)'
    <3>1. RequestOK(d)
      BY <1>2, <2>1, <2>2 DEF RequestOK, Asks, Refresh, Loads
    <3> QED
      BY <1>1, <2>4, <3>1, SameRequests DEF CardsInv
  <2>11. TenantOK'
    BY <1>1, <2>1, <2>2, <2>4, <2>6 DEF CardsInv, TenantOK, NoneOf, Fine
  <2>12. (\E e \in Flying' : Handles(e)) => screen'.creating
    BY <1>1, <2>3, <2>4 DEF CardsInv
  <2> QED
    BY <1>1, <2>4, <2>9, <2>10, <2>11, <2>12 DEF CardsInv, Alone, Handles
<1> QED
  BY <1>3, <1>4

(* loadProjects takes up its answer.                                        *)
LEMMA TakeListKeeps ==
  ASSUME CardsInv, NEW i \in DOMAIN asks, Cards!TakeList(i)
  PROVE  CardsInv'
<1> DEFINE c == asks[i]
           rest == AllBut(asks, i)
           l == [tenant |-> c.tenant, seen |-> c.rows]
           s == [tenant |-> c.tenant, seen |-> c.sums]
<1>1. /\ c.what = "list" /\ c.rows # Cards!Unread /\ c.sums # Cards!Unread
      /\ UNCHANGED <<table, writes, wanted>>
      /\ asks' = Cards!Without(i) \o c.then
      /\ slips' = slips \cup Cards!Stray(c) \cup Cards!Late(c)
  BY DEF Cards!TakeList
<1>2. c \in Flying /\ RequestOK(c) /\ DOMAIN c = Fields
  BY DEF CardsInv, Flying, AnyOf, RequestOK
<1>3. /\ DOMAIN screen' = DOMAIN screen
      /\ screen'.rows = c.rows.is /\ screen'.rowsAt = c.rows.at /\ screen'.sums = c.sums
      /\ screen'.listed = c.tenant /\ screen'.tenant = screen.tenant
      /\ screen'.creating = screen.creating /\ screen'.dialog = screen.dialog
  BY DEF Cards!TakeList, CardsInv
<1>4. PICK new : /\ new = {} /\ c.then = <<>>
                 \/ \E r : Refresh(r) /\ r.then = <<"create">> /\ c.then = <<r>> /\ new = {r}
  <2>1. c.then = <<>> \/ \E r : Refresh(r) /\ r.then = <<"create">> /\ c.then = <<r>>
    BY <1>1, <1>2 DEF RequestOK, Refresh, Loads, Asks
  <2> QED
    BY <2>1
<1>5. \A r \in new : /\ RequestOK(r) /\ r.what = "context" /\ ~ Written(r) /\ ~ Sums(r)
                     /\ Handles(c) /\ ListsOf({r}) = {} /\ SumsOf({r}) = {} /\ DoneOf({r}) = {}
                     /\ EditsOf({r}) = {}
  <2> SUFFICES ASSUME NEW r \in new
               PROVE  /\ RequestOK(r) /\ r.what = "context" /\ ~ Written(r) /\ ~ Sums(r)
                      /\ Handles(c)
    BY OfOne
  <2>1. Refresh(r) /\ c.then = <<r>>
    BY <1>4
  <2> QED
    BY <1>1, <2>1 DEF RequestOK, Refresh, Written, Sums, Handles
<1>6. /\ ListsOf(new) = {} /\ SumsOf(new) = {} /\ DoneOf(new) = {} /\ EditsOf(new) = {}
  BY <1>4, <1>5, NothingOfThem
<1>7. /\ asks' \in Seq(Flying') /\ Alone(asks')
      /\ Flying = rest \cup {c} /\ Flying' = rest \cup new
      /\ Lists = ListsOf(rest) \cup ListsOf({c}) /\ Lists' = ListsOf(rest) \cup ListsOf(new)
      /\ Summaries = SumsOf(rest) \cup SumsOf({c}) /\ Summaries' = SumsOf(rest) \cup SumsOf(new)
      /\ Done = DoneOf(rest) \cup DoneOf({c}) /\ Done' = DoneOf(rest) \cup DoneOf(new)
      /\ EditsOf(Flying) = EditsOf(rest) \cup EditsOf({c})
      /\ EditsOf(Flying)' = EditsOf(rest) \cup EditsOf(new)
  <2>1. \/ new = {} /\ asks' = Cards!Without(i) \o <<>>
        \/ \E d : /\ new = {d} /\ (Handles(d) => Handles(asks[i]))
                  /\ asks' = Cards!Without(i) \o <<d>>
    BY <1>1, <1>4, <1>5
  <2>2. CASE new = {} /\ asks' = Cards!Without(i) \o <<>>
    BY <2>2, OneTurns
  <2>3. CASE \E d : /\ new = {d} /\ (Handles(d) => Handles(asks[i]))
                    /\ asks' = Cards!Without(i) \o <<d>>
    <3>1. PICK d : /\ new = {d} /\ (Handles(d) => Handles(asks[i]))
                   /\ asks' = Cards!Without(i) \o <<d>>
      BY <2>3
    <3>2. /\ asks' \in Seq(Flying') /\ Alone(asks')
          /\ Flying = rest \cup {c} /\ Flying' = rest \cup {d}
          /\ Lists = ListsOf(rest) \cup ListsOf({c}) /\ Lists' = ListsOf(rest) \cup ListsOf({d})
          /\ Summaries = SumsOf(rest) \cup SumsOf({c}) /\ Summaries' = SumsOf(rest) \cup SumsOf({d})
          /\ Done = DoneOf(rest) \cup DoneOf({c}) /\ Done' = DoneOf(rest) \cup DoneOf({d})
          /\ EditsOf(Flying) = EditsOf(rest) \cup EditsOf({c})
          /\ EditsOf(Flying)' = EditsOf(rest) \cup EditsOf({d})
      BY <3>1, OneTurns
    <3> QED
      BY <3>1, <3>2
  <2> QED
    BY <2>1, <2>2, <2>3
<1>8. ListsOf({c}) = {l} /\ SumsOf({c}) = {s} /\ DoneOf({c}) = {} /\ EditsOf({c}) = {}
  BY <1>1, OfOne DEF Sums, Written
<1>9. Fine' => /\ Fine /\ screen.rowsAt <= c.rows.at /\ screen.sums.at <= c.sums.at
               /\ c.tenant = screen.tenant \/ screen.listed # screen.tenant
  <2>1. c.rows.at \in Int /\ c.sums.at \in Int /\ screen.rowsAt \in Int /\ screen.sums.at \in Int
    <3>1. l \in Lists /\ s \in Summaries /\ ReadYet(l) /\ ReadYet(s)
      BY <1>1, <1>7, <1>8 DEF ReadYet
    <3>2. View(l.seen, l.tenant) /\ View(s.seen, s.tenant) /\ writes \in Nat
      BY <3>1 DEF CardsInv, ViewsInv, ViewsOK
    <3>3. screen.rowsAt \in Int /\ screen.sums.at \in Int
      BY DEF CardsInv, ViewsInv, ScreenOK
    <3> QED
      BY <3>2, <3>3 DEF View
  <2>2. Fine' => Fine /\ "late" \notin Cards!Late(c) /\ "strayed" \notin Cards!Stray(c)
    BY <1>1 DEF Fine
  <2>3. "late" \notin Cards!Late(c) => ~ (c.sums.at < screen.sums.at) /\ ~ (c.rows.at < screen.rowsAt)
    BY DEF Cards!Late
  <2>4. "strayed" \notin Cards!Stray(c) => c.tenant = screen.tenant \/ screen.listed # screen.tenant
    BY DEF Cards!Stray
  <2> QED
    BY <2>1, <2>2, <2>3, <2>4
<1>10. ViewsInv'
  <2>1. /\ l \in Lists /\ s \in Summaries /\ ReadYet(l) /\ ReadYet(s) /\ s.tenant = l.tenant
        /\ Lists' \subseteq Lists /\ \A m \in Lists \ Lists' : m = l
        /\ Summaries' \subseteq Summaries /\ \A m \in Summaries \ Summaries' : m = s
        /\ Done' = Done /\ EditsOf(Flying)' = EditsOf(Flying)
        /\ l.seen = c.rows /\ s.seen = c.sums /\ l.tenant = c.tenant
    BY <1>1, <1>6, <1>7, <1>8 DEF ReadYet
  <2>2. Known' \subseteq Known \cup DOMAIN l.seen.is
    BY <1>3, <2>1 DEF Known
  <2>3. ViewsInv
    BY DEF CardsInv
  <2> HIDE DEF c, l, s
  <2> QED
    BY <1>1, <1>3, <1>9, <2>1, <2>2, <2>3, ListIsShown
<1>11. \A e \in Flying' : RequestOK(e)'
  BY <1>1, <1>5, <1>7, SameRequests DEF CardsInv
<1>12. TenantOK'
  <2>1. (\E e \in Flying : e.what = "context") => \E e \in Flying' : e.what = "context"
    BY <1>1, <1>7
  <2>2. "failed" \notin slips' => "failed" \notin slips
    BY <1>1
  <2>3. \A t : t # c.tenant => (NoneOf(Lists', t) <=> NoneOf(Lists, t))
    <3> SUFFICES ASSUME NEW t, t # c.tenant
                 PROVE  NoneOf(Lists', t) <=> NoneOf(Lists, t)
      OBVIOUS
    <3>1. Lists' = ListsOf(rest) /\ Lists = ListsOf(rest) \cup {l} /\ l.tenant = c.tenant
      BY <1>6, <1>7, <1>8
    <3> HIDE DEF l, c, rest
    <3> QED
      BY <3>1 DEF NoneOf
  <2>4. "rushed" \in slips => "rushed" \in slips'
    BY <1>1
  <2>5. TenantOK
    BY DEF CardsInv
  <2> SUFFICES ASSUME "failed" \notin slips'
               PROVE  TenantOK'
    BY DEF TenantOK
  <2>6. \/ screen.tenant \in Tenants /\ (screen.tenant = wanted \/ "rushed" \in slips')
        \/ \E e \in Flying' : e.what = "context"
    BY <2>1, <2>2, <2>4, <2>5 DEF TenantOK
  <2>7. Fine' /\ screen.tenant \in Tenants => c.tenant = screen.tenant \/ ~ NoneOf(Lists', screen.tenant)
    BY <1>9, <2>2, <2>3, <2>5 DEF TenantOK
  <2> HIDE DEF c
  <2> QED
    BY <1>1, <1>3, <2>6, <2>7 DEF TenantOK, NoneOf
<1>13. (\E e \in Flying' : Handles(e)) => screen'.creating
  BY <1>3, <1>5, <1>7 DEF CardsInv
<1>14. Mapped(screen.rows)'
  <2>1. Mapped(c.rows.is)
    BY <1>1, <1>2 DEF RequestOK, Refresh, Loads, Asks
  <2> QED
    BY <1>3, <2>1 DEF Mapped
<1> QED
  BY <1>3, <1>7, <1>10, <1>11, <1>12, <1>13, <1>14 DEF CardsInv, Alone, Handles

(* The answer of an edit or of a deletion is taken up.                      *)
LEMMA TakeWriteKeeps ==
  ASSUME CardsInv, NEW i \in DOMAIN asks, Cards!TakeWrite(i)
  PROVE  CardsInv'
<1> DEFINE c == asks[i]
           d == [Cards!Call("context", c.tenant, NoProject) EXCEPT !.then = <<c.what>>]
           rest == AllBut(asks, i)
           w == [what |-> c.what, project |-> c.project, wrote |-> c.rows]
           s == [tenant |-> c.tenant, seen |-> c.sums]
<1>1. /\ c.what \in {"edit", "delete"} /\ c.sums # Cards!Unread
      /\ UNCHANGED <<table, writes, wanted>>
      /\ asks' = Append(Cards!Without(i), d)
      /\ slips' = slips \cup Cards!Stray(c)
                    \cup (IF c.sums.at < screen.sums.at THEN {"late"} ELSE {})
  BY DEF Cards!TakeWrite
<1>2. c \in Flying /\ RequestOK(c)
  BY DEF CardsInv, Flying, AnyOf
<1>3. /\ c.state = "written" /\ Written(c) /\ Sums(c)
      /\ c.tenant \in Tenants /\ c.tenant = TenantOf[c.project]
  BY <1>1, <1>2 DEF RequestOK, Refresh, Loads, Asks, Written, Sums
<1>4. /\ DOMAIN screen' = DOMAIN screen
      /\ screen'.rows = Cards!Patched(c) /\ screen'.sums = c.sums
      /\ screen'.rowsAt = Cards!Later(screen.rowsAt, c.rows.at)
      /\ screen'.listed = screen.listed /\ screen'.tenant = screen.tenant
      /\ screen'.creating = screen.creating /\ screen'.dialog = screen.dialog
  BY DEF Cards!TakeWrite, CardsInv
<1>5. /\ RequestOK(d) /\ d.what = "context" /\ ~ Written(d) /\ ~ Sums(d)
      /\ Handles(d) => Handles(c)
  <2>1. /\ d.what = "context" /\ d.tenant = c.tenant /\ d.state = "sent" /\ d.then = <<c.what>>
        /\ DOMAIN d = Fields
    BY DEF Cards!Call, Fields
  <2> HIDE DEF d
  <2> QED
    BY <1>1, <1>3, <2>1 DEF RequestOK, Refresh, Written, Sums, Handles
<1> HIDE DEF d
<1>6. /\ asks' \in Seq(Flying') /\ Alone(asks')
      /\ Flying = rest \cup {c} /\ Flying' = rest \cup {d}
      /\ Lists = ListsOf(rest) \cup ListsOf({c}) /\ Lists' = ListsOf(rest) \cup ListsOf({d})
      /\ Summaries = SumsOf(rest) \cup SumsOf({c}) /\ Summaries' = SumsOf(rest) \cup SumsOf({d})
      /\ Done = DoneOf(rest) \cup DoneOf({c}) /\ Done' = DoneOf(rest) \cup DoneOf({d})
      /\ EditsOf(Flying) = EditsOf(rest) \cup EditsOf({c})
      /\ EditsOf(Flying)' = EditsOf(rest) \cup EditsOf({d})
  BY <1>1, <1>5, OneTurns
<1>7. /\ ListsOf({c}) = {} /\ SumsOf({c}) = {s} /\ DoneOf({c}) = {w}
      /\ EditsOf({c}) = IF c.what = "edit" THEN {c.project} ELSE {}
      /\ ListsOf({d}) = {} /\ SumsOf({d}) = {} /\ DoneOf({d}) = {} /\ EditsOf({d}) = {}
  BY <1>1, <1>3, <1>5, OfOne
<1>8. /\ DOMAIN screen'.rows = IF c.what = "delete" THEN DOMAIN screen.rows \ {c.project}
                               ELSE DOMAIN screen.rows
      /\ \A p \in DOMAIN screen'.rows :
           screen'.rows[p] = IF p = c.project THEN c.rows.is ELSE screen.rows[p]
  <2>1. CASE c.what = "delete"
    BY <1>4, <2>1 DEF Cards!Patched
  <2>2. CASE c.what = "edit"
    BY <1>4, <2>2 DEF Cards!Patched
  <2> QED
    BY <1>1, <2>1, <2>2
<1>9. Fine' => /\ Fine /\ screen.sums.at <= c.sums.at
               /\ c.tenant = screen.tenant \/ screen.listed # screen.tenant
  <2>1. c.sums.at \in Int /\ screen.sums.at \in Int
    <3>1. s \in Summaries /\ ReadYet(s)
      BY <1>1, <1>6, <1>7 DEF ReadYet
    <3>2. View(s.seen, s.tenant) /\ writes \in Nat /\ screen.sums.at \in Int
      BY <3>1 DEF CardsInv, ViewsInv, ViewsOK, ScreenOK
    <3> QED
      BY <3>2 DEF View
  <2>2. Fine' => Fine /\ ~ (c.sums.at < screen.sums.at) /\ "strayed" \notin Cards!Stray(c)
    BY <1>1 DEF Fine
  <2>3. "strayed" \notin Cards!Stray(c) => c.tenant = screen.tenant \/ screen.listed # screen.tenant
    BY DEF Cards!Stray
  <2> QED
    BY <2>1, <2>2, <2>3
<1>10. ViewsInv'
  <2>1. /\ s \in Summaries /\ ReadYet(s) /\ s.tenant = TenantOf[w.project] /\ w \in Done
        /\ w.what = c.what /\ w.project = c.project /\ w.wrote = c.rows /\ s.seen = c.sums
        /\ s.tenant = c.tenant
    BY <1>1, <1>3, <1>6, <1>7 DEF ReadYet
  <2>2. w.what = "edit" => w.project \in Known
    BY <1>6, <1>7 DEF Known
  <2>3. /\ Lists' = Lists
        /\ Done' \subseteq Done /\ \A e \in Done \ Done' : e = w
        /\ Summaries' \subseteq Summaries /\ \A m \in Summaries \ Summaries' : m = s
    <3> HIDE DEF w, s, c, rest
    <3> QED
      BY <1>6, <1>7
  <2>4. Known' \subseteq Known
    <3>1. DOMAIN screen'.rows \subseteq DOMAIN screen.rows
      BY <1>8
    <3>2. EditsOf(Flying)' \subseteq EditsOf(Flying)
      BY <1>6, <1>7
    <3> QED
      BY <1>4, <3>1, <3>2 DEF Known
  <2>5. ViewsInv
    BY DEF CardsInv
  <2>6. screen'.rowsAt = IF screen.rowsAt > w.wrote.at THEN screen.rowsAt ELSE w.wrote.at
    BY <1>4, <2>1 DEF Cards!Later
  <2> HIDE DEF c, w, s
  <2>7. /\ DOMAIN screen'.rows = IF w.what = "delete" THEN DOMAIN screen.rows \ {w.project}
                                 ELSE DOMAIN screen.rows
        /\ \A p \in DOMAIN screen'.rows :
             screen'.rows[p] = IF p = w.project THEN w.wrote.is ELSE screen.rows[p]
    BY <1>8, <2>1
  <2>8. /\ screen'.sums = s.seen /\ screen'.listed = screen.listed
        /\ screen'.tenant = screen.tenant
        /\ w.what \in {"edit", "delete"} /\ s \in Summaries /\ w \in Done
        /\ ReadYet(s) /\ s.tenant = TenantOf[w.project]
    BY <1>1, <1>4, <2>1
  <2>9. Fine' => /\ Fine /\ screen.sums.at <= s.seen.at
                 /\ s.tenant = screen.tenant \/ screen.listed # screen.tenant
    BY <1>9, <2>1
  <2> QED
    BY ONLY ViewsInv, <1>1, <2>2, <2>3, <2>4, <2>5, <2>6, <2>7, <2>8, <2>9, AnswerIsShown
<1>11. \A e \in Flying' : RequestOK(e)'
  BY <1>1, <1>5, <1>6, SameRequests DEF CardsInv
<1>12. TenantOK'
  <2>1. \E e \in Flying' : e.what = "context"
    BY <1>5, <1>6
  <2>2. Lists' = Lists /\ ("failed" \notin slips' => "failed" \notin slips)
    BY <1>1, <1>6, <1>7
  <2>3. TenantOK
    BY DEF CardsInv
  <2> QED
    BY <1>4, <1>9, <2>1, <2>2, <2>3 DEF TenantOK, NoneOf
<1>13. (\E e \in Flying' : Handles(e)) => screen'.creating
  BY <1>4, <1>5, <1>6 DEF CardsInv
<1>14. Mapped(screen.rows)'
  <2>1. CASE c.what = "delete"
    BY <1>4, <2>1 DEF Cards!Patched, Mapped
  <2>2. CASE c.what = "edit"
    BY <1>4, <2>2 DEF Cards!Patched, Mapped
  <2> QED
    BY <1>1, <2>1, <2>2
<1> QED
  BY <1>4, <1>6, <1>10, <1>11, <1>12, <1>13, <1>14 DEF CardsInv, Alone, Handles

(* The answer of a creation: the list is loaded again.                      *)
LEMMA TakeCreateKeeps ==
  ASSUME CardsInv, NEW i \in DOMAIN asks, Cards!TakeCreate(i)
  PROVE  CardsInv'
<1> DEFINE c == asks[i]
           r == [Cards!Call("context", c.tenant, NoProject) EXCEPT !.then = <<"create">>]
           d == [Cards!Call("list", c.tenant, NoProject) EXCEPT !.then = <<r>>]
           rest == AllBut(asks, i)
           l == [tenant |-> c.tenant, seen |-> Cards!Unread]
           w == [what |-> c.what, project |-> c.project, wrote |-> c.rows]
<1>1. /\ c.what = "create" /\ c.state = "written"
      /\ UNCHANGED <<table, writes, wanted, slips>>
      /\ asks' = Append(Cards!Without(i), d)
  BY DEF Cards!TakeCreate
<1>2. c \in Flying /\ RequestOK(c)
  BY DEF CardsInv, Flying, AnyOf
<1>3. Written(c) /\ ~ Sums(c) /\ Handles(c) /\ c.tenant \in Tenants /\ c.tenant = TenantOf[c.project]
  BY <1>1, <1>2 DEF RequestOK, Refresh, Loads, Asks, Written, Sums, Handles
<1>4. SameScreen /\ screen'.creating = screen.creating /\ screen'.dialog = screen.dialog
  BY DEF Cards!TakeCreate, CardsInv, SameScreen
<1>5. /\ RequestOK(d) /\ d.what = "list" /\ ~ Written(d) /\ Sums(d)
      /\ d.tenant = c.tenant /\ d.rows = Cards!Unread /\ d.sums = Cards!Unread
  <2>1. /\ r.what = "context" /\ r.tenant = c.tenant /\ r.state = "sent" /\ r.then = <<"create">>
        /\ DOMAIN r = Fields
    BY DEF Cards!Call, Fields
  <2> HIDE DEF r
  <2>2. /\ d.what = "list" /\ d.tenant = c.tenant /\ d.state = "sent" /\ d.then = <<r>>
        /\ d.rows = Cards!Unread /\ d.sums = Cards!Unread /\ DOMAIN d = Fields
    BY DEF Cards!Call, Fields
  <2> HIDE DEF d
  <2>3. Refresh(r)
    BY <1>3, <2>1 DEF Refresh
  <2> QED
    BY <2>1, <2>2, <2>3 DEF RequestOK, Loads, Written, Sums
<1> HIDE DEF d
<1>6. /\ asks' \in Seq(Flying') /\ Alone(asks')
      /\ Flying = rest \cup {c} /\ Flying' = rest \cup {d}
      /\ Lists = ListsOf(rest) \cup ListsOf({c}) /\ Lists' = ListsOf(rest) \cup ListsOf({d})
      /\ Summaries = SumsOf(rest) \cup SumsOf({c}) /\ Summaries' = SumsOf(rest) \cup SumsOf({d})
      /\ Done = DoneOf(rest) \cup DoneOf({c}) /\ Done' = DoneOf(rest) \cup DoneOf({d})
      /\ EditsOf(Flying) = EditsOf(rest) \cup EditsOf({c})
      /\ EditsOf(Flying)' = EditsOf(rest) \cup EditsOf({d})
  BY <1>1, <1>3, OneTurns
<1>7. /\ ListsOf({c}) = {} /\ SumsOf({c}) = {} /\ DoneOf({c}) = {w} /\ EditsOf({c}) = {}
      /\ ListsOf({d}) = {l} /\ SumsOf({d}) = {l} /\ DoneOf({d}) = {} /\ EditsOf({d}) = {}
  BY <1>1, <1>3, <1>5, OfOne
<1>8. ViewsInv'
  <2>1. l.tenant = c.tenant /\ l.seen = Cards!Unread /\ w.what = "create" /\ w.project = c.project
    BY <1>1
  <2> HIDE DEF l, w, rest
  <2>2. /\ Lists' = Lists \cup {l} /\ Summaries' = Summaries \cup {l} /\ Done' \subseteq Done
        /\ \A e \in Done \ Done' : e = w
        /\ EditsOf(Flying)' = EditsOf(Flying)
    BY <1>6, <1>7
  <2>3. \A e \in Done \ Done' : e.what = "create" /\ TenantOf[e.project] = c.tenant
    BY <1>3, <2>1, <2>2
  <2>4. Known' \subseteq Known /\ (Fine' <=> Fine) /\ ViewsInv
    BY <1>1, <1>4, <2>2 DEF Known, SameScreen, Fine, CardsInv
  <2> HIDE DEF c
  <2> QED
    BY <1>1, <1>3, <1>4, <2>1, <2>2, <2>3, <2>4, ListIsAskedFor DEF SameScreen
<1>9. \A e \in Flying' : RequestOK(e)'
  BY <1>1, <1>5, <1>6, SameRequests DEF CardsInv
<1>10. TenantOK'
  <2>1. (\E e \in Flying : e.what = "context") => \E e \in Flying' : e.what = "context"
    BY <1>1, <1>6
  <2>2. Lists \subseteq Lists'
    BY <1>6, <1>7
  <2>3. \A t : ~ NoneOf(Lists, t) => ~ NoneOf(Lists', t)
    BY <2>2 DEF NoneOf
  <2>4. TenantOK
    BY DEF CardsInv
  <2> QED
    BY <1>1, <1>4, <2>1, <2>3, <2>4 DEF TenantOK, NoneOf, SameScreen, Fine
<1>11. (\E e \in Flying' : Handles(e)) => screen'.creating
  BY <1>3, <1>4, <1>6 DEF CardsInv
<1> QED
  BY <1>4, <1>6, <1>8, <1>9, <1>10, <1>11 DEF CardsInv, Alone, Handles, SameScreen

(* A handler that is at its end lets go of the dialog.                      *)
LEMMA HandlerEnds ==
  ASSUME CardsInv, NEW c, Refresh(c)
  PROVE  LET p == Cards!Finished(screen, Cards!Handler(c))
         IN  /\ DOMAIN p = DOMAIN screen
             /\ p.rows = screen.rows /\ p.rowsAt = screen.rowsAt /\ p.sums = screen.sums
             /\ p.listed = screen.listed /\ p.tenant = screen.tenant
             /\ p.creating = (IF Handles(c) THEN FALSE ELSE screen.creating)
             /\ p.dialog = (IF Handles(c) THEN Cards!Closed ELSE screen.dialog)
<1> DEFINE h == Cards!Handler(c)
           p == Cards!Finished(screen, h)
<1>1. c.what = "context" /\ c.then \in {<<>>, <<"create">>, <<"edit">>, <<"delete">>}
  BY DEF Refresh
<1>2. DOMAIN screen = {"tenant", "waiting", "listed", "loading", "rows", "rowsAt", "sums", "manage",
                       "dialog", "creating", "deleting"}
  BY DEF CardsInv
<1>3. CASE c.then = <<"create">> \/ c.then = <<"edit">>
  <2>1. h \in {"create", "edit"} /\ Handles(c)
    BY <1>1, <1>3 DEF Cards!Handler, Handles
  <2>2. p = [screen EXCEPT !.creating = FALSE, !.dialog = Cards!Closed]
    BY <2>1 DEF Cards!Finished
  <2> QED
    BY <1>2, <2>1, <2>2
<1>4. CASE c.then = <<"delete">>
  <2>1. h = "delete" /\ ~ Handles(c)
    BY <1>1, <1>4 DEF Cards!Handler, Handles
  <2>2. p = [screen EXCEPT !.deleting = NoProject]
    BY <2>1 DEF Cards!Finished
  <2> QED
    BY <1>2, <2>1, <2>2
<1>5. CASE c.then = <<>>
  <2>1. h = "none" /\ ~ Handles(c)
    BY <1>1, <1>5 DEF Cards!Handler, Handles
  <2>2. p = screen
    BY <2>1 DEF Cards!Finished
  <2> QED
    BY <2>1, <2>2
<1> QED
  BY <1>1, <1>3, <1>4, <1>5

(* A context is taken up, and another tenant's list is asked for.           *)
LEMMA TakeContextKeeps ==
  ASSUME CardsInv, NEW i \in DOMAIN asks, Cards!TakeContext(i)
  PROVE  CardsInv'
<1> DEFINE c == asks[i]
           p == Cards!Finished(screen, Cards!Handler(c))
           moved == c.tenant # screen.tenant
           d == Cards!Call("list", c.tenant, NoProject)
           rest == AllBut(asks, i)
           l == [tenant |-> c.tenant, seen |-> Cards!Unread]
<1>1. /\ c.what = "context"
      /\ UNCHANGED <<table, writes, wanted>>
      /\ asks' = Cards!Without(i) \o (IF moved THEN <<d>> ELSE <<>>)
      /\ slips' = slips \cup (IF c.tenant # wanted THEN {"rushed"} ELSE {})
  BY DEF Cards!TakeContext
<1>2. c \in Flying /\ RequestOK(c)
  BY DEF CardsInv, Flying, AnyOf
<1>3. Refresh(c) /\ c.tenant \in Tenants /\ ~ Written(c) /\ ~ Sums(c)
  BY <1>1, <1>2 DEF RequestOK, Refresh, Loads, Asks, Written, Sums
<1>4. /\ DOMAIN screen' = DOMAIN screen
      /\ screen'.rows = screen.rows /\ screen'.rowsAt = screen.rowsAt
      /\ screen'.sums = screen.sums /\ screen'.listed = screen.listed
      /\ screen'.tenant = c.tenant
      /\ screen'.creating = (IF Handles(c) THEN FALSE ELSE screen.creating)
      /\ screen'.dialog = (IF Handles(c) THEN Cards!Closed ELSE screen.dialog)
  <2>1. /\ DOMAIN p = DOMAIN screen
        /\ p.rows = screen.rows /\ p.rowsAt = screen.rowsAt /\ p.sums = screen.sums
        /\ p.listed = screen.listed
        /\ p.creating = (IF Handles(c) THEN FALSE ELSE screen.creating)
        /\ p.dialog = (IF Handles(c) THEN Cards!Closed ELSE screen.dialog)
    BY <1>3, HandlerEnds
  <2>2. screen' = [p EXCEPT !.tenant = c.tenant, !.waiting = FALSE, !.loading = @ \/ moved]
    BY DEF Cards!TakeContext
  <2>3. DOMAIN screen = {"tenant", "waiting", "listed", "loading", "rows", "rowsAt", "sums",
                         "manage", "dialog", "creating", "deleting"}
    BY DEF CardsInv
  <2> HIDE DEF p, c
  <2>4. /\ DOMAIN screen' = DOMAIN screen
        /\ screen'.rows = p.rows /\ screen'.rowsAt = p.rowsAt /\ screen'.sums = p.sums
        /\ screen'.listed = p.listed /\ screen'.tenant = c.tenant
        /\ screen'.creating = p.creating /\ screen'.dialog = p.dialog
    BY <2>1, <2>2, <2>3
  <2> QED
    BY <2>1, <2>4
<1>5. slips' = slips \/ slips' = slips \cup {"rushed"}
  BY <1>1
<1>6. Fine' <=> Fine
  BY <1>5 DEF Fine
<1>7. DOMAIN screen'.rows = DOMAIN screen.rows
  BY <1>4
<1>8. ASSUME EditsOf(Flying)' = EditsOf(rest), EditsOf(Flying) = EditsOf(rest)
      PROVE  Known' \subseteq Known
  BY <1>4, <1>7, <1>8 DEF Known, Cards!Closed
<1>9. "failed" \notin slips' => "failed" \notin slips
  BY <1>1
<1>10. c.tenant = wanted' \/ "rushed" \in slips'
  BY <1>1
<1>11. ListsOf({c}) = {} /\ SumsOf({c}) = {} /\ DoneOf({c}) = {} /\ EditsOf({c}) = {}
  BY <1>1, <1>3, OfOne
<1>12. CASE moved
  <2>1. /\ d.what = "list" /\ d.tenant = c.tenant /\ d.state = "sent" /\ d.then = <<>>
        /\ d.rows = Cards!Unread /\ d.sums = Cards!Unread /\ DOMAIN d = Fields
    BY DEF Cards!Call, Fields
  <2>2. asks' = Cards!Without(i) \o <<d>>
    BY <1>1, <1>12
  <2> HIDE DEF d
  <2>3. RequestOK(d) /\ Sums(d) /\ ~ Written(d) /\ ~ Handles(d)
    BY <2>1 DEF RequestOK, Loads, Sums, Written, Handles
  <2>4. /\ asks' \in Seq(Flying') /\ Alone(asks')
        /\ Flying = rest \cup {c} /\ Flying' = rest \cup {d}
        /\ Handles(c) => \A e \in rest : ~ Handles(e)
        /\ Lists = ListsOf(rest) \cup ListsOf({c}) /\ Lists' = ListsOf(rest) \cup ListsOf({d})
        /\ Summaries = SumsOf(rest) \cup SumsOf({c}) /\ Summaries' = SumsOf(rest) \cup SumsOf({d})
        /\ Done = DoneOf(rest) \cup DoneOf({c}) /\ Done' = DoneOf(rest) \cup DoneOf({d})
        /\ EditsOf(Flying) = EditsOf(rest) \cup EditsOf({c})
        /\ EditsOf(Flying)' = EditsOf(rest) \cup EditsOf({d})
    BY <2>2, <2>3, OneTurns
  <2>5. ListsOf({d}) = {l} /\ SumsOf({d}) = {l} /\ DoneOf({d}) = {} /\ EditsOf({d}) = {}
    BY <2>1, <2>3, OfOne
  <2>6. l.tenant = c.tenant /\ l.seen = Cards!Unread
    OBVIOUS
  <2> HIDE DEF l
  <2>7. Lists' = Lists \cup {l} /\ Summaries' = Summaries \cup {l} /\ Done' = Done
    BY <1>11, <2>4, <2>5
  <2>8. Known' \subseteq Known
    BY <1>8, <1>11, <2>4, <2>5
  <2>9. ViewsInv'
    <3>1. ViewsInv
      BY DEF CardsInv
    <3> HIDE DEF c
    <3> QED
      BY <1>1, <1>3, <1>4, <1>6, <2>6, <2>7, <2>8, <3>1, ListIsAskedFor
  <2>10. \A e \in Flying' : RequestOK(e)'
    BY <1>1, <2>3, <2>4, SameRequests DEF CardsInv
  <2>11. TenantOK'
    <3>1. ~ NoneOf(Lists', c.tenant)
      BY <2>6, <2>7 DEF NoneOf
    <3> QED
      BY <1>3, <1>4, <1>10, <3>1 DEF TenantOK, NoneOf
  <2>12. (\E e \in Flying' : Handles(e)) => screen'.creating
    BY <1>2, <1>4, <2>3, <2>4 DEF CardsInv
  <2> QED
    BY <1>4, <2>4, <2>9, <2>10, <2>11, <2>12 DEF CardsInv, Alone, Handles
<1>13. CASE ~ moved
  <2>1. asks' = Cards!Without(i) \o <<>>
    BY <1>1, <1>13
  <2>2. /\ asks' \in Seq(Flying') /\ Alone(asks')
        /\ Flying = rest \cup {c} /\ Flying' = rest \cup {}
        /\ Handles(c) => \A e \in rest : ~ Handles(e)
        /\ Lists = ListsOf(rest) \cup ListsOf({c}) /\ Lists' = ListsOf(rest) \cup ListsOf({})
        /\ Summaries = SumsOf(rest) \cup SumsOf({c}) /\ Summaries' = SumsOf(rest) \cup SumsOf({})
        /\ Done = DoneOf(rest) \cup DoneOf({c}) /\ Done' = DoneOf(rest) \cup DoneOf({})
        /\ EditsOf(Flying) = EditsOf(rest) \cup EditsOf({c})
        /\ EditsOf(Flying)' = EditsOf(rest) \cup EditsOf({})
    BY <2>1, OneTurns
  <2>3. Lists' = Lists /\ Summaries' = Summaries /\ Done' = Done
    BY <1>11, <2>2, NothingOfThem
  <2>4. Known' \subseteq Known
    BY <1>8, <1>11, <2>2, NothingOfThem
  <2>5. screen'.tenant = screen.tenant
    BY <1>4, <1>13
  <2>6. ViewsInv'
    BY <1>1, <1>4, <1>6, <1>7, <2>3, <2>4, <2>5, NothingComes DEF CardsInv
  <2>7. \A e \in Flying' : RequestOK(e)'
    BY <1>1, <2>2, SameRequests DEF CardsInv
  <2>8. TenantOK'
    <3>1. TenantOK
      BY DEF CardsInv
    <3> QED
      BY <1>3, <1>4, <1>6, <1>9, <1>10, <2>3, <2>5, <3>1 DEF TenantOK, NoneOf
  <2>9. (\E e \in Flying' : Handles(e)) => screen'.creating
    BY <1>2, <1>4, <2>2 DEF CardsInv
  <2> QED
    BY <1>4, <2>2, <2>6, <2>7, <2>8, <2>9 DEF CardsInv, Alone, Handles
<1> QED
  BY <1>12, <1>13

(* A request is refused, or fails.                                          *)
LEMMA FailKeeps ==
  ASSUME CardsInv, NEW i \in DOMAIN asks, Cards!Fail(i)
  PROVE  CardsInv'
<1> DEFINE c == asks[i]
           p == Cards!Finished(screen, Cards!Handler(c))
           rest == AllBut(asks, i)
<1>1. /\ UNCHANGED <<table, writes, wanted>>
      /\ asks' = Cards!Without(i) \o (IF c.what = "list" THEN c.then ELSE <<>>)
      /\ slips' = slips \cup (IF c.state = "refused" THEN {} ELSE {"failed"})
  BY DEF Cards!Fail
<1>2. c \in Flying /\ RequestOK(c)
  BY DEF CardsInv, Flying, AnyOf
<1>3. SameScreen
  <2>1. DOMAIN screen = {"tenant", "waiting", "listed", "loading", "rows", "rowsAt", "sums",
                         "manage", "dialog", "creating", "deleting"}
    BY DEF CardsInv
  <2>2. CASE c.what = "context"
    <3>1. Refresh(c)
      BY <1>2, <2>2 DEF RequestOK, Refresh, Loads, Asks
    <3>2. /\ DOMAIN p = DOMAIN screen
          /\ p.rows = screen.rows /\ p.rowsAt = screen.rowsAt /\ p.sums = screen.sums
          /\ p.listed = screen.listed /\ p.tenant = screen.tenant
      BY <3>1, HandlerEnds
    <3>3. screen' = [p EXCEPT !.waiting = FALSE]
      BY <2>2 DEF Cards!Fail
    <3> HIDE DEF p
    <3> QED
      BY <3>2, <3>3 DEF SameScreen
  <2>3. CASE c.what = "list"
    <3>1. screen' = [screen EXCEPT !.loading = FALSE, !.waiting = @ \/ c.then # <<>>]
      BY <2>3 DEF Cards!Fail
    <3> QED
      BY <2>1, <3>1 DEF SameScreen
  <2>4. CASE c.what \notin {"context", "list"}
    <3>1. screen' \in {[screen EXCEPT !.deleting = NoProject], [screen EXCEPT !.creating = FALSE]}
      BY <2>4 DEF Cards!Fail
    <3> QED
      BY <2>1, <3>1 DEF SameScreen
  <2> QED
    BY <2>2, <2>3, <2>4
<1>4. /\ screen'.creating = screen.creating \/ (Handles(c) /\ c.what # "list")
      /\ screen'.dialog = screen.dialog \/ screen'.dialog = Cards!Closed
  <2>1. DOMAIN screen = {"tenant", "waiting", "listed", "loading", "rows", "rowsAt", "sums",
                         "manage", "dialog", "creating", "deleting"}
    BY DEF CardsInv
  <2>2. CASE c.what = "context"
    <3>1. Refresh(c)
      BY <1>2, <2>2 DEF RequestOK, Refresh, Loads, Asks
    <3>2. /\ p.creating = (IF Handles(c) THEN FALSE ELSE screen.creating)
          /\ p.dialog = (IF Handles(c) THEN Cards!Closed ELSE screen.dialog)
      BY <3>1, HandlerEnds
    <3>3. screen' = [p EXCEPT !.waiting = FALSE]
      BY <2>2 DEF Cards!Fail
    <3>4. screen'.creating = p.creating /\ screen'.dialog = p.dialog
      <4>1. DOMAIN p = DOMAIN screen
        BY <3>1, HandlerEnds
      <4> HIDE DEF p
      <4> QED
        BY <2>1, <3>3, <4>1
    <3> HIDE DEF p
    <3> QED
      BY <2>2, <3>2, <3>4
  <2>3. CASE c.what = "list"
    <3>1. screen' = [screen EXCEPT !.loading = FALSE, !.waiting = @ \/ c.then # <<>>]
      BY <2>3 DEF Cards!Fail
    <3> QED
      BY <2>1, <3>1
  <2>4. CASE c.what = "delete"
    <3>1. screen' = [screen EXCEPT !.deleting = NoProject]
      BY <2>4 DEF Cards!Fail
    <3> QED
      BY <2>1, <3>1
  <2>5. CASE c.what \in {"create", "edit"}
    <3>1. screen' = [screen EXCEPT !.creating = FALSE]
      BY <2>5 DEF Cards!Fail
    <3> QED
      BY <2>1, <2>5, <3>1 DEF Handles
  <2> QED
    BY <1>2, <2>2, <2>3, <2>4, <2>5 DEF RequestOK, Refresh, Loads, Asks
<1>5. DOMAIN screen'.rows = DOMAIN screen.rows
  BY <1>3 DEF SameScreen
<1>6. ASSUME EditsOf(Flying)' \subseteq EditsOf(Flying)
      PROVE  Known' \subseteq Known
  BY <1>4, <1>5, <1>6 DEF Known, Cards!Closed
<1>7. CASE c.state = "refused"
  <2>1. Asks(c) /\ ~ Written(c) /\ ~ Sums(c) /\ c.what # "list" /\ c.what # "context"
    BY <1>2, <1>7 DEF RequestOK, Refresh, Loads, Asks, Written, Sums
  <2>2. asks' = Cards!Without(i) \o <<>> /\ slips' = slips
    BY <1>1, <1>7, <2>1
  <2>3. /\ asks' \in Seq(Flying') /\ Alone(asks')
        /\ Flying = rest \cup {c} /\ Flying' = rest \cup {}
        /\ Handles(c) => \A e \in rest : ~ Handles(e)
        /\ Lists = ListsOf(rest) \cup ListsOf({c}) /\ Lists' = ListsOf(rest) \cup ListsOf({})
        /\ Summaries = SumsOf(rest) \cup SumsOf({c}) /\ Summaries' = SumsOf(rest) \cup SumsOf({})
        /\ Done = DoneOf(rest) \cup DoneOf({c}) /\ Done' = DoneOf(rest) \cup DoneOf({})
        /\ EditsOf(Flying) = EditsOf(rest) \cup EditsOf({c})
        /\ EditsOf(Flying)' = EditsOf(rest) \cup EditsOf({})
    BY <2>2, OneTurns
  <2>4. ListsOf({c}) = {} /\ SumsOf({c}) = {} /\ DoneOf({c}) = {}
    BY <2>1, OfOne
  <2>5. Lists' = Lists /\ Summaries' = Summaries /\ Done' = Done
    BY <2>3, <2>4, NothingOfThem
  <2>6. Known' \subseteq Known
    BY <1>6, <2>3, NothingOfThem
  <2>7. Fine' <=> Fine
    BY <2>2 DEF Fine
  <2>8. ViewsInv'
    BY <1>1, <1>3, <1>5, <2>5, <2>6, <2>7, NothingComes DEF CardsInv, SameScreen
  <2>9. \A e \in Flying' : RequestOK(e)'
    BY <1>1, <2>3, SameRequests DEF CardsInv
  <2>10. TenantOK'
    <3>1. TenantOK
      BY DEF CardsInv
    <3>2. (\E e \in Flying : e.what = "context") => \E e \in Flying' : e.what = "context"
      BY <2>1, <2>3
    <3> QED
      BY <1>1, <1>3, <2>2, <2>5, <2>7, <3>1, <3>2 DEF TenantOK, NoneOf, SameScreen
  <2>11. (\E e \in Flying' : Handles(e)) => screen'.creating
    BY <1>2, <1>4, <2>3 DEF CardsInv
  <2> QED
    BY <1>3, <2>3, <2>8, <2>9, <2>10, <2>11 DEF CardsInv, Alone, Handles, SameScreen
<1>8. CASE c.state # "refused"
  <2>1. "failed" \in slips'
    BY <1>1, <1>8
  <2>2. \/ asks' = Cards!Without(i) \o <<>>
        \/ \E r : Refresh(r) /\ r.then = <<"create">> /\ asks' = Cards!Without(i) \o <<r>>
                  /\ c.what = "list" /\ c.then # <<>>
    <3>1. CASE c.what = "list"
      <4>1. c.then = <<>> \/ \E r : Refresh(r) /\ r.then = <<"create">> /\ c.then = <<r>>
        BY <1>2, <3>1 DEF RequestOK, Refresh, Loads, Asks
      <4>2. asks' = Cards!Without(i) \o c.then
        BY <1>1, <3>1
      <4>3. ASSUME NEW r, c.then = <<r>>
            PROVE  c.then # <<>>
        BY <4>3
      <4> HIDE DEF c
      <4> QED
        BY <3>1, <4>1, <4>2, <4>3
    <3>2. CASE c.what # "list"
      BY <1>1, <3>2
    <3> QED
      BY <3>1, <3>2
  <2>3. PICK new :
          /\ asks' \in Seq(Flying') /\ Alone(asks')
          /\ Flying = rest \cup {c} /\ Flying' = rest \cup new
          /\ Handles(c) => \A e \in rest : ~ Handles(e)
          /\ Lists = ListsOf(rest) \cup ListsOf({c}) /\ Lists' = ListsOf(rest) \cup ListsOf(new)
          /\ Summaries = SumsOf(rest) \cup SumsOf({c}) /\ Summaries' = SumsOf(rest) \cup SumsOf(new)
          /\ Done = DoneOf(rest) \cup DoneOf({c}) /\ Done' = DoneOf(rest) \cup DoneOf(new)
          /\ EditsOf(Flying) = EditsOf(rest) \cup EditsOf({c})
          /\ EditsOf(Flying)' = EditsOf(rest) \cup EditsOf(new)
          /\ ListsOf(new) = {} /\ SumsOf(new) = {} /\ DoneOf(new) = {} /\ EditsOf(new) = {}
          /\ \A r \in new : RequestOK(r) /\ c.what = "list" /\ Handles(c)
    <3>1. CASE asks' = Cards!Without(i) \o <<>>
      <4> WITNESS {}
      <4> QED
        BY <3>1, OneTurns, NothingOfThem
    <3>2. CASE \E r : Refresh(r) /\ r.then = <<"create">> /\ asks' = Cards!Without(i) \o <<r>>
                      /\ c.what = "list" /\ c.then # <<>>
      <4>1. PICK r : Refresh(r) /\ r.then = <<"create">> /\ asks' = Cards!Without(i) \o <<r>>
                     /\ c.what = "list" /\ c.then # <<>>
        BY <3>2
      <4>2. Handles(c) /\ RequestOK(r) /\ ~ Written(r) /\ ~ Sums(r) /\ r.what = "context"
        BY <4>1 DEF Handles, RequestOK, Refresh, Written, Sums
      <4> WITNESS {r}
      <4>4. ListsOf({r}) = {} /\ SumsOf({r}) = {} /\ DoneOf({r}) = {} /\ EditsOf({r}) = {}
        BY <4>2, OfOne
      <4>5. /\ asks' \in Seq(Flying') /\ Alone(asks')
            /\ Flying = rest \cup {c} /\ Flying' = rest \cup {r}
            /\ Handles(c) => \A e \in rest : ~ Handles(e)
            /\ Lists = ListsOf(rest) \cup ListsOf({c}) /\ Lists' = ListsOf(rest) \cup ListsOf({r})
            /\ Summaries = SumsOf(rest) \cup SumsOf({c})
            /\ Summaries' = SumsOf(rest) \cup SumsOf({r})
            /\ Done = DoneOf(rest) \cup DoneOf({c}) /\ Done' = DoneOf(rest) \cup DoneOf({r})
            /\ EditsOf(Flying) = EditsOf(rest) \cup EditsOf({c})
            /\ EditsOf(Flying)' = EditsOf(rest) \cup EditsOf({r})
        BY <4>1, <4>2, OneTurns
      <4> QED
        BY <4>1, <4>2, <4>4, <4>5
    <3> QED
      BY <2>2, <3>1, <3>2
  <2>4. Lists' \subseteq Lists /\ Summaries' \subseteq Summaries /\ Done' \subseteq Done
    BY <2>3
  <2>5. Known' \subseteq Known
    BY <1>6, <2>3
  <2>6. ViewsInv'
    BY <1>1, <1>3, <2>1, <2>4, <2>5, SomethingFails DEF CardsInv, SameScreen
  <2>7. \A e \in Flying' : RequestOK(e)'
    BY <1>1, <2>3, SameRequests DEF CardsInv
  <2>8. TenantOK'
    BY <2>1 DEF TenantOK
  <2>9. (\E e \in Flying' : Handles(e)) => screen'.creating
    BY <1>2, <1>4, <2>3 DEF CardsInv
  <2> QED
    BY <1>3, <2>3, <2>6, <2>7, <2>8, <2>9 DEF CardsInv, Alone, Handles, SameScreen
<1> QED
  BY <1>7, <1>8

-----------------------------------------------------------------------------
LEMMA CardsStep ==
  Cards!ProjectsAssumption /\ CardsInv /\ [Cards!Next]_(Cards!vars) => CardsInv'
<1> SUFFICES ASSUME Cards!ProjectsAssumption, CardsInv, [Cards!Next]_(Cards!vars)
             PROVE  CardsInv'
  OBVIOUS
<1>1. CASE UNCHANGED Cards!vars
  BY <1>1, DialogKeeps DEF Cards!vars, SameScreen, Known
<1>2. CASE Cards!Switch \/ Cards!OpenCreate \/ Cards!Close \/ Cards!Submit
  BY <1>2, UserKeeps
<1>3. ASSUME NEW p \in Projects, Cards!OpenEdit(p) \/ Cards!Delete(p)
      PROVE  CardsInv'
  BY <1>3, UserKeeps
<1>4. ASSUME NEW i \in DOMAIN asks,
             \/ Cards!Write(i) \/ Cards!ReadRows(i) \/ Cards!ReadSums(i)
             \/ Cards!TakeList(i) \/ Cards!TakeWrite(i) \/ Cards!TakeCreate(i)
             \/ Cards!TakeContext(i) \/ Cards!Fail(i)
      PROVE  CardsInv'
  BY <1>4, WriteKeeps, ReadsKeep, TakeListKeeps, TakeWriteKeeps, TakeCreateKeeps,
     TakeContextKeeps, FailKeeps
<1> QED
  BY <1>1, <1>2, <1>3, <1>4 DEF Cards!Next

LEMMA CardsHolds == Cards!ProjectsAssumption => (Cards!Spec => []CardsInv)
<1> SUFFICES ASSUME Cards!ProjectsAssumption
             PROVE  Cards!Spec => []CardsInv
  OBVIOUS
<1>1. Cards!Init => CardsInv
  BY CardsStart
<1>2. CardsInv /\ [Cards!Next]_(Cards!vars) => CardsInv'
  BY CardsStep
<1> QED
  BY <1>1, <1>2, PTL DEF Cards!Spec

LEMMA CardsShow == Cards!ProjectsAssumption /\ CardsInv => Cards!ShowsTheProjects
<1> SUFFICES ASSUME Cards!ProjectsAssumption, CardsInv, asks = <<>>, Fine
             PROVE  /\ screen.rows = Cards!RowsOf(screen.tenant)
                    /\ screen.sums.is = Cards!RowsOf(screen.tenant)
                    /\ "rushed" \notin slips => screen.tenant = wanted
  BY DEF Cards!ShowsTheProjects, Fine
<1> DEFINE t == screen.tenant
<1>1. Flying = {}
  <2>1. DOMAIN asks = {}
    OBVIOUS
  <2> QED
    BY <2>1 DEF Flying, AnyOf
<1>2. Lists = {} /\ Summaries = {} /\ Done = {}
  BY <1>1, NothingOfThem DEF Lists, Summaries, Done
<1>3. Hopeful /\ "failed" \notin slips
  BY <1>2 DEF Hopeful, Fine
<1>4. t \in Tenants /\ (t = wanted \/ "rushed" \in slips) /\ screen.listed = t
  BY <1>1, <1>2, <1>3 DEF CardsInv, TenantOK, NoneOf
<1>5. Shows(t) /\ NoneOf(Lists, t) /\ NoneOf(Summaries, t) /\ NoneMade(t)
      /\ \A p : Unchanging(p)
  BY <1>2, <1>4 DEF Shows, NoneOf, NoneMade, Unchanging
<1>6. screen.sums.is = Cards!RowsOf(t)
  BY <1>3, <1>4, <1>5 DEF CardsInv, ViewsInv, SummaryTells
<1>7. \A p \in Projects : TenantOf[p] = t => Sees(screen.rows, p)
  BY <1>3, <1>5 DEF CardsInv, ViewsInv, RowsTell
<1>8. \A p \in DOMAIN screen.rows : p \in Projects /\ TenantOf[p] = t
  BY <1>4 DEF CardsInv, ViewsInv, ScreenOK, KnownOK, Known
<1>9. screen.rows = Cards!RowsOf(t)
  <2>1. DOMAIN screen.rows = {q \in Projects : Cards!Live(q) /\ TenantOf[q] = t}
    BY <1>7, <1>8 DEF Sees
  <2>2. \A p \in DOMAIN screen.rows : screen.rows[p] = table[p]
    BY <1>7, <1>8 DEF Sees
  <2>3. Mapped(screen.rows)
    BY DEF CardsInv
  <2> QED
    BY <2>1, <2>2, <2>3 DEF Cards!RowsOf, Mapped
<1> QED
  BY <1>4, <1>6, <1>9

(* For any projects, tenants and permissions, of ProjectsPage: when every   *)
(* request has been answered, the cards and their summaries are those of    *)
(* the page's tenant, as the service has them, and unless a handler asked   *)
(* for its own tenant again, that is the tenant the user chose last; as     *)
(* long as no request failed, and no answer came after one of a later       *)
(* moment or for a tenant the page had left.                                *)
THEOREM CardsShowTheProjects ==
  Cards!ProjectsAssumption => (Cards!Spec => []Cards!ShowsTheProjects)
<1> SUFFICES ASSUME Cards!ProjectsAssumption
             PROVE  Cards!Spec => []Cards!ShowsTheProjects
  OBVIOUS
<1>1. CardsInv => Cards!ShowsTheProjects
  BY CardsShow
<1>2. Cards!Spec => []CardsInv
  BY CardsHolds
<1> QED
  BY <1>1, <1>2, PTL
=============================================================================
