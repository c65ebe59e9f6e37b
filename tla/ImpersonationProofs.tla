------------------------- MODULE ImpersonationProofs -------------------------
(* Theorems about Impersonation, for every value of its constants; and      *)
(* about ImpersonationConsole, that what is in force is shown.              *)
EXTENDS Impersonation, FiniteSetTheorems, WellFoundedInduction, TLAPS

-----------------------------------------------------------------------------
(* The shapes of the table and of the handlers.  The number of stop events  *)
(* is bounded further below.                                                *)

Requested ==
       {Idle}
  \cup [pc: {"create"}, pair: Pairs, hits: SUBSET Sessions]
  \cup [pc: {"delete", "report"}, left: SUBSET Sessions]

Shape ==
  /\ sessions \in [Sessions -> SessionRows]
  /\ reqs \in [Handlers -> Requested]
  /\ stops \in [Sessions -> Nat]
  /\ raced \subseteq Pairs
  /\ unsaid \subseteq Sessions

LEMMA HandlerShape ==
  ASSUME Shape, NEW h \in Handlers
  PROVE  /\ Holds(h, "create") => reqs[h].pair \in Pairs /\ reqs[h].hits \subseteq Sessions
         /\ Holds(h, "delete") \/ Holds(h, "report") => reqs[h].left \subseteq Sessions
         /\ reqs[h].pc \in {"idle", "create", "delete", "report"}
<1>1. reqs[h] \in Requested
  BY DEF Shape
<1> QED
  BY <1>1 DEF Requested, Holds, Idle

LEMMA RowShape ==
  ASSUME Shape, NEW s \in Sessions, sessions[s].status # "unborn"
  PROVE  /\ sessions[s].status \in {"stored", "gone"}
         /\ sessions[s].pair \in Pairs /\ sessions[s].expired \in BOOLEAN
         /\ sessions[s] = [status |-> sessions[s].status, pair |-> sessions[s].pair,
                           expired |-> sessions[s].expired]
BY DEF Shape, SessionRows, Unborn

LEMMA BecomesShape ==
  ASSUME Shape, NEW h \in Handlers, NEW handler \in Requested, Becomes(h, handler)
  PROVE  /\ reqs' \in [Handlers -> Requested]
         /\ reqs'[h] = handler
         /\ \A q \in Handlers : q # h => reqs'[q] = reqs[q]
BY DEF Shape, Becomes

(* What becomes of a row when a start commits. *)
LEMMA CreateRows ==
  ASSUME Shape, NEW h \in Handlers, NEW s \in Sessions, StartCreate(h, s)
  PROVE  /\ sessions' \in [Sessions -> SessionRows]
         /\ sessions'[s] = [status |-> "stored", pair |-> reqs[h].pair, expired |-> FALSE]
         /\ \A t \in Sessions : t # s =>
              /\ sessions'[t].status = sessions[t].status
              /\ sessions[t].status # "unborn" =>
                   /\ sessions'[t].pair = sessions[t].pair
                   /\ sessions'[t].expired = (sessions[t].expired \/ t \in reqs[h].hits)
<1>1. reqs[h].pair \in Pairs
  BY HandlerShape DEF StartCreate
<1>2. ASSUME NEW t \in Sessions
      PROVE  /\ sessions'[t] \in SessionRows
             /\ t # s =>
                  /\ sessions'[t].status = sessions[t].status
                  /\ sessions[t].status # "unborn" =>
                       /\ sessions'[t].pair = sessions[t].pair
                       /\ sessions'[t].expired = (sessions[t].expired \/ t \in reqs[h].hits)
  <2>1. CASE t = s
    BY <1>1, <2>1 DEF StartCreate, SessionRows
  <2>2. CASE t # s /\ t \in reqs[h].hits
    BY <2>2 DEF StartCreate, SessionRows, Unborn, Shape
  <2>3. CASE t # s /\ t \notin reqs[h].hits
    BY <2>3 DEF StartCreate, SessionRows, Unborn, Shape
  <2> QED
    BY <2>1, <2>2, <2>3
<1>3. sessions' = [t \in Sessions |-> sessions'[t]]
  BY DEF StartCreate
<1> QED
  BY <1>2, <1>3 DEF StartCreate

-----------------------------------------------------------------------------
(* What a clean-up is about to delete was inserted, and what a handler has  *)
(* left to report is gone.                                                  *)
LeftAreRows ==
  \A h \in Handlers :
    /\ Holds(h, "delete") => \A s \in reqs[h].left : sessions[s].status # "unborn"
    /\ Holds(h, "report") => \A s \in reqs[h].left : sessions[s].status = "gone"

(* No transaction takes a row back or changes whose it is, and a session    *)
(* that is gone stays so.                                                   *)
RowsPersist ==
  \A s \in Sessions : sessions[s].status # "unborn" =>
    /\ sessions'[s].status # "unborn" /\ sessions'[s].pair = sessions[s].pair
    /\ sessions[s].status = "gone" => sessions'[s].status = "gone"

LEMMA NextRows ==
  ASSUME Shape, LeftAreRows, [Next]_vars
  PROVE  sessions' \in [Sessions -> SessionRows] /\ RowsPersist
<1>1. ASSUME NEW h \in Handlers, NEW s \in Sessions, StartCreate(h, s)
      PROVE  sessions' \in [Sessions -> SessionRows] /\ RowsPersist
  BY <1>1, CreateRows DEF StartCreate, RowsPersist
<1>2. ASSUME NEW h \in Handlers, NEW s \in Sessions, NEW user \in Users, Stop(h, s, user)
      PROVE  sessions' \in [Sessions -> SessionRows] /\ RowsPersist
  BY <1>2 DEF Stop, DeleteSession, Stored, Shape, SessionRows, Unborn, RowsPersist
<1>3. ASSUME NEW h \in Handlers, CleanDelete(h)
      PROVE  sessions' \in [Sessions -> SessionRows] /\ RowsPersist
  <2>1. \A s \in reqs[h].left : sessions[s].status # "unborn"
    BY <1>3 DEF LeftAreRows, CleanDelete
  <2> QED
    BY <1>3, <2>1 DEF CleanDelete, Shape, SessionRows, Unborn, RowsPersist
<1>4. ASSUME NEW s \in Sessions, SessionExpires(s)
      PROVE  sessions' \in [Sessions -> SessionRows] /\ RowsPersist
  BY <1>4 DEF SessionExpires, Active, Stored, Shape, SessionRows, Unborn, RowsPersist
<1>5. CASE sessions' = sessions
  BY <1>5 DEF Shape, RowsPersist
<1> QED
  BY <1>1, <1>2, <1>3, <1>4, <1>5
     DEF Next, SlotStep, StartEnd, CleanFind, Reports, Report, Fail, Handlers, vars

LEMMA NextShape ==
  ASSUME Shape, LeftAreRows, [Next]_vars
  PROVE  Shape'
<1>1. sessions' \in [Sessions -> SessionRows]
  BY NextRows
<1>2. Idle \in Requested
  BY DEF Requested
<1>3. ASSUME NEW h \in Slots, SlotStep(h)
      PROVE  Shape'
  <2>1. h \in Handlers
    BY DEF Handlers
  <2>2. ASSUME NEW pair \in Pairs, StartEnd(h, pair)
        PROVE  Shape'
    <3>1. [pc |-> "create", pair |-> pair, hits |-> ActiveOf(pair)] \in Requested
      BY DEF Requested, ActiveOf
    <3> QED
      BY <1>1, <2>1, <2>2, <3>1, BecomesShape DEF StartEnd, Shape
  <2>3. ASSUME NEW s \in Sessions, StartCreate(h, s)
        PROVE  Shape'
    BY <1>1, <1>2, <2>1, <2>3, BecomesShape DEF StartCreate, Shape
  <2>4. ASSUME NEW s \in Sessions, NEW user \in Users, Stop(h, s, user)
        PROVE  Shape'
    <3>1. [pc |-> "report", left |-> {s}] \in Requested
      BY DEF Requested
    <3> QED
      BY <1>1, <2>1, <2>4, <3>1, BecomesShape DEF Stop, DeleteSession, Shape
  <2> QED
    BY <1>3, <2>2, <2>3, <2>4 DEF SlotStep
<1>4. ASSUME NEW h \in Cleaners, CleanFind(h) \/ CleanDelete(h)
      PROVE  Shape'
  <2>1. h \in Handlers
    BY DEF Handlers
  <2>2. \A found \in SUBSET Expired : [pc |-> "delete", left |-> found] \in Requested
    BY DEF Requested, Expired
  <2>3. CASE CleanFind(h)
    BY <1>1, <2>1, <2>2, <2>3, BecomesShape DEF CleanFind, Shape
  <2>4. CASE CleanDelete(h)
    <3>1. [pc |-> "report", left |-> reqs[h].left] \in Requested
      BY <2>1, <2>4, HandlerShape DEF Requested, CleanDelete
    <3> QED
      BY <1>1, <2>1, <2>4, <3>1, BecomesShape DEF CleanDelete, Shape
  <2> QED
    BY <1>4, <2>3, <2>4
<1>5. ASSUME NEW h \in Handlers, NEW s \in Sessions, Report(h, s)
      PROVE  Shape'
  <2> DEFINE next == IF reqs[h].left = {s} THEN Idle
                     ELSE [reqs[h] EXCEPT !.left = reqs[h].left \ {s}]
  <2>1. next \in Requested
    BY <1>5 DEF Report, Holds, Shape, Requested, Idle
  <2>2. Becomes(h, next) /\ stops' \in [Sessions -> Nat]
    BY <1>5 DEF Report, Shape
  <2> HIDE DEF next
  <2> QED
    BY <1>1, <1>5, <2>1, <2>2, BecomesShape DEF Report, Shape
<1>6. ASSUME NEW h \in Handlers, Fail(h)
      PROVE  Shape'
  <2>1. unsaid' \subseteq Sessions
    BY <1>6, HandlerShape DEF Fail, Shape
  <2> QED
    BY <1>1, <1>2, <1>6, <2>1, BecomesShape DEF Fail, Shape
<1>7. ASSUME (\E s \in Sessions : SessionExpires(s)) \/ UNCHANGED vars
      PROVE  Shape'
  BY <1>1, <1>7 DEF SessionExpires, Shape, vars
<1> QED
  BY <1>3, <1>4, <1>5, <1>6, <1>7 DEF Next, Reports

(* LeftAreRows for one handler record, given the table. *)
LeftIn(r, rows) ==
  /\ r.pc = "delete" => \A s \in r.left : rows[s].status # "unborn"
  /\ r.pc = "report" => \A s \in r.left : rows[s].status = "gone"

LEMMA OneMoves ==
  ASSUME Shape, LeftAreRows, RowsPersist, NEW h \in Handlers, NEW r \in Requested,
         Becomes(h, r), LeftIn(r, sessions')
  PROVE  LeftAreRows'
<1>1. reqs'[h] = r /\ \A q \in Handlers : q # h => reqs'[q] = reqs[q]
  BY BecomesShape
<1>2. ASSUME NEW q \in Handlers
      PROVE  LeftIn(reqs'[q], sessions')
  <2>1. CASE q = h
    BY <1>1, <2>1
  <2>2. CASE q # h
    BY <1>1, <2>2, HandlerShape DEF LeftIn, LeftAreRows, RowsPersist, Holds
  <2> QED
    BY <2>1, <2>2
<1> QED
  BY <1>2 DEF LeftAreRows, LeftIn, Holds

LEMMA NextLeft ==
  ASSUME Shape, LeftAreRows, [Next]_vars
  PROVE  LeftAreRows'
<1>1. RowsPersist /\ Idle \in Requested
  BY NextRows DEF Requested
<1>2. ASSUME NEW h \in Handlers, NEW r \in Requested, Becomes(h, r), r.pc \in {"idle", "create"}
      PROVE  LeftAreRows'
  <2>1. LeftIn(r, sessions')
    BY <1>2 DEF LeftIn
  <2> QED
    BY <1>1, <1>2, <2>1, OneMoves
<1>3. ASSUME NEW h \in Slots, SlotStep(h)
      PROVE  LeftAreRows'
  <2>1. h \in Handlers
    BY DEF Handlers
  <2>2. ASSUME NEW pair \in Pairs, StartEnd(h, pair)
        PROVE  LeftAreRows'
    <3>1. [pc |-> "create", pair |-> pair, hits |-> ActiveOf(pair)] \in Requested
      BY DEF Requested, ActiveOf
    <3> QED
      BY <1>2, <2>1, <2>2, <3>1 DEF StartEnd
  <2>3. ASSUME NEW s \in Sessions, StartCreate(h, s)
        PROVE  LeftAreRows'
    BY <1>1, <1>2, <2>1, <2>3 DEF StartCreate, Idle
  <2>4. ASSUME NEW s \in Sessions, NEW user \in Users, Stop(h, s, user)
        PROVE  LeftAreRows'
    <3> DEFINE r == [pc |-> "report", left |-> {s}]
    <3>1. r \in Requested
      BY DEF Requested
    <3>2. LeftIn(r, sessions')
      BY <2>4 DEF LeftIn, Stop, DeleteSession, Stored, Shape, SessionRows, Unborn
    <3>3. CASE Becomes(h, r)
      BY <1>1, <2>1, <3>1, <3>2, <3>3, OneMoves
    <3>4. CASE reqs' = reqs
      BY <1>1, <3>4, HandlerShape DEF LeftAreRows, RowsPersist, Holds
    <3> QED
      BY <2>4, <3>3, <3>4 DEF Stop, DeleteSession
  <2> QED
    BY <1>3, <2>2, <2>3, <2>4 DEF SlotStep
<1>4. ASSUME NEW h \in Cleaners, CleanFind(h)
      PROVE  LeftAreRows'
  <2>1. PICK found \in SUBSET Expired : Becomes(h, [pc |-> "delete", left |-> found])
    BY <1>4 DEF CleanFind
  <2>2. [pc |-> "delete", left |-> found] \in Requested
    BY DEF Requested, Expired
  <2>3. LeftIn([pc |-> "delete", left |-> found], sessions')
    BY <1>4 DEF LeftIn, CleanFind, Expired, Stored
  <2> QED
    BY <1>1, <2>1, <2>2, <2>3, OneMoves DEF Handlers
<1>5. ASSUME NEW h \in Cleaners, CleanDelete(h)
      PROVE  LeftAreRows'
  <2> DEFINE r == [pc |-> "report", left |-> reqs[h].left]
  <2>1. h \in Handlers /\ reqs[h].left \subseteq Sessions
    BY <1>5, HandlerShape DEF Handlers, CleanDelete
  <2>2. r \in Requested /\ Becomes(h, r)
    BY <1>5, <2>1 DEF Requested, CleanDelete
  <2>3. \A s \in reqs[h].left : sessions'[s].status = "gone"
    BY <1>5, <2>1 DEF CleanDelete, LeftAreRows, Shape, SessionRows, Unborn
  <2>4. LeftIn(r, sessions')
    BY <2>3 DEF LeftIn
  <2> QED
    BY <1>1, <2>1, <2>2, <2>4, OneMoves
<1>6. ASSUME NEW h \in Handlers, NEW s \in Sessions, Report(h, s)
      PROVE  LeftAreRows'
  <2> DEFINE rest == [reqs[h] EXCEPT !.left = reqs[h].left \ {s}]
  <2>1. CASE Becomes(h, Idle)
    BY <1>1, <1>2, <2>1 DEF Idle
  <2>2. CASE Becomes(h, rest)
    <3>1. /\ rest \in Requested /\ rest.pc = "report"
          /\ rest.left \subseteq reqs[h].left
      BY <1>6 DEF Report, Holds, Shape, Requested, Idle
    <3>2. \A t \in reqs[h].left : sessions'[t].status = "gone"
      BY <1>6 DEF Report, LeftAreRows
    <3>3. LeftIn(rest, sessions')
      BY <3>1, <3>2 DEF LeftIn
    <3> HIDE DEF rest
    <3> QED
      BY <1>1, <2>2, <3>1, <3>3, OneMoves
  <2> QED
    BY <1>6, <2>1, <2>2 DEF Report
<1>7. ASSUME NEW h \in Handlers, Fail(h)
      PROVE  LeftAreRows'
  BY <1>1, <1>2, <1>7 DEF Fail, Idle
<1>8. CASE reqs' = reqs
  BY <1>1, <1>8, HandlerShape DEF LeftAreRows, RowsPersist, Holds
<1> QED
  BY <1>3, <1>4, <1>5, <1>6, <1>7, <1>8 DEF Next, Reports, SessionExpires, vars

-----------------------------------------------------------------------------
(* One active session *)

(* An open start of a pair that was never raced will end every session of   *)
(* the pair that is active, and is the only open start of it.               *)
StartsSee ==
  \A h \in Handlers : Holds(h, "create") /\ reqs[h].pair \notin raced =>
    /\ \A s \in Sessions : Active(s) /\ sessions[s].pair = reqs[h].pair => s \in reqs[h].hits
    /\ \A q \in Handlers : Holds(q, "create") /\ reqs[q].pair = reqs[h].pair => q = h

StartInv == StartsSee /\ OneActiveUnlessRaced

(* A start is kept open by the others' steps, or it is the one that begins. *)
LEMMA OpenStarts ==
  ASSUME Shape, LeftAreRows, [Next]_vars, NEW h \in Handlers, Holds(h, "create")'
  PROVE  \/ reqs'[h] = reqs[h]
         \/ h \in Slots /\ StartEnd(h, reqs'[h].pair) /\ reqs'[h].pair \in Pairs
<1>1. Shape'
  BY NextShape
<1>2. ASSUME NEW q \in Handlers, NEW r \in Requested, Becomes(q, r), r.pc # "create"
      PROVE  reqs'[h] = reqs[h]
  BY <1>2, BecomesShape DEF Holds
<1>3. Idle \in Requested /\ Idle.pc # "create"
  BY DEF Requested, Idle
<1>4. ASSUME NEW q \in Handlers, NEW pair \in Pairs, StartEnd(q, pair)
      PROVE  reqs'[h] = reqs[h] \/ (q = h /\ reqs'[h].pair = pair)
  <2>1. [pc |-> "create", pair |-> pair, hits |-> ActiveOf(pair)] \in Requested
    BY DEF Requested, ActiveOf
  <2> QED
    BY <1>4, <2>1, BecomesShape DEF StartEnd
<1>5. ASSUME NEW q \in Handlers, NEW s \in Sessions, StartCreate(q, s)
      PROVE  reqs'[h] = reqs[h]
  BY <1>2, <1>3, <1>5 DEF StartCreate
<1>6. ASSUME NEW q \in Handlers, NEW s \in Sessions, NEW user \in Users, Stop(q, s, user)
      PROVE  reqs'[h] = reqs[h]
  <2>1. [pc |-> "report", left |-> {s}] \in Requested
    BY DEF Requested
  <2> QED
    BY <1>2, <1>6, <2>1 DEF Stop, DeleteSession
<1>7. ASSUME NEW q \in Handlers, CleanFind(q) \/ CleanDelete(q)
      PROVE  reqs'[h] = reqs[h]
  <2>1. \A ss \in SUBSET Sessions : /\ [pc |-> "delete", left |-> ss] \in Requested
                                    /\ [pc |-> "report", left |-> ss] \in Requested
    BY DEF Requested
  <2>2. Expired \subseteq Sessions /\ (Holds(q, "delete") => reqs[q].left \subseteq Sessions)
    BY HandlerShape DEF Expired
  <2>3. CASE CleanFind(q)
    BY <1>2, <2>1, <2>2, <2>3 DEF CleanFind
  <2>4. CASE CleanDelete(q)
    BY <1>2, <2>1, <2>2, <2>4 DEF CleanDelete
  <2> QED
    BY <1>7, <2>3, <2>4
<1>8. ASSUME NEW q \in Handlers, NEW s \in Sessions, Report(q, s)
      PROVE  reqs'[h] = reqs[h]
  <2>1. reqs'[q].pc # "create" /\ \A p \in Handlers : p # q => reqs'[p] = reqs[p]
    BY <1>8 DEF Report, Becomes, Holds, Shape, Requested, Idle
  <2> QED
    BY <2>1 DEF Holds
<1>9. ASSUME NEW q \in Handlers, Fail(q)
      PROVE  reqs'[h] = reqs[h]
  BY <1>2, <1>3, <1>9 DEF Fail
<1>10. CASE reqs' = reqs
  BY <1>10
<1> QED
  BY <1>4, <1>5, <1>6, <1>7, <1>8, <1>9, <1>10
     DEF Next, SlotStep, Reports, SessionExpires, vars, Handlers

(* Only a commit of a start makes a session active.  *)
LEMMA WhoActivates ==
  ASSUME Shape, LeftAreRows, [Next]_vars, NEW s \in Sessions, Active(s)'
  PROVE  \/ Active(s) /\ sessions'[s].pair = sessions[s].pair
         \/ \E h \in Slots : StartCreate(h, s)
<1>1. ASSUME NEW h \in Handlers, NEW t \in Sessions, StartCreate(h, t), s # t
      PROVE  Active(s) /\ sessions'[s].pair = sessions[s].pair
  BY <1>1, CreateRows DEF Active, Stored, Shape, SessionRows, Unborn
<1>2. ASSUME NEW h \in Handlers, NEW t \in Sessions, NEW user \in Users, Stop(h, t, user)
      PROVE  Active(s) /\ sessions'[s].pair = sessions[s].pair
  BY <1>2 DEF Stop, DeleteSession, Active, Stored, Shape, SessionRows, Unborn
<1>3. ASSUME NEW h \in Handlers, CleanDelete(h)
      PROVE  Active(s) /\ sessions'[s].pair = sessions[s].pair
  BY <1>3 DEF CleanDelete, LeftAreRows, Active, Stored, Shape, SessionRows, Unborn
<1>4. ASSUME NEW t \in Sessions, SessionExpires(t)
      PROVE  Active(s) /\ sessions'[s].pair = sessions[s].pair
  BY <1>4 DEF SessionExpires, Active, Stored, Shape, SessionRows, Unborn
<1>5. CASE sessions' = sessions
  BY <1>5 DEF Active, Stored
<1> QED
  BY <1>1, <1>2, <1>3, <1>4, <1>5
     DEF Next, SlotStep, StartEnd, CleanFind, Reports, Report, Fail, Handlers, vars

LEMMA BeginKeepsStarts ==
  ASSUME Shape, StartInv, NEW h \in Handlers, NEW pair \in Pairs, StartEnd(h, pair)
  PROVE  StartInv'
<1> DEFINE r == [pc |-> "create", pair |-> pair, hits |-> ActiveOf(pair)]
<1>1. r \in Requested
  BY DEF Requested, ActiveOf
<1>2. reqs'[h] = r /\ \A q \in Handlers : q # h => reqs'[q] = reqs[q]
  BY <1>1, BecomesShape DEF StartEnd
<1>3. /\ sessions' = sessions /\ raced \subseteq raced'
      /\ (\E q \in Handlers : Holds(q, "create") /\ reqs[q].pair = pair) => pair \in raced'
  BY DEF StartEnd
<1>4. OneActiveUnlessRaced'
  BY <1>3 DEF StartInv, OneActiveUnlessRaced, Active, Stored
<1>5. ASSUME NEW k \in Handlers, Holds(k, "create")', reqs'[k].pair \notin raced'
      PROVE  /\ \A s \in Sessions : Active(s)' /\ sessions'[s].pair = reqs'[k].pair => s \in reqs'[k].hits
             /\ \A q \in Handlers : Holds(q, "create")' /\ reqs'[q].pair = reqs'[k].pair => q = k
  <2>1. CASE k = h
    BY <1>2, <1>3, <1>5, <2>1 DEF ActiveOf, Active, Stored, Holds
  <2>2. CASE k # h
    <3>1. Holds(k, "create") /\ reqs'[k] = reqs[k] /\ reqs[k].pair # pair
      BY <1>2, <1>3, <1>5, <2>2 DEF Holds
    <3> QED
      BY <1>2, <1>3, <1>5, <3>1 DEF StartInv, StartsSee, Active, Stored, Holds
  <2> QED
    BY <2>1, <2>2
<1> QED
  BY <1>4, <1>5 DEF StartInv, StartsSee

LEMMA CommitKeepsStarts ==
  ASSUME Shape, LeftAreRows, StartInv, [Next]_vars,
         NEW h \in Slots, NEW s \in Sessions, StartCreate(h, s)
  PROVE  StartInv'
<1> DEFINE p == reqs[h].pair
<1>1. h \in Handlers /\ Idle \in Requested /\ Idle.pc = "idle"
  BY DEF Handlers, Requested, Idle
<1>2. reqs'[h] = Idle /\ \A q \in Handlers : q # h => reqs'[q] = reqs[q]
  BY <1>1, BecomesShape DEF StartCreate
<1>3. Holds(h, "create") /\ raced' = raced
  BY DEF StartCreate
<1>4. sessions'[s].pair = p
  BY DEF StartCreate
<1>5. ASSUME NEW t \in Sessions, Active(t)', t # s
      PROVE  /\ Active(t) /\ sessions'[t].pair = sessions[t].pair
             /\ t \notin reqs[h].hits
  <2>1. /\ sessions[t].status = "stored" /\ sessions[t].expired \in BOOLEAN
        /\ sessions'[t].pair = sessions[t].pair
        /\ sessions'[t].expired = (sessions[t].expired \/ t \in reqs[h].hits)
    BY <1>1, <1>5, CreateRows, RowShape, ZenonT(40) DEF Active, Stored
  <2>2. ~ sessions'[t].expired
    BY <1>5 DEF Active
  <2> QED
    BY <2>1, <2>2 DEF Active, Stored
<1>6. ASSUME NEW t \in Sessions, NEW u \in Sessions, Active(t)', Active(u)',
             sessions'[t].pair = sessions'[u].pair, sessions'[t].pair \notin raced
      PROVE  t = u
  <2>1. CASE t # s /\ u # s
    BY <1>5, <1>6, <2>1 DEF StartInv, OneActiveUnlessRaced
  <2>2. ASSUME NEW v \in Sessions, Active(v)', v # s, sessions'[v].pair = p, p \notin raced
        PROVE  FALSE
    BY <1>1, <1>3, <1>5, <2>2 DEF StartInv, StartsSee
  <2> QED
    BY <1>4, <1>6, <2>1, <2>2
<1>7. ASSUME NEW k \in Handlers, Holds(k, "create")', reqs'[k].pair \notin raced'
      PROVE  /\ \A t \in Sessions : Active(t)' /\ sessions'[t].pair = reqs'[k].pair => t \in reqs'[k].hits
             /\ \A q \in Handlers : Holds(q, "create")' /\ reqs'[q].pair = reqs'[k].pair => q = k
  <2>1. k # h /\ reqs'[k] = reqs[k] /\ Holds(k, "create") /\ reqs[k].pair \notin raced
    BY <1>1, <1>2, <1>3, <1>7 DEF Holds
  <2>2. reqs[k].pair # p
    BY <1>1, <1>3, <2>1 DEF StartInv, StartsSee
  <2>3. ASSUME NEW t \in Sessions, Active(t)', sessions'[t].pair = reqs[k].pair
        PROVE  t \in reqs[k].hits
    BY <1>4, <1>5, <2>1, <2>2, <2>3 DEF StartInv, StartsSee
  <2>4. ASSUME NEW q \in Handlers, Holds(q, "create")', reqs'[q].pair = reqs[k].pair
        PROVE  q = k
    BY <1>1, <1>2, <2>1, <2>4 DEF StartInv, StartsSee, Holds
  <2> QED
    BY <2>1, <2>3, <2>4
<1> QED
  BY <1>3, <1>6, <1>7 DEF StartInv, StartsSee, OneActiveUnlessRaced

LEMMA NextStarts ==
  ASSUME Shape, LeftAreRows, StartInv, [Next]_vars
  PROVE  StartInv'
<1>1. ASSUME NEW h \in Slots, NEW pair \in Pairs, StartEnd(h, pair)
      PROVE  StartInv'
  BY <1>1, BeginKeepsStarts DEF Handlers
<1>2. ASSUME NEW h \in Slots, NEW s \in Sessions, StartCreate(h, s)
      PROVE  StartInv'
  BY <1>2, CommitKeepsStarts
<1>3. ASSUME \A h \in Slots, s \in Sessions : ~ StartCreate(h, s),
             \A h \in Slots, pair \in Pairs : ~ StartEnd(h, pair)
      PROVE  StartInv'
  <2>1. raced' = raced
    BY <1>3 DEF Next, SlotStep, Stop, DeleteSession, CleanFind, CleanDelete, Reports, Report,
       Fail, SessionExpires, vars
  <2>2. \A h \in Handlers : Holds(h, "create")' => Holds(h, "create") /\ reqs'[h] = reqs[h]
    BY <1>3, OpenStarts DEF Holds
  <2>3. \A s \in Sessions : Active(s)' => Active(s) /\ sessions'[s].pair = sessions[s].pair
    BY <1>3, WhoActivates
  <2>4. StartsSee'
    BY <2>1, <2>2, <2>3 DEF StartInv, StartsSee
  <2>5. OneActiveUnlessRaced'
    BY <2>1, <2>3 DEF StartInv, OneActiveUnlessRaced
  <2> QED
    BY <2>4, <2>5 DEF StartInv
<1> QED
  BY <1>1, <1>2, <1>3

LEMMA InitRows == Init => Shape /\ LeftAreRows
BY DEF Init, Shape, LeftAreRows, SessionRows, Requested, Unborn, Idle, Holds

(* An administrator has one active session with a user, unless two starts   *)
(* of the pair overlapped, however many requests, users and clean-ups there *)
(* are and whichever of them fail.                                          *)
THEOREM OneActiveButForRaces == Spec => []OneActiveUnlessRaced
<1> DEFINE Inv == Shape /\ LeftAreRows /\ StartInv
<1>1. Init => Inv
  BY InitRows DEF Init, StartInv, StartsSee, OneActiveUnlessRaced, Active, Stored, Holds, Idle,
     Unborn
<1>2. Inv /\ [Next]_vars => Inv'
  BY NextShape, NextLeft, NextStarts
<1>3. Inv => OneActiveUnlessRaced
  BY DEF StartInv
<1> QED
  BY <1>1, <1>2, <1>3, PTL DEF Spec

-----------------------------------------------------------------------------
(* The ends of sessions and the audit log *)

Reporting(h, s) == Holds(h, "report") /\ s \in reqs[h].left

(* What a handler has left to report it keeps, reports, or gives up. *)
LEMMA ReportsAreKept ==
  ASSUME Shape, LeftAreRows, [Next]_vars, NEW h \in Handlers, NEW s \in Sessions, Reporting(h, s)
  PROVE  Reporting(h, s)' \/ stops'[s] > 0 \/ s \in unsaid'
<1> USE DEF Holds, Reporting
<1>1. ASSUME NEW t \in Sessions, Report(h, t)
      PROVE  Reporting(h, s)' \/ stops'[s] > 0
  <2>1. stops[s] \in Nat
    BY DEF Shape
  <2>2. CASE s = t
    BY <1>1, <2>1, <2>2 DEF Report, Shape
  <2>3. CASE s # t
    BY <1>1, <2>3 DEF Report, Becomes, Shape, Requested, Idle
  <2> QED
    BY <2>2, <2>3
<1>2. ASSUME Fail(h)
      PROVE  s \in unsaid'
  BY <1>2 DEF Fail
<1>3. ASSUME NEW q \in Handlers, q # h, NEW r, Becomes(q, r)
      PROVE  Reporting(h, s)'
  BY <1>3 DEF Becomes, Shape
<1>4. ASSUME NEW q \in Slots, SlotStep(q)
      PROVE  Reporting(h, s)'
  <2>1. q # h /\ q \in Handlers
    BY <1>4 DEF SlotStep, StartEnd, StartCreate, Stop, DeleteSession, Handlers
  <2> QED
    BY <1>3, <1>4, <2>1 DEF SlotStep, StartEnd, StartCreate, Stop, DeleteSession
<1>5. ASSUME NEW q \in Cleaners, CleanFind(q) \/ CleanDelete(q)
      PROVE  Reporting(h, s)'
  <2>1. q # h /\ q \in Handlers
    BY <1>5 DEF CleanFind, CleanDelete, Handlers
  <2> QED
    BY <1>3, <1>5, <2>1 DEF CleanFind, CleanDelete
<1>6. ASSUME NEW q \in Handlers, q # h, Reports(q) \/ Fail(q)
      PROVE  Reporting(h, s)'
  BY <1>3, <1>6 DEF Reports, Report, Fail
<1>7. ASSUME (\E t \in Sessions : SessionExpires(t)) \/ UNCHANGED vars
      PROVE  Reporting(h, s)'
  BY <1>7 DEF SessionExpires, vars
<1> QED
  BY <1>1, <1>2, <1>4, <1>5, <1>6, <1>7 DEF Next, Reports

(* Nobody takes back a stop event, or that an end was given up. *)
LEMMA ToldForGood ==
  ASSUME Shape, [Next]_vars
  PROVE  /\ unsaid \subseteq unsaid'
         /\ \A s \in Sessions : stops[s] > 0 => stops'[s] > 0
         /\ \A s \in Sessions : stops'[s] # stops[s] => \E h \in Handlers : Report(h, s)
<1>1. ASSUME NEW h \in Handlers, NEW t \in Sessions, Report(h, t)
      PROVE  \A s \in Sessions : /\ stops[s] > 0 => stops'[s] > 0
                                 /\ stops'[s] # stops[s] => s = t
  BY <1>1 DEF Report, Shape
<1>2. (\A h \in Handlers, s \in Sessions : ~ Report(h, s)) => stops' = stops
  BY DEF Next, SlotStep, StartEnd, StartCreate, Stop, DeleteSession, CleanFind, CleanDelete,
     Reports, Fail, SessionExpires, vars
<1>3. unsaid \subseteq unsaid'
  BY DEF Next, SlotStep, StartEnd, StartCreate, Stop, DeleteSession, CleanFind, CleanDelete,
     Reports, Report, Fail, SessionExpires, vars
<1> QED
  BY <1>1, <1>2, <1>3

(* Who deletes a row reports it, or is a stop under another user's path. *)
LEMMA WhoDeletes ==
  ASSUME Shape, LeftAreRows, [Next]_vars, NEW s \in Sessions,
         sessions[s].status # "gone", sessions'[s].status = "gone"
  PROVE  s \in unsaid' \/ \E h \in Handlers : Reporting(h, s)'
<1> USE DEF Holds, Reporting
<1>1. ASSUME NEW h \in Handlers, NEW t \in Sessions, NEW user \in Users, Stop(h, t, user)
      PROVE  s \in unsaid' \/ Reporting(h, s)'
  <2>1. s = t
    BY <1>1 DEF Stop, DeleteSession, Shape
  <2> QED
    BY <1>1, <2>1 DEF Stop, DeleteSession, Becomes, Shape
<1>2. ASSUME NEW h \in Handlers, CleanDelete(h)
      PROVE  Reporting(h, s)'
  <2>1. s \in reqs[h].left
    BY <1>2 DEF CleanDelete
  <2> QED
    BY <1>2, <2>1 DEF CleanDelete, Becomes, Shape
<1>3. ASSUME NEW h \in Handlers, NEW t \in Sessions, StartCreate(h, t)
      PROVE  FALSE
  <2>1. s = t => sessions'[s].status = "stored"
    BY <1>3 DEF StartCreate
  <2>2. s # t => sessions'[s].status = sessions[s].status
    BY <1>3, CreateRows
  <2> QED
    BY <2>1, <2>2
<1>4. ASSUME NEW t \in Sessions, SessionExpires(t)
      PROVE  FALSE
  BY <1>4 DEF SessionExpires, Active, Stored, Shape, SessionRows, Unborn
<1> QED
  BY <1>1, <1>2, <1>3, <1>4 DEF Next, SlotStep, StartEnd, CleanFind, Reports, Report, Fail,
     Handlers, vars

LEMMA NextEnds ==
  ASSUME Shape, LeftAreRows, EndsAreTold, [Next]_vars
  PROVE  EndsAreTold'
<1>1. ASSUME NEW s \in Sessions, sessions'[s].status = "gone"
      PROVE  stops'[s] > 0 \/ s \in unsaid' \/ \E h \in Handlers : Reporting(h, s)'
  <2>1. CASE sessions[s].status = "gone"
    <3>1. stops[s] > 0 \/ s \in unsaid \/ \E h \in Handlers : Reporting(h, s)
      BY <2>1 DEF EndsAreTold, EndsAreRecorded, Reporting
    <3> QED
      BY <3>1, ReportsAreKept, ToldForGood
  <2>2. CASE sessions[s].status # "gone"
    BY <1>1, <2>2, WhoDeletes
  <2> QED
    BY <2>1, <2>2
<1>2. ASSUME NEW s \in Sessions, stops'[s] > 0
      PROVE  sessions'[s].status = "gone"
  <2>1. sessions[s].status = "gone"
    <3>1. CASE stops'[s] = stops[s]
      BY <1>2, <3>1 DEF EndsAreTold, ReportedIsOver
    <3>2. ASSUME NEW h \in Handlers, Report(h, s)
          PROVE  sessions[s].status = "gone"
      BY <3>2 DEF Report, LeftAreRows
    <3> QED
      BY <3>1, <3>2, ToldForGood
  <2> QED
    BY <2>1, NextRows DEF RowsPersist
<1> QED
  BY <1>1, <1>2 DEF EndsAreTold, EndsAreRecorded, ReportedIsOver, Reporting

(* The table and the audit log agree about which sessions have ended: what  *)
(* is gone was reported, is being reported or was given up, and what was    *)
(* reported is gone for good.                                               *)
THEOREM EndsAreToldAlways == Spec => []EndsAreTold
<1> DEFINE Inv == Shape /\ LeftAreRows /\ EndsAreTold
<1>1. Init => Inv
  BY InitRows DEF Init, EndsAreTold, EndsAreRecorded, ReportedIsOver, Unborn
<1>2. Inv /\ [Next]_vars => Inv'
  BY NextShape, NextLeft, NextEnds
<1>3. Inv => EndsAreTold
  OBVIOUS
<1> QED
  BY <1>1, <1>2, <1>3, PTL DEF Spec

-----------------------------------------------------------------------------
(* How often an end can be reported *)

(* The handlers that will still report the end of a session. *)
Coming(s) == {h \in Handlers : reqs[h].pc \in {"delete", "report"} /\ s \in reqs[h].left}

(* A session has a stop event of each handler at most: one that finds it is *)
(* done with it when it has reported, for the row is gone by then.          *)
StopsBound ==
  \A s \in Sessions : stops[s] + Cardinality(Coming(s)) <= Cardinality(Handlers)

(* Only a session that is stored can be found, by a clean-up or a stop. *)
LEMMA WhoComes ==
  ASSUME Shape, [Next]_vars, NEW s \in Sessions, NEW h \in Handlers, h \in Coming(s)'
  PROVE  h \in Coming(s) \/ Stored(s)
<1> USE DEF Holds, Coming
<1>1. ASSUME NEW q \in Handlers, NEW pair \in Pairs, StartEnd(q, pair)
      PROVE  h \in Coming(s)
  BY <1>1 DEF StartEnd, Becomes, Shape
<1>2. ASSUME NEW q \in Handlers, NEW t \in Sessions, StartCreate(q, t)
      PROVE  h \in Coming(s)
  BY <1>2 DEF StartCreate, Becomes, Shape, Idle
<1>3. ASSUME NEW q \in Handlers, NEW t \in Sessions, NEW user \in Users, Stop(q, t, user)
      PROVE  h \in Coming(s) \/ Stored(s)
  BY <1>3 DEF Stop, DeleteSession, Becomes, Shape
<1>4. ASSUME NEW q \in Handlers, CleanFind(q)
      PROVE  h \in Coming(s) \/ Stored(s)
  BY <1>4 DEF CleanFind, Becomes, Shape, Expired
<1>5. ASSUME NEW q \in Handlers, CleanDelete(q)
      PROVE  h \in Coming(s)
  BY <1>5 DEF CleanDelete, Becomes, Shape
<1>6. ASSUME NEW q \in Handlers, NEW t \in Sessions, Report(q, t)
      PROVE  h \in Coming(s)
  BY <1>6 DEF Report, Becomes, Shape, Requested, Idle
<1>7. ASSUME NEW q \in Handlers, Fail(q)
      PROVE  h \in Coming(s)
  BY <1>7 DEF Fail, Becomes, Shape, Idle
<1>8. CASE reqs' = reqs
  BY <1>8
<1> QED
  BY <1>1, <1>2, <1>3, <1>4, <1>5, <1>6, <1>7, <1>8
     DEF Next, SlotStep, Reports, SessionExpires, vars, Handlers

LEMMA NextStopsBound ==
  ASSUME IsFiniteSet(Handlers), Shape, LeftAreRows, EndsAreTold, StopsBound, [Next]_vars
  PROVE  StopsBound'
<1> SUFFICES ASSUME NEW s \in Sessions
             PROVE  stops'[s] + Cardinality(Coming(s)') <= Cardinality(Handlers)
  BY DEF StopsBound
<1>1. /\ Coming(s) \subseteq Handlers /\ Coming(s)' \subseteq Handlers
      /\ IsFiniteSet(Coming(s)) /\ IsFiniteSet(Coming(s)')
  BY FS_Subset DEF Coming
<1>2. /\ Cardinality(Coming(s)) \in Nat /\ Cardinality(Coming(s)') \in Nat
      /\ Cardinality(Handlers) \in Nat /\ stops[s] \in Nat
      /\ Cardinality(Coming(s)') <= Cardinality(Handlers)
  BY <1>1, FS_CardinalityType, FS_Subset DEF Shape
<1>3. stops[s] + Cardinality(Coming(s)) <= Cardinality(Handlers)
  BY DEF StopsBound
<1>4. ASSUME NEW h \in Handlers, Report(h, s)
      PROVE  stops'[s] + Cardinality(Coming(s)') <= Cardinality(Handlers)
  <2>1. stops'[s] = stops[s] + 1 /\ h \in Coming(s)
    BY <1>4 DEF Report, Shape, Coming, Holds
  <2>2. Coming(s)' \subseteq Coming(s) \ {h}
    BY <1>4 DEF Report, Becomes, Coming, Shape, Requested, Idle, Holds
  <2>3. IsFiniteSet(Coming(s) \ {h}) /\ Cardinality(Coming(s) \ {h}) = Cardinality(Coming(s)) - 1
    BY <1>1, <2>1, FS_RemoveElement
  <2>4. Cardinality(Coming(s)') <= Cardinality(Coming(s)) - 1
    BY <2>2, <2>3, FS_Subset
  <2> QED
    BY <1>2, <1>3, <2>1, <2>4
<1>5. CASE stops'[s] = stops[s] /\ Stored(s)
  <2>1. stops[s] = 0
    BY <1>2, <1>5 DEF EndsAreTold, ReportedIsOver, Stored
  <2> QED
    BY <1>2, <1>5, <2>1
<1>6. CASE stops'[s] = stops[s] /\ ~ Stored(s)
  <2>1. Coming(s)' \subseteq Coming(s)
    BY <1>1, <1>6, WhoComes
  <2>2. Cardinality(Coming(s)') <= Cardinality(Coming(s))
    BY <1>1, <2>1, FS_Subset
  <2> QED
    BY <1>2, <1>3, <1>6, <2>2
<1> QED
  BY <1>4, <1>5, <1>6, ToldForGood

(* The table, the handlers and the audit log keep their shapes; with a      *)
(* finite number of handlers no end is reported more often than that.       *)
THEOREM ImpersonationTypesHold ==
  ASSUME IsFiniteSet(Handlers)
  PROVE  Spec => []TypeOK
<1> DEFINE Inv == Shape /\ LeftAreRows /\ EndsAreTold /\ StopsBound
<1>1. Init => Inv
  <2> SUFFICES ASSUME Init
               PROVE  Inv
    OBVIOUS
  <2>1. \A s \in Sessions : Coming(s) = {} /\ stops[s] = 0
    BY DEF Init, Coming, Idle
  <2>2. StopsBound
    BY <2>1, FS_EmptySet, FS_CardinalityType DEF StopsBound
  <2> QED
    BY <2>2, InitRows DEF Init, EndsAreTold, EndsAreRecorded, ReportedIsOver, Unborn
<1>2. Inv /\ [Next]_vars => Inv'
  BY NextShape, NextLeft, NextEnds, NextStopsBound
<1>3. Inv => TypeOK
  <2> SUFFICES ASSUME Shape, StopsBound
               PROVE  TypeOK
    OBVIOUS
  <2>1. ASSUME NEW s \in Sessions
        PROVE  stops[s] \in 0..Cardinality(Handlers)
    <3>1. IsFiniteSet(Coming(s))
      BY FS_Subset DEF Coming
    <3>2. Cardinality(Coming(s)) \in Nat /\ Cardinality(Handlers) \in Nat /\ stops[s] \in Nat
      BY <3>1, FS_CardinalityType DEF Shape
    <3>3. stops[s] + Cardinality(Coming(s)) <= Cardinality(Handlers)
      BY DEF StopsBound
    <3> QED
      BY <3>2, <3>3
  <2>2. stops \in [Sessions -> 0..Cardinality(Handlers)]
    BY <2>1 DEF Shape
  <2> QED
    BY <2>2 DEF Shape, Requested, TypeOK
<1> QED
  BY <1>1, <1>2, <1>3, PTL DEF Spec
-----------------------------------------------------------------------------
(* The console's banner, over a table and handlers of its own               *)

CONSTANTS Tabs, NoTab, MaxSessions, Calls, MaxReloads, MaxFailures
VARIABLES table, due, storage, tabs, calls, reloads, failures, told, excuses

Console == INSTANCE ImpersonationConsole WITH sessions <- table

Numbers == 1..MaxSessions
Numbered == [state: {"active", "over", "gone"}, user: Users]
Born(s) == s \in Numbers /\ table[s] \in Numbered
Nothing == 0

Starting(k) == calls[k].what = "start"
Stopping(k) == calls[k].what = "stop"

StartCalls == [what: {"start"}, tab: Tabs \cup {NoTab}, user: Users, session: {Nothing} \cup Numbers,
               served: BOOLEAN]
StopCalls == [what: {"stop"}, tab: Tabs \cup {NoTab}, session: Numbers, served: BOOLEAN]
TabStates == [shown: {Nothing} \cup Numbers, zero: BOOLEAN, stopping: BOOLEAN, error: BOOLEAN]

(* Whatever is told, stored, shown or being stopped is a session.           *)
ConsoleShape ==
  /\ table \in [Numbers -> {Console!Unborn} \cup Numbered]
  /\ tabs \in [Tabs -> TabStates]
  /\ calls \in [Calls -> {Console!Idle} \cup StartCalls \cup StopCalls]
  /\ \A s \in due : Born(s)
  /\ \A s \in told : Born(s)
  /\ storage = Nothing \/ Born(storage)
  /\ \A tab \in Tabs : tabs[tab].shown = Nothing \/ Born(tabs[tab].shown)
  /\ \A k \in Calls : Stopping(k) \/ (Starting(k) /\ calls[k].served) => Born(calls[k].session)

(* A session in force has time left, and is not one whose stop was served.  *)
InForce ==
  \A s \in Numbers : Console!Active(s) =>
    /\ s \notin due
    /\ \A k \in Calls : Stopping(k) /\ calls[k].served => calls[k].session # s

(* One start at a time: before it is served nothing is in force and there   *)
(* is a number left, afterwards nothing but what it made.                   *)
OneStart ==
  /\ \A j, k \in Calls : Starting(j) /\ Starting(k) => j = k
  /\ \A k \in Calls : Starting(k) =>
       /\ ~ calls[k].served => \E s \in Numbers : table[s] = Console!Unborn
       /\ \A s \in Numbers : Console!Active(s) => calls[k].served /\ s = calls[k].session

(* What a tab was told of and is in force is stored and shown.              *)
StoredAndShown ==
  \A s \in told : Console!Active(s) => storage = s /\ \E tab \in Tabs : tabs[tab].shown = s

ConsoleInv == ConsoleShape /\ InForce /\ OneStart /\ StoredAndShown

LEMMA CallsInFlight ==
  ASSUME ConsoleShape, NEW k \in Calls
  PROVE  /\ calls[k] = Console!Idle \/ calls[k] \in StartCalls \/ calls[k] \in StopCalls
         /\ calls[k].what \in {"nothing", "start", "stop"}
         /\ calls[k] = Console!Idle <=> calls[k].what = "nothing"
         /\ Starting(k) <=> calls[k] \in StartCalls
         /\ Stopping(k) <=> calls[k] \in StopCalls
BY DEF ConsoleShape, Console!Idle, Starting, Stopping, StartCalls, StopCalls

LEMMA RowsOfTheTable ==
  ASSUME ConsoleShape, NEW s \in Numbers
  PROVE  /\ ~ Born(s) <=> table[s] = Console!Unborn
         /\ Console!Active(s) => Born(s)
BY DEF ConsoleShape, Born, Numbered, Console!Unborn, Console!Active

LEMMA ConsoleBegins == Console!Init => ConsoleInv
BY DEF Console!Init, ConsoleInv, ConsoleShape, InForce, OneStart, StoredAndShown, Console!SessionIds,
       Numbers, Console!Unborn, Console!Active, Console!Idle, Console!Fresh, Console!None, Nothing,
       Starting, Stopping, TabStates

(* The instance has the operators of FiniteSets as its own.                 *)
LEMMA SameCardinality ==
  ASSUME NEW S
  PROVE  Console!Cardinality(S) = Cardinality(S)
BY DEF Cardinality, Console!Cardinality

(* Steps after which the table is what it was. *)
LEMMA SameTable ==
  ASSUME table' = table
  PROVE  /\ \A s : Born(s)' <=> Born(s)
         /\ \A s : Console!Active(s)' <=> Console!Active(s)
BY DEF Born, Console!Active

(* A step of one call. *)
LEMMA OneCall ==
  ASSUME ConsoleShape, NEW k \in Calls, NEW call \in {Console!Idle} \cup StartCalls \cup StopCalls,
         Console!Becomes(k, call)
  PROVE  /\ calls'[k] = call
         /\ \A j \in Calls : j # k => calls'[j] = calls[j]
         /\ calls' \in [Calls -> {Console!Idle} \cup StartCalls \cup StopCalls]
BY DEF ConsoleShape, Console!Becomes

LEMMA StartsOnce ==
  ASSUME ConsoleInv, NEW k \in Calls, NEW tab \in Tabs, NEW user \in Users,
         Console!Start(k, tab, user), excuses' = {}
  PROVE  ConsoleInv'
<1> DEFINE call == [what |-> "start", tab |-> tab, user |-> user, session |-> Nothing, served |-> FALSE]
<1>0. ConsoleShape /\ InForce
  BY DEF ConsoleInv
<1>1. /\ calls'[k] = call
      /\ \A j \in Calls : j # k => calls'[j] = calls[j]
      /\ calls' \in [Calls -> {Console!Idle} \cup StartCalls \cup StopCalls]
  <2>1. call \in StartCalls
    BY DEF StartCalls
  <2>2. Console!Becomes(k, call)
    BY DEF Console!Start, Console!None, Nothing
  <2> HIDE DEF call
  <2> QED
    BY <1>0, <2>1, <2>2, OneCall
<1>2. ConsoleShape' /\ InForce'
  BY <1>0, <1>1, SameTable DEF Console!Start, ConsoleShape, InForce, Stopping, Starting
<1>3. OneStart' /\ StoredAndShown'
  <2>1. /\ \A j \in Calls : ~ Starting(j)
        /\ \A s \in Numbers : ~ Console!Active(s)
    BY DEF Console!Start, Starting, Console!SessionIds, Numbers
  <2>2. \E s \in Numbers : table[s] = Console!Unborn
    <3> DEFINE free == {s \in Console!SessionIds : table[s] = Console!Unborn}
               unserved == {j \in Calls : calls[j].what = "start" /\ ~ calls[j].served}
    <3>1. unserved = {}
      BY <2>1 DEF Starting
    <3>2. Console!Cardinality(free) > Console!Cardinality(unserved)
      BY DEF Console!Start
    <3> HIDE DEF unserved
    <3>3. Cardinality(unserved) = 0
      BY <3>1, FS_EmptySet
    <3>4. free # {}
      <4> HIDE DEF free
      <4> QED
        BY <3>2, <3>3, SameCardinality, FS_EmptySet
    <3> QED
      BY <3>4 DEF Console!SessionIds, Numbers
  <2>3. OneStart'
    BY <1>1, <2>1, <2>2, SameTable DEF OneStart, Console!Start, Starting
  <2>4. StoredAndShown'
    BY <1>0, <2>1, SameTable DEF StoredAndShown, Console!Start, ConsoleShape, Born
  <2> QED
    BY <2>3, <2>4
<1> QED
  BY <1>2, <1>3 DEF ConsoleInv

LEMMA ReloadsFromStorage ==
  ASSUME ConsoleInv, NEW tab \in Tabs, Console!Reload(tab)
  PROVE  ConsoleInv'
<1>0. ConsoleShape /\ InForce
  BY DEF ConsoleInv
<1>1. \A k \in Calls : \/ calls'[k] = calls[k]
                       \/ calls'[k] = [calls[k] EXCEPT !.tab = NoTab] /\ calls[k] # Console!Idle
  BY DEF Console!Reload
<1>2. \A k \in Calls : /\ calls'[k] \in {Console!Idle} \cup StartCalls \cup StopCalls
                       /\ Starting(k)' <=> Starting(k)
                       /\ Stopping(k)' <=> Stopping(k)
                       /\ Starting(k) \/ Stopping(k) =>
                            calls'[k].served = calls[k].served /\ calls'[k].session = calls[k].session
  <2> SUFFICES ASSUME NEW k \in Calls
               PROVE  /\ calls'[k] \in {Console!Idle} \cup StartCalls \cup StopCalls
                      /\ Starting(k)' <=> Starting(k)
                      /\ Stopping(k)' <=> Stopping(k)
                      /\ Starting(k) \/ Stopping(k) =>
                           calls'[k].served = calls[k].served /\ calls'[k].session = calls[k].session
    OBVIOUS
  <2>1. calls[k] \in {Console!Idle} \cup StartCalls \cup StopCalls
    BY <1>0 DEF ConsoleShape
  <2>2. CASE calls'[k] = calls[k]
    BY <2>1, <2>2 DEF Starting, Stopping
  <2>3. CASE calls'[k] = [calls[k] EXCEPT !.tab = NoTab] /\ calls[k] # Console!Idle
    BY <2>1, <2>3 DEF Starting, Stopping, StartCalls, StopCalls
  <2> QED
    BY <1>1, <2>2, <2>3
<1>3. storage' = storage \/ (storage' = Nothing /\ storage \in due)
  BY DEF Console!Reload, Console!Stored, Console!None, Nothing
<1>4. /\ tabs'[tab] = [shown |-> storage', zero |-> FALSE, stopping |-> FALSE, error |-> FALSE]
      /\ \A t \in Tabs : t # tab => tabs'[t] = tabs[t]
      /\ tabs' = [tabs EXCEPT ![tab] = tabs'[tab]]
  BY <1>0 DEF Console!Reload, ConsoleShape, Console!Fresh
<1>5. ConsoleShape'
  <2>1. storage' = Nothing \/ Born(storage')
    BY <1>0, <1>3 DEF ConsoleShape
  <2>2. tabs' \in [Tabs -> TabStates]
    <3>1. tabs'[tab] \in TabStates
      BY <1>4, <2>1 DEF TabStates, Born
    <3> QED
      BY <1>0, <1>4, <3>1 DEF ConsoleShape
  <2>3. calls' \in [Calls -> {Console!Idle} \cup StartCalls \cup StopCalls]
    BY <1>2 DEF Console!Reload
  <2>4. \A t \in Tabs : tabs'[t].shown = Nothing \/ Born(tabs'[t].shown)
    BY <1>0, <1>4, <2>1 DEF ConsoleShape
  <2> QED
    BY <1>0, <1>2, <2>1, <2>2, <2>3, <2>4, SameTable DEF Console!Reload, ConsoleShape
<1>6. InForce'
  BY <1>0, <1>2, SameTable DEF Console!Reload, InForce, Numbers
<1>7. OneStart' /\ StoredAndShown'
  <2>0. OneStart /\ StoredAndShown
    BY DEF ConsoleInv
  <2>1. OneStart'
    BY <1>2, <2>0, SameTable DEF Console!Reload, OneStart
  <2>2. ASSUME NEW s \in told, Console!Active(s)
        PROVE  storage' = s /\ \E t \in Tabs : tabs'[t].shown = s
    <3>1. storage = s /\ s \in Numbers
      BY <1>0, <2>0, <2>2 DEF StoredAndShown, ConsoleShape, Born
    <3>2. storage' = s
      BY <1>0, <1>3, <2>2, <3>1 DEF InForce
    <3> QED
      BY <1>4, <3>2
  <2>3. StoredAndShown'
    BY <2>2, SameTable DEF StoredAndShown, Console!Reload
  <2> QED
    BY <2>1, <2>3
<1> QED
  BY <1>5, <1>6, <1>7 DEF ConsoleInv

(* The button and the countdown ask for a stop of what the tab shows.       *)
LEMMA StopsAreAsked ==
  ASSUME ConsoleInv, NEW k \in Calls, NEW tab \in Tabs, Console!Press(k, tab) \/ Console!Tick(k, tab)
  PROVE  ConsoleInv'
<1> DEFINE call == [what |-> "stop", tab |-> tab, session |-> tabs[tab].shown, served |-> FALSE]
<1>0. ConsoleShape /\ InForce /\ UNCHANGED <<table, due, storage, told, excuses>>
  BY DEF ConsoleInv, Console!Press, Console!Tick
<1>1. Born(tabs[tab].shown)
  BY <1>0 DEF ConsoleShape, Console!Press, Console!Tick, Console!None, Nothing
<1>2. /\ calls' = calls \/ calls'[k] = call
      /\ \A j \in Calls : j # k => calls'[j] = calls[j]
      /\ calls' \in [Calls -> {Console!Idle} \cup StartCalls \cup StopCalls]
  <2>1. calls' = calls \/ Console!Becomes(k, call)
    BY DEF Console!Press, Console!Tick, Console!Asks
  <2>2. call \in StopCalls
    BY <1>1 DEF Born, StopCalls
  <2> HIDE DEF call
  <2>3. CASE calls' = calls
    BY <1>0, <2>3 DEF ConsoleShape
  <2>4. CASE Console!Becomes(k, call)
    BY <1>0, <2>2, <2>4, OneCall
  <2> QED
    BY <2>1, <2>3, <2>4
<1>3. /\ tabs' \in [Tabs -> TabStates]
      /\ \A t \in Tabs : tabs'[t].shown = tabs[t].shown
  <2>1. \/ tabs' = [tabs EXCEPT ![tab].stopping = TRUE, ![tab].error = FALSE]
        \/ tabs' = [tabs EXCEPT ![tab].zero = TRUE]
        \/ tabs' = [tabs EXCEPT ![tab].zero = TRUE, ![tab].stopping = TRUE, ![tab].error = FALSE]
    BY DEF Console!Press, Console!Tick
  <2>2. tabs \in [Tabs -> TabStates]
    BY <1>0 DEF ConsoleShape
  <2>3. CASE tabs' = [tabs EXCEPT ![tab].stopping = TRUE, ![tab].error = FALSE]
    <3>1. tabs' = [tabs EXCEPT ![tab] = [tabs[tab] EXCEPT !.stopping = TRUE, !.error = FALSE]]
      BY <2>2, <2>3
    <3> QED
      BY <2>2, <3>1 DEF TabStates
  <2>4. CASE tabs' = [tabs EXCEPT ![tab].zero = TRUE]
    BY <2>2, <2>4 DEF TabStates
  <2>5. CASE tabs' = [tabs EXCEPT ![tab].zero = TRUE, ![tab].stopping = TRUE, ![tab].error = FALSE]
    <3>1. tabs' = [tabs EXCEPT ![tab] = [tabs[tab] EXCEPT !.zero = TRUE, !.stopping = TRUE, !.error = FALSE]]
      BY <2>2, <2>5
    <3> QED
      BY <2>2, <3>1 DEF TabStates
  <2> QED
    BY <2>1, <2>3, <2>4, <2>5
<1>4. ConsoleShape'
  BY <1>0, <1>1, <1>2, <1>3, SameTable DEF ConsoleShape, Starting, Stopping
<1>5. InForce'
  BY <1>0, <1>2, SameTable DEF InForce, Stopping
<1>6. OneStart' /\ StoredAndShown'
  <2>1. OneStart /\ StoredAndShown
    BY DEF ConsoleInv
  <2>2. \A j \in Calls : Starting(j)' => Starting(j) /\ calls'[j] = calls[j]
    BY <1>2 DEF Starting
  <2>3. OneStart'
    BY <1>0, <2>1, <2>2, SameTable DEF OneStart
  <2>4. StoredAndShown'
    BY <1>0, <1>3, <2>1, SameTable DEF StoredAndShown
  <2> QED
    BY <2>3, <2>4
<1> QED
  BY <1>4, <1>5, <1>6 DEF ConsoleInv

(* A finite set of numbers has a smallest.                                  *)
LEMMA SomeIsSmallest ==
  ASSUME NEW S \in SUBSET Nat, IsFiniteSet(S), S # {}
  PROVE  \E m \in S : \A n \in S : m <= n
<1> DEFINE HasLeast(U) == \E m \in U : \A n \in U : m <= n
           Bad == {U \in SUBSET S : U # {} /\ ~ HasLeast(U)}
<1>1. SUFFICES ASSUME Bad # {}
               PROVE  FALSE
  BY DEF Bad
<1>2. Bad \subseteq FiniteSubsetsOf(S)
  BY FS_Subset DEF FiniteSubsetsOf
<1>3. PICK U \in Bad : \A V \in Bad : <<V, U>> \notin StrictSubsetOrdering(S)
  BY <1>1, <1>2, FS_StrictSubsetOrderingWellFounded, WFMin
<1>4. PICK x \in U : TRUE
  BY <1>3
<1>5. U \ {x} \notin Bad
  BY <1>3, <1>4 DEF StrictSubsetOrdering
<1>6. U \subseteq Nat
  BY <1>3
<1>7. CASE U \ {x} = {}
  BY <1>3, <1>4, <1>6, <1>7
<1>8. CASE U \ {x} # {}
  <2>1. PICK m \in U \ {x} : \A n \in U \ {x} : m <= n
    BY <1>3, <1>5, <1>8
  <2>2. CASE m <= x
    BY <1>3, <1>4, <1>6, <2>1, <2>2
  <2>3. CASE x <= m
    <3>1. \A n \in U : x <= n
      BY <1>4, <1>6, <2>1, <2>3
    <3> QED
      BY <1>3, <1>4, <3>1
  <2> QED
    BY <1>4, <1>6, <2>1, <2>2, <2>3
<1> QED
  BY <1>7, <1>8

(* A number that is left, and the smallest such.                            *)
LEMMA MadeIsFree ==
  ASSUME Console!ConsoleAssumption, NEW n \in Numbers, table[n] = Console!Unborn
  PROVE  Console!Made \in Numbers /\ table[Console!Made] = Console!Unborn
<1> DEFINE free == {s \in Numbers : table[s] = Console!Unborn}
<1>1. Numbers \subseteq Nat /\ free \in SUBSET Nat /\ free # {}
  BY DEF Numbers, Console!ConsoleAssumption
<1>7. IsFiniteSet(free)
  <2>1. IsFiniteSet(Numbers)
    BY FS_Interval DEF Numbers, Console!ConsoleAssumption
  <2> QED
    BY <2>1, FS_Subset
<1> HIDE DEF free
<1>2. PICK s \in free : \A t \in free : s <= t
  BY <1>1, <1>7, SomeIsSmallest
<1>3. s \in Numbers /\ table[s] = Console!Unborn
  BY DEF free
<1>4. \A t \in 1..(s - 1) : table[t] # Console!Unborn
  <2> SUFFICES ASSUME NEW t \in 1..(s - 1), table[t] = Console!Unborn
               PROVE  FALSE
    OBVIOUS
  <2>1. t \in Numbers /\ t < s
    BY <1>1, <1>3 DEF Numbers, Console!ConsoleAssumption
  <2>2. t \in free
    BY <2>1 DEF free
  <2> QED
    BY <1>1, <1>2, <2>1, <2>2
<1>5. \E m \in Console!SessionIds : table[m] = Console!Unborn /\ \A t \in 1..(m - 1) : table[t] # Console!Unborn
  BY <1>3, <1>4 DEF Console!SessionIds, Numbers
<1> QED
  BY <1>5 DEF Console!Made, Console!SessionIds, Numbers

(* Steps of the service change no copy of a session, and put nothing in     *)
(* force that was not.                                                      *)
LEMMA SessionsEnd ==
  ASSUME ConsoleInv, UNCHANGED <<due, storage, tabs, told>>,
         table' \in [Numbers -> {Console!Unborn} \cup Numbered],
         calls' \in [Calls -> {Console!Idle} \cup StartCalls \cup StopCalls],
         \A s \in Numbers : Born(s)' <=> Born(s),
         \A s \in Numbers : Console!Active(s)' => Console!Active(s),
         \A j \in Calls : calls'[j] # calls[j] =>
           /\ Stopping(j) /\ Stopping(j)' /\ calls'[j].session = calls[j].session
           /\ ~ Console!Active(calls[j].session)'
  PROVE  ConsoleInv'
<1>0. ConsoleShape /\ InForce /\ OneStart /\ StoredAndShown
  BY DEF ConsoleInv
<1>1. ConsoleShape'
  BY <1>0 DEF ConsoleShape, Starting, Stopping, Born
<1>2. InForce'
  BY <1>0 DEF InForce, Stopping
<1>3. \A j \in Calls : Starting(j)' => Starting(j) /\ calls'[j] = calls[j]
  BY DEF Starting, Stopping
<1>4. OneStart'
  <2>1. \A s \in Numbers : table[s] = Console!Unborn => table'[s] = Console!Unborn
    BY <1>0, <1>1, RowsOfTheTable DEF ConsoleShape, Born
  <2> QED
    BY <1>0, <1>3, <2>1 DEF OneStart
<1>5. StoredAndShown'
  BY <1>0 DEF StoredAndShown, ConsoleShape, Born
<1> QED
  BY <1>1, <1>2, <1>4, <1>5 DEF ConsoleInv

LEMMA EndsAreServed ==
  ASSUME ConsoleInv,
         \/ \E k \in Calls : Console!ServeStop(k)
         \/ \E s \in Numbers : Console!Clean(s)
  PROVE  ConsoleInv'
<1>0. ConsoleShape
  BY DEF ConsoleInv
<1>1. ASSUME NEW k \in Calls, Console!ServeStop(k)
      PROVE  ConsoleInv'
  <2> PICK n : n = calls[k].session
    OBVIOUS
  <2> DEFINE call == [calls[k] EXCEPT !.served = TRUE]
  <2>1. calls[k] \in StopCalls /\ Born(n)
    BY <1>0, <1>1, CallsInFlight DEF Console!ServeStop, Stopping, ConsoleShape
  <2>2. /\ table' \in [Numbers -> {Console!Unborn} \cup Numbered]
        /\ \A s \in Numbers : s # n => table'[s] = table[s]
        /\ table'[n] \in Numbered /\ table'[n].state = "gone"
    BY <1>0, <1>1, <2>1 DEF Console!ServeStop, ConsoleShape, Born, Numbered
  <2>3. call \in StopCalls /\ call.session = n
    BY <2>1 DEF StopCalls
  <2>4. Console!Becomes(k, call)
    BY <1>1 DEF Console!ServeStop
  <2>5. /\ calls'[k] = call
        /\ \A j \in Calls : j # k => calls'[j] = calls[j]
        /\ calls' \in [Calls -> {Console!Idle} \cup StartCalls \cup StopCalls]
    <3> HIDE DEF call
    <3> QED
      BY <1>0, <2>3, <2>4, OneCall
  <2>6. \A s \in Numbers : Born(s)' <=> Born(s)
    BY <2>1, <2>2 DEF Born
  <2>7. \A s \in Numbers : Console!Active(s)' => Console!Active(s)
    BY <2>2 DEF Console!Active
  <2>8. ~ Console!Active(n)'
    BY <2>2 DEF Console!Active
  <2>9. Stopping(k) /\ Stopping(k)' /\ calls'[k].session = n
    BY <2>1, <2>3, <2>5 DEF Stopping, StopCalls
  <2>10. UNCHANGED <<due, storage, tabs, told>>
    BY <1>1 DEF Console!ServeStop
  <2> HIDE DEF call
  <2>11. \A j \in Calls : calls'[j] # calls[j] => j = k
    BY <2>5
  <2> QED
    BY <2>2, <2>5, <2>6, <2>7, <2>8, <2>9, <2>10, <2>11, SessionsEnd
<1>2. ASSUME NEW n \in Numbers, Console!Clean(n)
      PROVE  ConsoleInv'
  <2>1. Born(n)
    BY <1>0, <1>2, RowsOfTheTable DEF Console!Clean, Console!Unborn
  <2>2. /\ table' \in [Numbers -> {Console!Unborn} \cup Numbered]
        /\ \A s \in Numbers : s # n => table'[s] = table[s]
        /\ table'[n] \in Numbered /\ table'[n].state = "gone"
    BY <1>0, <1>2, <2>1 DEF Console!Clean, ConsoleShape, Born, Numbered
  <2>3. \A s \in Numbers : Born(s)' <=> Born(s)
    BY <2>1, <2>2 DEF Born
  <2>4. \A s \in Numbers : Console!Active(s)' => Console!Active(s)
    BY <2>2 DEF Console!Active
  <2> QED
    BY <1>0, <1>2, <2>2, <2>3, <2>4, SessionsEnd DEF Console!Clean, ConsoleShape
<1> QED
  BY <1>1, <1>2

LEMMA TimesElapse ==
  ASSUME ConsoleInv, NEW n \in Numbers, Console!Elapse(n)
  PROVE  ConsoleInv'
<1>0. ConsoleShape /\ InForce /\ OneStart /\ StoredAndShown
  BY DEF ConsoleInv
<1>1. Born(n)
  BY <1>0, RowsOfTheTable DEF Console!Elapse
<1>2. /\ table' \in [Numbers -> {Console!Unborn} \cup Numbered]
      /\ \A s \in Numbers : s # n => table'[s] = table[s]
      /\ table'[n] \in Numbered /\ table'[n].state \in {"over", "gone"}
  BY <1>0, <1>1 DEF Console!Elapse, ConsoleShape, Born, Numbered
<1>3. \A s : Born(s)' <=> Born(s)
  BY <1>1, <1>2 DEF Born
<1>4. \A s \in Numbers : Console!Active(s)' => Console!Active(s) /\ s # n
  BY <1>2 DEF Console!Active
<1>5. UNCHANGED <<storage, tabs, calls, told>> /\ due' = due \cup {n}
  BY DEF Console!Elapse
<1>6. ConsoleShape'
  BY <1>0, <1>1, <1>2, <1>3, <1>5 DEF ConsoleShape, Starting, Stopping
<1>7. InForce'
  BY <1>0, <1>4, <1>5 DEF InForce, Stopping
<1>8. OneStart'
  BY <1>0, <1>1, <1>2, <1>4, <1>5, RowsOfTheTable DEF OneStart, Starting
<1>9. StoredAndShown'
  BY <1>0, <1>4, <1>5 DEF StoredAndShown, ConsoleShape, Born
<1> QED
  BY <1>6, <1>7, <1>8, <1>9 DEF ConsoleInv

(* A start that nothing excuses finds nothing in force, and a number.       *)
LEMMA StartsAreServed ==
  ASSUME Console!ConsoleAssumption, ConsoleInv, NEW k \in Calls, Console!ServeStart(k)
  PROVE  ConsoleInv'
<1> PICK n : n = Console!Made
  OBVIOUS
<1> DEFINE call == [calls[k] EXCEPT !.served = TRUE, !.session = n]
<1>0. ConsoleShape /\ InForce /\ OneStart /\ StoredAndShown
  BY DEF ConsoleInv
<1>1. /\ calls[k] \in StartCalls /\ Starting(k) /\ calls[k].user \in Users
      /\ \A s \in Numbers : ~ Console!Active(s)
      /\ n \in Numbers /\ table[n] = Console!Unborn
  <2>1. calls[k] \in StartCalls /\ Starting(k) /\ ~ calls[k].served
    BY <1>0, CallsInFlight DEF Console!ServeStart, Starting
  <2>2. PICK m \in Numbers : table[m] = Console!Unborn
    BY <1>0, <2>1 DEF OneStart
  <2> QED
    BY <1>0, <2>1, <2>2, MadeIsFree DEF OneStart, StartCalls
<1>2. UNCHANGED <<due, storage, tabs, told>>
  BY DEF Console!ServeStart
<1>3. /\ table' \in [Numbers -> {Console!Unborn} \cup Numbered]
      /\ \A s \in Numbers : s # n => table'[s] = table[s]
      /\ table'[n] \in Numbered
  <2>1. table' = [s \in Numbers |-> IF s = n THEN [state |-> "active", user |-> calls[k].user]
                                    ELSE table[s]]
    BY <1>0, <1>1 DEF Console!ServeStart, Console!SessionIds, Numbers, ConsoleShape
  <2> QED
    BY <1>0, <1>1, <2>1 DEF ConsoleShape, Numbered
<1>4. /\ calls'[k] = call /\ call \in StartCalls /\ call.session = n /\ call.served
      /\ \A j \in Calls : j # k => calls'[j] = calls[j]
      /\ calls' \in [Calls -> {Console!Idle} \cup StartCalls \cup StopCalls]
  <2>1. call \in StartCalls /\ call.session = n /\ call.served
    BY <1>1 DEF StartCalls
  <2>2. Console!Becomes(k, call)
    BY DEF Console!ServeStart
  <2> HIDE DEF call
  <2> QED
    BY <1>0, <2>1, <2>2, OneCall
<1> HIDE DEF call
<1>5. Born(n)' /\ \A s : Born(s) => Born(s)' /\ s # n
  BY <1>1, <1>3 DEF Born, Numbered, Console!Unborn
<1>6. \A s \in Numbers : Console!Active(s)' => s = n
  BY <1>1, <1>3 DEF Console!Active
<1>7. ConsoleShape'
  <2>1. ASSUME NEW j \in Calls, (Stopping(j) \/ (Starting(j) /\ calls[j].served))'
        PROVE  Born(calls[j].session)'
    <3>1. CASE j = k
      BY <1>4, <1>5, <3>1
    <3>2. CASE j # k
      <4>1. calls'[j] = calls[j]
        BY <1>4, <3>2
      <4>2. Born(calls[j].session)
        BY <1>0, <2>1, <4>1 DEF ConsoleShape, Starting, Stopping
      <4> QED
        BY <1>5, <4>1, <4>2 DEF Born
    <3> QED
      BY <3>1, <3>2
  <2> QED
    BY <1>0, <1>2, <1>3, <1>4, <1>5, <2>1 DEF ConsoleShape
<1>8. InForce'
  <2>1. n \notin due
    BY <1>0, <1>5 DEF ConsoleShape
  <2>2. \A j \in Calls : Stopping(j)' => calls'[j].session # n
    BY <1>0, <1>4, <1>5 DEF ConsoleShape, Stopping, StartCalls
  <2> QED
    BY <1>2, <1>6, <2>1, <2>2 DEF InForce
<1>9. OneStart'
  <2>1. \A j \in Calls : Starting(j)' => j = k
    BY <1>0, <1>1, <1>4 DEF OneStart, Starting
  <2> QED
    BY <1>4, <1>6, <2>1 DEF OneStart
<1>10. StoredAndShown'
  <2>1. \A s \in told : s \in Numbers /\ s # n
    BY <1>0, <1>5 DEF ConsoleShape, Born
  <2> QED
    BY <1>2, <1>6, <2>1 DEF StoredAndShown
<1> QED
  BY <1>7, <1>8, <1>9, <1>10 DEF ConsoleInv

(* A tab shows the session it has started, and stores it.                   *)
LEMMA StartsAreTakenUp ==
  ASSUME ConsoleInv, NEW k \in Calls, Console!TakeStart(k)
  PROVE  ConsoleInv'
<1> DEFINE n == calls[k].session
           tab == calls[k].tab
           stop == [what |-> "stop", tab |-> tab, session |-> n, served |-> FALSE]
<1>0. ConsoleShape /\ InForce /\ OneStart /\ StoredAndShown
  BY DEF ConsoleInv
<1>1. calls[k] \in StartCalls /\ Starting(k) /\ calls[k].served /\ tab \in Tabs /\ Born(n)
  BY <1>0, CallsInFlight DEF Console!TakeStart, Starting, StartCalls, ConsoleShape
<1>2. UNCHANGED <<table, due, excuses>> /\ storage' = n /\ told' = told \cup {n}
  BY DEF Console!TakeStart
<1>3. /\ calls'[k] = Console!Idle \/ calls'[k] = stop
      /\ \A j \in Calls : j # k => calls'[j] = calls[j]
      /\ calls' \in [Calls -> {Console!Idle} \cup StartCalls \cup StopCalls]
  <2>1. stop \in StopCalls
    BY <1>1 DEF StopCalls, Born
  <2>2. Console!Becomes(k, stop) \/ Console!Becomes(k, Console!Idle)
    BY DEF Console!TakeStart
  <2> HIDE DEF stop
  <2> QED
    BY <1>0, <2>1, <2>2, OneCall
<1>4. /\ tabs' \in [Tabs -> TabStates] /\ tabs'[tab].shown = n
      /\ \A t \in Tabs : t # tab => tabs'[t] = tabs[t]
  <2> DEFINE ends == tabs[tab].zero /\ ~ tabs[tab].stopping
             shown == [tabs[tab] EXCEPT !.shown = n, !.zero = FALSE,
                                        !.stopping = @ \/ ends, !.error = @ /\ ~ ends]
  <2>1. tabs' = [tabs EXCEPT ![tab] = shown]
    BY DEF Console!TakeStart
  <2>2. shown \in TabStates /\ shown.shown = n
    <3>1. tabs[tab] \in TabStates /\ n \in {Nothing} \cup Numbers
      BY <1>0, <1>1 DEF ConsoleShape, Born
    <3> HIDE DEF n, tab
    <3> DEFINE a == tabs[tab].stopping \/ ends
               b == tabs[tab].error /\ ~ ends
    <3>3. a \in BOOLEAN /\ b \in BOOLEAN
      OBVIOUS
    <3>4. shown = [tabs[tab] EXCEPT !.shown = n, !.zero = FALSE, !.stopping = a, !.error = b]
      OBVIOUS
    <3> HIDE DEF ends, a, b, shown
    <3>5. PICK row \in TabStates : row = tabs[tab]
      BY <3>1
    <3>6. shown = [row EXCEPT !.shown = n, !.zero = FALSE, !.stopping = a, !.error = b]
      BY <3>4, <3>5
    <3> QED
      BY <3>1, <3>3, <3>6 DEF TabStates
  <2> HIDE DEF shown, ends
  <2> QED
    BY <1>0, <1>1, <2>1, <2>2 DEF ConsoleShape
<1>5. ConsoleShape'
  <2>1. ASSUME NEW t \in Tabs
        PROVE  (tabs[t].shown = Nothing \/ Born(tabs[t].shown))'
    BY <1>0, <1>1, <1>2, <1>4 DEF ConsoleShape, Born
  <2>2. ASSUME NEW j \in Calls, (Stopping(j) \/ (Starting(j) /\ calls[j].served))'
        PROVE  Born(calls[j].session)'
    <3>1. CASE j = k
      BY <1>1, <1>2, <1>3, <2>2, <3>1 DEF Born, Stopping, Starting, Console!Idle
    <3>2. CASE j # k
      BY <1>0, <1>2, <1>3, <2>2, <3>2 DEF ConsoleShape, Born, Stopping, Starting
    <3> QED
      BY <3>1, <3>2
  <2> QED
    BY <1>0, <1>1, <1>2, <1>3, <1>4, <2>1, <2>2 DEF ConsoleShape, Born
<1>6. InForce'
  BY <1>0, <1>2, <1>3, SameTable DEF InForce, Stopping, Console!Idle
<1>7. \A j \in Calls : Starting(j)' => Starting(j) /\ calls'[j] = calls[j]
  BY <1>3 DEF Starting, Console!Idle
<1>8. OneStart'
  BY <1>0, <1>2, <1>7, SameTable DEF OneStart
<1>9. StoredAndShown'
  <2>1. \A s \in told' : Console!Active(s)' => s = n
    BY <1>0, <1>1, <1>2, SameTable DEF OneStart, ConsoleShape, Born
  <2> QED
    BY <1>1, <1>2, <1>4, <2>1 DEF StoredAndShown
<1> QED
  BY <1>5, <1>6, <1>8, <1>9 DEF ConsoleInv

(* What a tab clears is over: the copy is empty, or that of the session     *)
(* whose stop was served.                                                   *)
LEMMA StopsAreTakenUp ==
  ASSUME ConsoleInv, NEW k \in Calls, Console!TakeStop(k), excuses' = {}
  PROVE  ConsoleInv'
<1> DEFINE tab == calls[k].tab
<1>0. ConsoleShape /\ InForce /\ OneStart /\ StoredAndShown
  BY DEF ConsoleInv
<1>1. calls[k] \in StopCalls /\ Stopping(k) /\ calls[k].served /\ tab \in Tabs
  BY <1>0, CallsInFlight DEF Console!TakeStop, Stopping, StopCalls
<1>2. UNCHANGED <<table, due, told>> /\ storage' = Nothing /\ storage \in {Nothing, calls[k].session}
  BY DEF Console!TakeStop, Console!None, Nothing
<1>3. /\ calls'[k] = Console!Idle
      /\ \A j \in Calls : j # k => calls'[j] = calls[j]
      /\ calls' \in [Calls -> {Console!Idle} \cup StartCalls \cup StopCalls]
  BY <1>0, OneCall DEF Console!TakeStop
<1>4. /\ tabs' \in [Tabs -> TabStates] /\ tabs'[tab].shown = Nothing
      /\ \A t \in Tabs : t # tab => tabs'[t] = tabs[t]
  BY <1>0, <1>1 DEF Console!TakeStop, ConsoleShape, TabStates, Console!Fresh, Console!None, Nothing
<1>5. ConsoleShape'
  <2>1. \A t \in Tabs : (tabs[t].shown = Nothing \/ Born(tabs[t].shown))'
    BY <1>0, <1>2, <1>4 DEF ConsoleShape, Born
  <2>2. ASSUME NEW j \in Calls, (Stopping(j) \/ (Starting(j) /\ calls[j].served))'
        PROVE  Born(calls[j].session)'
    BY <1>0, <1>2, <1>3, <2>2 DEF ConsoleShape, Born, Stopping, Starting, Console!Idle
  <2> QED
    BY <1>0, <1>2, <1>3, <1>4, <2>1, <2>2 DEF ConsoleShape, Born
<1>6. InForce'
  BY <1>0, <1>2, <1>3, SameTable DEF InForce, Stopping, Console!Idle
<1>7. \A j \in Calls : Starting(j)' => Starting(j) /\ calls'[j] = calls[j]
  BY <1>3 DEF Starting, Console!Idle
<1>8. OneStart'
  BY <1>0, <1>2, <1>7, SameTable DEF OneStart
<1>9. StoredAndShown'
  <2>1. \A s \in told : ~ Console!Active(s)
    <3> SUFFICES ASSUME NEW s \in told, Console!Active(s)
                 PROVE  FALSE
      OBVIOUS
    <3>1. s \in Numbers /\ s = storage
      BY <1>0 DEF StoredAndShown, ConsoleShape, Born
    <3>2. s # Nothing
      BY <3>1 DEF Numbers, Nothing
    <3> QED
      BY <1>0, <1>1, <1>2, <3>1, <3>2 DEF InForce
  <2> QED
    BY <1>2, <2>1, SameTable DEF StoredAndShown
<1> QED
  BY <1>5, <1>6, <1>8, <1>9 DEF ConsoleInv

(* A call that ends with no answer taken up.                                *)
LEMMA CallsEnd ==
  ASSUME ConsoleInv, NEW k \in Calls, Console!Fail(k) \/ Console!Drop(k)
  PROVE  ConsoleInv'
<1>0. ConsoleShape /\ InForce /\ OneStart /\ StoredAndShown
  BY DEF ConsoleInv
<1>1. UNCHANGED <<table, due, storage, told>>
  BY DEF Console!Fail, Console!Drop
<1>2. /\ calls'[k] = Console!Idle
      /\ \A j \in Calls : j # k => calls'[j] = calls[j]
      /\ calls' \in [Calls -> {Console!Idle} \cup StartCalls \cup StopCalls]
  BY <1>0, OneCall DEF Console!Fail, Console!Drop
<1>3. /\ tabs' \in [Tabs -> TabStates]
      /\ \A t \in Tabs : tabs'[t].shown = tabs[t].shown
  <2>1. tabs' = tabs \/ tabs' = [tabs EXCEPT ![calls[k].tab].stopping = FALSE, ![calls[k].tab].error = TRUE]
    BY DEF Console!Fail, Console!Drop
  <2>2. tabs \in [Tabs -> TabStates]
    BY <1>0 DEF ConsoleShape
  <2>3. CASE tabs' = [tabs EXCEPT ![calls[k].tab].stopping = FALSE, ![calls[k].tab].error = TRUE]
    <3>1. CASE calls[k].tab \in Tabs
      <4>1. tabs' = [tabs EXCEPT ![calls[k].tab] = [tabs[calls[k].tab] EXCEPT !.stopping = FALSE, !.error = TRUE]]
        BY <2>2, <2>3, <3>1
      <4> QED
        BY <2>2, <3>1, <4>1 DEF TabStates
    <3>2. CASE calls[k].tab \notin Tabs
      BY <2>2, <2>3, <3>2
    <3> QED
      BY <3>1, <3>2
  <2> QED
    BY <2>1, <2>2, <2>3
<1>4. ConsoleShape'
  <2>2. ASSUME NEW j \in Calls, (Stopping(j) \/ (Starting(j) /\ calls[j].served))'
        PROVE  Born(calls[j].session)'
    BY <1>0, <1>1, <1>2, <2>2 DEF ConsoleShape, Born, Stopping, Starting, Console!Idle
  <2> QED
    BY <1>0, <1>1, <1>2, <1>3, <2>2 DEF ConsoleShape, Born
<1>5. InForce'
  BY <1>0, <1>1, <1>2, SameTable DEF InForce, Stopping, Console!Idle
<1>6. \A j \in Calls : Starting(j)' => Starting(j) /\ calls'[j] = calls[j]
  BY <1>2 DEF Starting, Console!Idle
<1>7. OneStart'
  BY <1>0, <1>1, <1>6, SameTable DEF OneStart
<1>8. StoredAndShown'
  BY <1>0, <1>1, <1>3, SameTable DEF StoredAndShown
<1> QED
  BY <1>4, <1>5, <1>7, <1>8 DEF ConsoleInv

LEMMA ConsoleSteps ==
  ASSUME Console!ConsoleAssumption, ConsoleInv, [Console!Next]_Console!vars, excuses' = {}
  PROVE  ConsoleInv'
<1>1. ASSUME UNCHANGED Console!vars
      PROVE  ConsoleInv'
  BY <1>1 DEF Console!vars, ConsoleInv, ConsoleShape, InForce, OneStart, StoredAndShown, Born,
              Console!Active, Starting, Stopping
<1> QED
  BY <1>1, StartsOnce, ReloadsFromStorage, StopsAreAsked, EndsAreServed, TimesElapse, StartsAreServed,
     StartsAreTakenUp, StopsAreTakenUp, CallsEnd
     DEF Console!Next, Console!Counts, Console!Answers, Console!SessionIds, Numbers

(* ActiveIsShown: a session that is in force, and of which a tab was told,  *)
(* is shown by some tab, unless the browser started one session while       *)
(* another was in force or being started, or a stop cleared the copy of     *)
(* another tab's session.                                                   *)
THEOREM SessionsInForceAreShown ==
  Console!ConsoleAssumption => (Console!Spec => []Console!ActiveIsShown)
<1> SUFFICES ASSUME Console!ConsoleAssumption
             PROVE  Console!Spec => []Console!ActiveIsShown
  OBVIOUS
<1> DEFINE Inv == excuses = {} => ConsoleInv
<1>1. Console!Init => Inv
  BY ConsoleBegins
<1>2. Inv /\ [Console!Next]_Console!vars => Inv'
  <2> SUFFICES ASSUME Inv, [Console!Next]_Console!vars, excuses' = {}
               PROVE  ConsoleInv'
    OBVIOUS
  <2>1. excuses = {}
    BY DEF Console!vars, Console!Next, Console!Counts, Console!Answers, Console!Start, Console!Reload,
           Console!Press, Console!Tick, Console!Elapse, Console!ServeStart, Console!ServeStop,
           Console!Clean, Console!TakeStart, Console!TakeStop, Console!Fail, Console!Drop
  <2> QED
    BY <2>1, ConsoleSteps
<1>3. Inv => Console!ActiveIsShown
  BY DEF Console!ActiveIsShown, ConsoleInv, StoredAndShown
<1> QED
  BY <1>1, <1>2, <1>3, PTL DEF Console!Spec
=============================================================================
