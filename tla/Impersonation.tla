--------------------------- MODULE Impersonation ---------------------------
(***************************************************************************)
(* Impersonation sessions of super administrators: the routes that start   *)
(* and stop them and the clean-up the workers ask for at their start and   *)
(* every 24 hours.                                                         *)
(*                                                                         *)
(* Start and clean-up are single READ COMMITTED transactions of two        *)
(* statements; what the first one saw is fixed before the second runs, so  *)
(* they are two steps here.  A session's expiresAt is in the past or not.  *)
(* createImpersonationSessionForSuperAdmin ends a session by setting its   *)
(* expiresAt to now, which is the same fact.                               *)
(***************************************************************************)
EXTENDS FiniteSets, Naturals

CONSTANTS
  Slots,          \* concurrent requests of administrators
  Cleaners,       \* workers calling POST /impersonation/cleanup
  Admins, Users,
  Sessions,       \* ids of core.super_admin_impersonation_tokens
  Limit,          \* sessions one clean-up takes (200 in the code)
  Faults          \* whether handlers can fail between two transactions

ASSUME ImpersonationAssumption ==
  /\ Slots \cap Cleaners = {}
  /\ Limit \in Nat \ {0}
  /\ Faults \in BOOLEAN

Pairs == Admins \X Users

VARIABLES
  sessions,  \* core.super_admin_impersonation_tokens
  reqs,      \* handlers in flight, of slots and cleaners
  stops,     \* IMPERSONATION_STOPPED audit events per session
  raced,     \* history: pairs with two overlapping start transactions
  unsaid     \* history: sessions whose end the code gave up announcing

vars == <<sessions, reqs, stops, raced, unsaid>>

Handlers == Slots \cup Cleaners

Unborn == [status |-> "unborn"]
Idle == [pc |-> "idle"]

SessionRows == {Unborn} \cup [status: {"stored", "gone"}, pair: Pairs, expired: BOOLEAN]

TypeOK ==
  /\ sessions \in [Sessions -> SessionRows]
  /\ reqs \in [Handlers ->
            {Idle}
       \cup [pc: {"create"}, pair: Pairs, hits: SUBSET Sessions]
       \cup [pc: {"delete", "report"}, left: SUBSET Sessions]]
  /\ stops \in [Sessions -> 0..Cardinality(Handlers)]
  /\ raced \subseteq Pairs
  /\ unsaid \subseteq Sessions

Init ==
  /\ sessions = [s \in Sessions |-> Unborn]
  /\ reqs = [h \in Handlers |-> Idle]
  /\ stops = [s \in Sessions |-> 0]
  /\ raced = {}
  /\ unsaid = {}

Stored(s) == sessions[s].status = "stored"
Active(s) == Stored(s) /\ ~ sessions[s].expired
Expired == {s \in Sessions : Stored(s) /\ sessions[s].expired}

Holds(h, label) == reqs[h].pc = label
Becomes(h, handler) == reqs' = [reqs EXCEPT ![h] = handler]

-----------------------------------------------------------------------------
(* POST /super-admin/users/:userId/impersonation *)

(* Mutant: nothing is ended. *)
NoneOf(pair) == {}

ActiveOf(pair) == {s \in Sessions : Active(s) /\ sessions[s].pair = pair}

(* createImpersonationSessionForSuperAdmin: the UPDATE sees the sessions    *)
(* that are committed and active; a session created by a transaction that   *)
(* is still open is not among them.                                         *)
StartEnd(h, pair) ==
  /\ Holds(h, "idle")
  /\ Becomes(h, [pc |-> "create", pair |-> pair, hits |-> ActiveOf(pair)])
  /\ raced' = IF \E q \in Handlers : Holds(q, "create") /\ reqs[q].pair = pair
                THEN raced \cup {pair} ELSE raced
  /\ UNCHANGED <<sessions, stops, unsaid>>

(* The INSERT, and the commit of both.  The audit event and the identity    *)
(* event that follow are read by nobody.                                    *)
StartCreate(h, s) ==
  /\ Holds(h, "create")
  /\ sessions[s].status = "unborn"
  /\ sessions' = [t \in Sessions |->
       IF t = s THEN [status |-> "stored", pair |-> reqs[h].pair, expired |-> FALSE]
       ELSE IF t \in reqs[h].hits THEN [sessions[t] EXCEPT !.expired = TRUE]
       ELSE sessions[t]]
  /\ Becomes(h, Idle)
  /\ UNCHANGED <<stops, raced, unsaid>>

-----------------------------------------------------------------------------
(* DELETE /super-admin/users/:userId/impersonation/:tokenId *)

(* stopImpersonationSessionForSuperAdmin: a row that is not there is        *)
(* nothing to stop.                                                         *)
DeleteSession(s) ==
  /\ Stored(s)
  /\ sessions' = [sessions EXCEPT ![s].status = "gone"]

(* The row is deleted before the handler compares the user of the path with *)
(* the row's: if they differ the answer is 404, and nothing tells that the  *)
(* session has ended.                                                       *)
Stop(h, s, user) ==
  /\ Holds(h, "idle")
  /\ DeleteSession(s)
  /\ IF sessions[s].pair[2] = user
       THEN /\ Becomes(h, [pc |-> "report", left |-> {s}])
            /\ UNCHANGED unsaid
       ELSE /\ unsaid' = unsaid \cup {s}
            /\ UNCHANGED reqs
  /\ UNCHANGED <<stops, raced>>

-----------------------------------------------------------------------------
(* POST /super-admin/impersonation/cleanup.  Nothing says that it ever      *)
(* comes: the worker's own request names a JSON body and has none, which    *)
(* Fastify refuses before the handler.                                      *)

(* findMany: at most Limit expired sessions.  Those that expired first come *)
(* first; which these are is left open.                                     *)
CleanFind(h) ==
  /\ Holds(h, "idle")
  /\ \E found \in SUBSET Expired :
       /\ found # {} /\ Cardinality(found) <= Limit
       /\ Cardinality(found) < Limit => found = Expired
       /\ Becomes(h, [pc |-> "delete", left |-> found])
  /\ UNCHANGED <<sessions, stops, raced, unsaid>>

(* Mutant: deleteMany takes whatever has expired by now. *)
CleanDeleteExpired(h) ==
  /\ Holds(h, "delete")
  /\ sessions' = [s \in Sessions |->
       IF s \in Expired THEN [sessions[s] EXCEPT !.status = "gone"] ELSE sessions[s]]
  /\ Becomes(h, [pc |-> "report", left |-> reqs[h].left])
  /\ UNCHANGED <<stops, raced, unsaid>>

(* deleteMany, whose count nobody looks at: all that were found are         *)
(* reported, though another handler may have deleted some of them first.    *)
CleanDelete(h) ==
  /\ Holds(h, "delete")
  /\ sessions' = [s \in Sessions |->
       IF s \in reqs[h].left THEN [sessions[s] EXCEPT !.status = "gone"] ELSE sessions[s]]
  /\ Becomes(h, [pc |-> "report", left |-> reqs[h].left])
  /\ UNCHANGED <<stops, raced, unsaid>>

(* One turn of the loop over the removed sessions, or the single report of  *)
(* a stop: the audit event; the identity event follows it.                  *)
Report(h, s) ==
  /\ Holds(h, "report")
  /\ s \in reqs[h].left
  /\ stops' = [stops EXCEPT ![s] = stops[s] + 1]
  /\ Becomes(h, IF reqs[h].left = {s} THEN Idle
                ELSE [reqs[h] EXCEPT !.left = reqs[h].left \ {s}])
  /\ UNCHANGED <<sessions, raced, unsaid>>

-----------------------------------------------------------------------------
(* An error or a crash: an open transaction is rolled back, and what was    *)
(* left to report is never reported, for the rows are gone.                 *)
Fail(h) ==
  /\ Faults
  /\ ~ Holds(h, "idle")
  /\ unsaid' = IF Holds(h, "report") THEN unsaid \cup reqs[h].left ELSE unsaid
  /\ Becomes(h, Idle)
  /\ UNCHANGED <<sessions, stops, raced>>

SessionExpires(s) ==
  /\ Active(s)
  /\ sessions' = [sessions EXCEPT ![s].expired = TRUE]
  /\ UNCHANGED <<reqs, stops, raced, unsaid>>

SlotStep(h) ==
  \/ \E pair \in Pairs : StartEnd(h, pair)
  \/ \E s \in Sessions : StartCreate(h, s)
  \/ \E s \in Sessions, user \in Users : Stop(h, s, user)

Reports(h) == \E s \in Sessions : Report(h, s)

Next ==
  \/ \E h \in Slots : SlotStep(h)
  \/ \E h \in Cleaners : CleanFind(h) \/ CleanDelete(h)
  \/ \E h \in Handlers : Reports(h) \/ Fail(h)
  \/ \E s \in Sessions : SessionExpires(s)

Spec == Init /\ [][Next]_vars

-----------------------------------------------------------------------------
(* An administrator has one active session with a user, unless two starts   *)
(* of that pair had overlapping transactions: neither UPDATE saw the other  *)
(* one's row.  (docs/meta/plans/identity/v0.1.1.md asks for it without the  *)
(* exception: "Enforce single active session per admin/user pair.")         *)
OneActiveUnlessRaced ==
  \A s, t \in Sessions :
    Active(s) /\ Active(t) /\ sessions[s].pair = sessions[t].pair =>
      s = t \/ sessions[s].pair \in raced

(* Every session that is gone has a stop event in the audit log, or a       *)
(* handler still on its way to write it, or it is one of those the code     *)
(* gives up: deleted under another user's path, or by a handler that died.  *)
EndsAreRecorded ==
  \A s \in Sessions : sessions[s].status = "gone" =>
    \/ stops[s] > 0
    \/ s \in unsaid
    \/ \E h \in Handlers : Holds(h, "report") /\ s \in reqs[h].left

(* A session that has a stop event in the audit log is over for good:       *)
(* clean-up and stop both delete before they report, and a transaction that *)
(* creates or ends sessions never brings a deleted one back.                *)
ReportedIsOver == \A s \in Sessions : stops[s] > 0 => sessions[s].status = "gone"

(* The audit log and the table agree about which sessions have ended. *)
EndsAreTold == EndsAreRecorded /\ ReportedIsOver

-----------------------------------------------------------------------------
(* What the documentation says, and the code does not do *)

(* docs/operations/runbooks/identity.md: "All stop actions (manual or       *)
(* auto-expire) must be confirmed in the audit explorer."  When no handler  *)
(* is at work, a session that is gone has its stop event.                   *)
StopsAreConfirmed ==
  (\A h \in Handlers : Holds(h, "idle")) =>
    \A s \in Sessions : sessions[s].status = "gone" => stops[s] > 0
=============================================================================
