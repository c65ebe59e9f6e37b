------------------------------ MODULE BulkJobs ------------------------------
(***************************************************************************)
(* One super-admin bulk job: the identity routes that create and change    *)
(* its row, the BullMQ queue between, and the worker's processor.          *)
(*                                                                         *)
(* The worker changes the row only through PATCH /bulk-jobs/:jobId, as     *)
(* administrators do.  That handler reads the row in one transaction,      *)
(* writes it in another, and then enqueues, emits and records in awaited   *)
(* steps of their own; the calls of several workers and administrators     *)
(* interleave at every await.                                              *)
(*                                                                         *)
(* A job is one row, and jobs share nothing but the queue and the worker   *)
(* processes, so the module has one.  userIds is the interval 1..Total,    *)
(* with a set, drawn from BadSets, of entries the processor throws on.     *)
(* Next has no errors and no crashes, FaultyNext has them.  MaxRetries and *)
(* MaxCrashes bound the calls of retry and the crashes, Orphans the        *)
(* handlers that run on after their worker died or lost the connection.  A *)
(* crash leaves the BullMQ job active; stalled jobs are queued again by    *)
(* BullMQ, external code modelled from its documentation.                  *)
(***************************************************************************)
EXTENDS Naturals

CONSTANTS
  Workers, Admins,
  Orphans,                \* handlers of workers that no longer wait for them
  Total, BadSets,
  Export,                 \* the action is EXPORT_USERS
  MaxRetries, MaxCrashes

ASSUME JobAssumption ==
  /\ Workers \cap Admins = {} /\ Orphans \cap (Workers \cup Admins) = {}
  /\ Total \in Nat \ {0}  \* SuperAdminBulkJobCreateRequestSchema: userIds.min(1)
  /\ BadSets \subseteq SUBSET (1..Total)
  /\ Export \in BOOLEAN
  /\ MaxRetries \in Nat /\ MaxCrashes \in Nat

VARIABLES
  post,     \* the handler of POST /bulk-jobs
  row,      \* core.super_admin_bulk_jobs
  queue,    \* waiting BullMQ jobs; their payloads differ only in context
  work,     \* the processor's local variables, per worker
  call,     \* the PATCH handlers: what a worker or an administrator waits for,
            \* and those that run on without their worker
  audit,    \* history: audit events of the job since its last retry
  overlap,  \* history: two runs, or two PATCHes of a run, were under way at once
  retries, crashes

vars == <<post, row, queue, work, call, audit, overlap, retries, crashes>>

Runners == Workers \cup Orphans
Callers == Runners \cup Admins

Statuses == {"PENDING", "RUNNING", "SUCCEEDED", "FAILED"}
Terminal == {"SUCCEEDED", "FAILED"}

(* The columns, with what they hold.  error and result say whether          *)
(* errorMessage and resultUrl are non-null; bad, the entries of userIds the *)
(* processor throws on, is the only one no PATCH names.                     *)
Columns == [status |-> Statuses, completed |-> 0..Total, failed |-> 0..Total,
            failures |-> SUBSET (1..Total), error |-> BOOLEAN, result |-> BOOLEAN,
            bad |-> BadSets]

IsBody(b) == DOMAIN b \subseteq DOMAIN Columns /\ \A f \in DOMAIN b : b[f] \in Columns[f]

NoRow == [status |-> "none"]
NoCall == [pc |-> "none"]
Off == [pc |-> "off"]

Kinds == {"update", "retry", "cancel"}

(* A PATCH handler keeps what its later steps still read. *)
IsCall(h) ==
  \/ h \in [pc: {"none", "reply"}]
  \/ h \in [pc: {"enqueue", "auditCancel", "emit"}, prev: Statuses, next: Statuses]
  \/ h \in [pc: {"auditEnd"}, next: Terminal]
  \/ /\ h.pc \in {"read", "write"}
     /\ h.kind \in Kinds /\ IsBody(h.body)
     /\ h.pc = "write" => h.prev \in Statuses

TypeOK ==
  /\ post \in {"new", "created", "over"}
  /\ row = NoRow \/ (IsBody(row) /\ DOMAIN row = DOMAIN Columns)
  /\ queue \in 0..(1 + MaxRetries + MaxCrashes)
  /\ \A w \in Workers :
       \/ work[w] = Off
       \/ /\ work[w].pc \in {"begin", "good", "bad", "final"}
          /\ work[w].at \in 0..Total
          /\ work[w].completed \in 0..Total /\ work[w].failed \in 0..Total
          /\ work[w].failures \in SUBSET (1..Total)
  /\ \A c \in Callers : IsCall(call[c])
  /\ audit \subseteq Terminal \cup {"CANCELLED"}
  /\ overlap \in BOOLEAN
  /\ retries \in 0..MaxRetries
  /\ crashes \in 0..MaxCrashes

Init ==
  /\ post = "new"
  /\ row = NoRow
  /\ queue = 0
  /\ work = [w \in Workers |-> Off]
  /\ call = [c \in Callers |-> NoCall]
  /\ audit = {}
  /\ overlap = FALSE
  /\ retries = 0
  /\ crashes = 0

-----------------------------------------------------------------------------
(* POST /super-admin/bulk-jobs *)

(* createBulkJobForSuperAdmin *)
PostCreate ==
  /\ post = "new"
  /\ \E bad \in BadSets :
       row' = [status |-> "PENDING", completed |-> 0, failed |-> 0,
               failures |-> {}, error |-> FALSE, result |-> FALSE, bad |-> bad]
  /\ post' = "created"
  /\ UNCHANGED <<queue, work, call, audit, overlap, retries, crashes>>

(* The queue comes last, after the audit event, the identity event and the  *)
(* broadcast; an error in any of them leaves the row without a queued job.  *)
PostEnqueue ==
  /\ post = "created"
  /\ queue' = queue + 1
  /\ post' = "over"
  /\ UNCHANGED <<row, work, call, audit, overlap, retries, crashes>>

PostFails ==
  /\ post = "created"
  /\ post' = "over"
  /\ UNCHANGED <<row, queue, work, call, audit, overlap, retries, crashes>>

-----------------------------------------------------------------------------
(* PATCH /super-admin/bulk-jobs/:jobId *)

Request(kind, body) == [pc |-> "read", kind |-> kind, body |-> body]

Goes(c, h) == call' = [call EXCEPT ![c] = h]
Reply == [pc |-> "reply"]

(* getBulkJobByIdForSuperAdmin: previousStatus is remembered from here. *)
CallRead(c) ==
  /\ call[c].pc = "read"
  /\ Goes(c, [pc |-> "write", kind |-> call[c].kind, body |-> call[c].body, prev |-> row.status])
  /\ UNCHANGED <<post, row, queue, work, audit, overlap, retries, crashes>>

(* What the handler goes on with once the row is written. *)
AfterWrite == [update |-> "emit", retry |-> "enqueue", cancel |-> "auditCancel"]

(* updateBulkJobForSuperAdmin changes the columns the body names.  Every    *)
(* call of a retry starts a new history of audit events.                    *)
CallWrite(c) ==
  /\ call[c].pc = "write"
  /\ LET body == call[c].body
         kind == call[c].kind
         new == [f \in DOMAIN row |-> IF f \in DOMAIN body THEN body[f] ELSE row[f]]
     IN  /\ row' = new
         /\ audit' = IF kind = "retry" THEN {} ELSE audit
         /\ Goes(c, [pc |-> AfterWrite[kind], prev |-> call[c].prev, next |-> new.status])
  /\ UNCHANGED <<post, queue, work, overlap, retries, crashes>>

(* Mutant: only a job that was finished when the handler read it is queued. *)
EnqueueIfFinished(c) ==
  /\ call[c].pc = "enqueue"
  /\ queue' = IF call[c].prev \in Terminal THEN queue + 1 ELSE queue
  /\ call' = [call EXCEPT ![c].pc = "emit"]
  /\ UNCHANGED <<post, row, work, audit, overlap, retries, crashes>>

(* retry: emitSuperAdminBulkJob; its audit and identity events follow. *)
CallEnqueue(c) ==
  /\ call[c].pc = "enqueue"
  /\ queue' = queue + 1
  /\ call' = [call EXCEPT ![c].pc = "emit"]
  /\ UNCHANGED <<post, row, work, audit, overlap, retries, crashes>>

(* cancel: BULK_JOB_CANCELLED is recorded before anything is emitted. *)
CallAuditCancel(c) ==
  /\ call[c].pc = "auditCancel"
  /\ audit' = audit \cup {"CANCELLED"}
  /\ call' = [call EXCEPT ![c].pc = "emit"]
  /\ UNCHANGED <<post, row, queue, work, overlap, retries, crashes>>

(* Mutant: a job announces its end only once. *)
EmitFirstOutcome(c) ==
  /\ call[c].pc = "emit"
  /\ Goes(c, IF call[c].prev \notin Terminal /\ call[c].next \in Terminal
                THEN [pc |-> "auditEnd", next |-> call[c].next] ELSE Reply)
  /\ UNCHANGED <<post, row, queue, work, audit, overlap, retries, crashes>>

(* The progress event and the broadcast; the terminal event only if the     *)
(* status is not the one the handler read at its start.                     *)
CallEmit(c) ==
  /\ call[c].pc = "emit"
  /\ Goes(c, IF call[c].next # call[c].prev /\ call[c].next \in Terminal
                THEN [pc |-> "auditEnd", next |-> call[c].next] ELSE Reply)
  /\ UNCHANGED <<post, row, queue, work, audit, overlap, retries, crashes>>

CallAuditEnd(c) ==
  /\ call[c].pc = "auditEnd"
  /\ audit' = audit \cup {call[c].next}
  /\ Goes(c, Reply)
  /\ UNCHANGED <<post, row, queue, work, overlap, retries, crashes>>

CallStep(c) ==
  \/ CallRead(c) \/ CallWrite(c) \/ CallEnqueue(c)
  \/ CallAuditCancel(c) \/ CallEmit(c) \/ CallAuditEnd(c)

-----------------------------------------------------------------------------
(* Administrators *)

Ask(a, kind, body) ==
  /\ call[a] = NoCall
  /\ row # NoRow
  /\ Goes(a, Request(kind, body))
  /\ UNCHANGED <<post, row, queue, work, audit, overlap, crashes>>

Retry(a) ==
  /\ retries < MaxRetries
  /\ retries' = retries + 1
  /\ Ask(a, "retry", [status |-> "PENDING", completed |-> 0, failed |-> 0,
                      failures |-> {}, error |-> FALSE, result |-> FALSE])

Cancel(a) ==
  /\ Ask(a, "cancel", [status |-> "FAILED", error |-> TRUE, result |-> FALSE])
  /\ UNCHANGED retries

Answered(a) ==
  /\ call[a].pc = "reply"
  /\ Goes(a, NoCall)
  /\ UNCHANGED <<post, row, queue, work, audit, overlap, retries, crashes>>

(* An error of the handler, or of the connection, before or after the       *)
(* write: the rest of the handler does not run.                             *)
AdminCallFails(a) ==
  /\ call[a] # NoCall
  /\ Goes(a, NoCall)
  /\ UNCHANGED <<post, row, queue, work, audit, overlap, retries, crashes>>

-----------------------------------------------------------------------------
(* processSuperAdminBulkJob *)

(* The last update, when every user has been processed. *)
FinalBody(p) ==
  IF p.failed > 0
    THEN [status |-> "FAILED", completed |-> p.completed, failed |-> p.failed,
          failures |-> p.failures, error |-> TRUE]
  ELSE IF Export
    THEN [status |-> "SUCCEEDED", completed |-> p.completed, failed |-> p.failed,
          failures |-> p.failures, result |-> TRUE]
  ELSE [status |-> "SUCCEEDED", completed |-> p.completed, failed |-> p.failed,
        failures |-> p.failures]

(* The update the processor waits for in each of its steps.  A null          *)
(* errorMessage is no change: the route turns it into undefined.            *)
BodyOf(p) ==
  LET counts == [completed |-> p.completed, failed |-> p.failed]
      report == [completed |-> p.completed, failed |-> p.failed, failures |-> p.failures]
  IN  IF p.pc = "begin" THEN [status |-> "RUNNING", completed |-> 0, failed |-> 0]
      ELSE IF p.pc = "good" THEN counts
      ELSE IF p.pc = "bad" THEN report
      ELSE FinalBody(p)

(* Mutant: the catch block reports the user but does not count the failure. *)
BlameUncounted(p) == [p EXCEPT !.pc = "bad", !.failures = p.failures \cup {p.at}]

(* The catch block. *)
Blame(p) == [p EXCEPT !.pc = "bad", !.failed = p.failed + 1, !.failures = p.failures \cup {p.at}]

(* The next turn of the loop, or the final update after the last.  The      *)
(* payload's userIds are the row's.                                         *)
Advance(p) ==
  LET q == [p EXCEPT !.at = p.at + 1] IN
    IF p.at = Total THEN [p EXCEPT !.pc = "final"]
    ELSE IF q.at \in row.bad THEN Blame(q)
    ELSE [q EXCEPT !.pc = "good", !.completed = p.completed + 1]

(* A worker has a run of the job under way, an orphan a PATCH of one. *)
UnderWay(v) == call[v].pc \notin {"none", "reply"} \/ (v \in Workers /\ work[v] # Off)

Entangles ==
  overlap' = (overlap \/ \E v, u \in Runners : v # u /\ UnderWay(v)' /\ UnderWay(u)')

Sends(w, p, left) ==
  /\ work' = [work EXCEPT ![w] = p]
  /\ call' = [left EXCEPT ![w] = Request("update", BodyOf(p))]
  /\ Entangles

Stops(w, left) ==
  /\ work' = [work EXCEPT ![w] = Off]
  /\ call' = left
  /\ Entangles

(* The handlers once w waits for none: its own has ended, by an error if    *)
(* not by a reply, or runs on without it.                                   *)
Without(w) ==
  LET ended == [call EXCEPT ![w] = NoCall] IN
    {ended} \cup {[ended EXCEPT ![o] = call[w]] : o \in {v \in Orphans : ~ UnderWay(v)}}

Take(w) ==
  /\ queue > 0
  /\ work[w] = Off
  /\ queue' = queue - 1
  /\ Sends(w, [pc |-> "begin", at |-> 0, completed |-> 0, failed |-> 0, failures |-> {}], call)
  /\ UNCHANGED <<post, row, audit, retries, crashes>>

Replied(w) ==
  /\ call[w].pc = "reply"
  /\ IF work[w].pc = "final"
       THEN Stops(w, [call EXCEPT ![w] = NoCall])
       ELSE Sends(w, Advance(work[w]), call)
  /\ UNCHANGED <<post, row, queue, audit, retries, crashes>>

(* The update throws: the handler failed, or the connection to it did.      *)
(* Inside the try block the user, already counted as completed, is counted  *)
(* as failed too; anywhere else the processor throws, and with attempts: 1  *)
(* the BullMQ job is not run again.                                         *)
UpdateFails(w) ==
  /\ work[w] # Off
  /\ \E left \in Without(w) :
       IF work[w].pc = "good" THEN Sends(w, Blame(work[w]), left) ELSE Stops(w, left)
  /\ UNCHANGED <<post, row, queue, audit, retries, crashes>>

(* publishMetric throws after an update that went through. *)
MetricFails(w) ==
  /\ call[w].pc = "reply"
  /\ Stops(w, [call EXCEPT ![w] = NoCall])
  /\ UNCHANGED <<post, row, queue, audit, retries, crashes>>

(* The worker process dies, and BullMQ queues the stalled job again; the    *)
(* identity service knows of neither, and nothing orders what it still does *)
(* for the dead worker and the new run.                                     *)
Crash(w) ==
  /\ crashes < MaxCrashes
  /\ work[w] # Off
  /\ \E left \in Without(w) : Stops(w, left)
  /\ queue' = queue + 1
  /\ crashes' = crashes + 1
  /\ UNCHANGED <<post, row, audit, retries>>

-----------------------------------------------------------------------------
AdminStep(a) == Retry(a) \/ Cancel(a) \/ Answered(a)

WorkerStep(w) == Take(w) \/ Replied(w)

Next ==
  \/ PostCreate \/ PostEnqueue
  \/ \E c \in Callers : CallStep(c)
  \/ \E a \in Admins : AdminStep(a)
  \/ \E w \in Workers : WorkerStep(w)

FaultyNext ==
  \/ Next
  \/ PostFails
  \/ \E a \in Admins : AdminCallFails(a)
  \/ \E w \in Workers : UpdateFails(w) \/ MetricFails(w) \/ Crash(w)

Spec == Init /\ [][Next]_vars

FaultySpec == Init /\ [][FaultyNext]_vars

(* Handlers that are not interrupted run to their end, and idle workers     *)
(* take what is queued.  Administrators need not act.                       *)
FairSpec ==
  /\ Spec
  /\ WF_vars(PostEnqueue)
  /\ \A c \in Callers : WF_vars(CallStep(c))
  /\ \A a \in Admins : WF_vars(Answered(a))
  /\ \A w \in Workers : WF_vars(Take(w)) /\ WF_vars(Replied(w))

-----------------------------------------------------------------------------
(* A job that reads SUCCEEDED has processed every user and failed none:     *)
(* counts and status are written by different calls of processor, retry and *)
(* cancel, and stay consistent whatever call is lost and however often the  *)
(* worker crashes, unless two runs overlapped: nothing keeps the run of a   *)
(* retry, or of a stalled job, from starting while a worker or a handler is *)
(* still busy with the one before.                                          *)
SucceededIsComplete ==
  row # NoRow /\ row.status = "SUCCEEDED" /\ ~ overlap =>
    row.completed = Total /\ row.failed = 0 /\ row.failures = {}

Busy(w) == work[w] # Off \/ call[w] # NoCall

Quiet ==
  /\ post = "over" /\ queue = 0
  /\ \A c \in Callers : call[c] = NoCall
  /\ \A w \in Workers : work[w] = Off

(* The audit log tells how a finished job ended: the terminal event of its  *)
(* status, or the cancellation for a failed one, was recorded after the     *)
(* last retry, although each handler compares with a status read earlier,   *)
(* unless two runs overlapped, when the end of one run can be taken for     *)
(* that of the other.                                                       *)
(* docs/operations/runbooks/admin.md says it without exception: "Finished   *)
(* jobs surface in notifications and audit logs."                           *)
OutcomeIsAudited ==
  Quiet /\ row # NoRow /\ row.status \in Terminal /\ ~ overlap =>
    row.status \in audit \/ (row.status = "FAILED" /\ "CANCELLED" \in audit)

(* Without faults every job reaches an outcome and, once the administrators *)
(* stop retrying, keeps one.                                                *)
JobsSettle == post = "created" ~> [](row # NoRow /\ row.status \in Terminal)

-----------------------------------------------------------------------------
(* What the documentation says, and the code does not do *)

(* docs/operations/runbooks/worker.md: "jobs throw exceptions to trigger    *)
(* retries".  A running job whose worker threw is queued again.             *)
ThrownJobsAreRetried ==
  row # NoRow /\ row.status = "RUNNING" =>
    queue > 0 \/ (\E w \in Workers : Busy(w)) \/ (\E a \in Admins : call[a].pc = "enqueue")
=============================================================================
