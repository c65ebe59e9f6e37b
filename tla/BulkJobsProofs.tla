--------------------------- MODULE BulkJobsProofs ---------------------------
(* What a bulk job's row and its audit log say when the job is over, for    *)
(* any number of users, administrators, workers, retries and crashes, as    *)
(* long as no two runs of the job overlapped.                               *)
EXTENDS BulkJobs, FiniteSetTheorems, TLAPS

-----------------------------------------------------------------------------
(* The records the job is made of *)

Rows ==
  [status: Statuses, completed: 0..Total, failed: 0..Total,
   failures: SUBSET (1..Total), error: BOOLEAN, result: BOOLEAN, bad: BadSets]

(* The processor's variables.  completed and failed count users, one of     *)
(* which may be in both; without a failure every user so far is completed.  *)
Processors ==
  {p \in [pc: {"begin", "good", "bad", "final"}, at: 0..Total,
          completed: 0..Total, failed: 0..Total, failures: SUBSET (1..Total)] :
     /\ p.completed <= p.at /\ p.failed <= p.at
     /\ p.pc = "good" => p.failed < p.at
     /\ p.failed = 0 => p.completed = p.at /\ p.failures = {}
     /\ p.pc = "final" => p.at = Total}

StartBody == [status |-> "RUNNING", completed |-> 0, failed |-> 0]

RetryBody == [status |-> "PENDING", completed |-> 0, failed |-> 0,
              failures |-> {}, error |-> FALSE, result |-> FALSE]

CancelBody == [status |-> "FAILED", error |-> TRUE, result |-> FALSE]

(* What a caller asks for: a worker reports where its processor is, an      *)
(* orphan where one was.                                                    *)
Asks(c, kind, body) ==
  \/ /\ c \in Runners
     /\ kind = "update"
     /\ \E p \in Processors : body = BodyOf(p) /\ (c \in Workers => work[c] = p)
  \/ /\ c \in Admins
     /\ \/ kind = "retry" /\ body = RetryBody
        \/ kind = "cancel" /\ body = CancelBody

CallShape(c) ==
  \/ call[c] \in [pc: {"none", "reply"}]
  \/ /\ call[c] \in [pc: {"enqueue", "auditCancel", "emit"}, prev: Statuses, next: Statuses]
     /\ c \in Runners => call[c].pc = "emit"
  \/ call[c] \in [pc: {"auditEnd"}, next: Terminal]
  \/ \E kind \in Kinds : \E body :
       Asks(c, kind, body) /\ call[c] = [pc |-> "read", kind |-> kind, body |-> body]
  \/ \E kind \in Kinds, prev \in Statuses : \E body :
       /\ Asks(c, kind, body)
       /\ call[c] = [pc |-> "write", kind |-> kind, body |-> body, prev |-> prev]

(* Nothing happens before the row exists. *)
Untouched ==
  /\ queue = 0
  /\ \A c \in Callers : call[c] = NoCall
  /\ \A w \in Workers : work[w] = Off

Shape ==
  /\ post \in {"new", "created", "over"}
  /\ IF post = "new" THEN row = NoRow /\ Untouched ELSE row \in Rows
  /\ queue \in Nat
  /\ work \in [Workers -> {Off} \cup Processors]
  /\ DOMAIN call = Callers
  /\ \A c \in Callers : CallShape(c)
  /\ \A w \in Workers : work[w] = Off => call[w] = NoCall
  /\ audit \subseteq Terminal \cup {"CANCELLED"}
  /\ overlap \in BOOLEAN
  /\ retries \in 0..MaxRetries
  /\ crashes \in 0..MaxCrashes

LEMMA InitShape == JobAssumption /\ Init => Shape
<1> SUFFICES ASSUME JobAssumption, Init  PROVE Shape
  OBVIOUS
<1>1. /\ \A c \in Callers : call[c] = NoCall /\ CallShape(c)
      /\ \A w \in Workers : work[w] = Off /\ w \in Callers
  BY DEF Init, CallShape, NoCall, Callers, Runners
<1>2. Untouched /\ DOMAIN call = Callers /\ work \in [Workers -> {Off} \cup Processors]
  BY <1>1 DEF Init, Untouched
<1>3. 0 \in 0..MaxRetries /\ 0 \in 0..MaxCrashes
  BY DEF JobAssumption
<1> QED
  BY <1>1, <1>2, <1>3 DEF Init, Shape

(* The bodies of the calls, one by one. *)
LEMMA ProcessorBody ==
  ASSUME JobAssumption, NEW p \in Processors
  PROVE  \/ BodyOf(p) = StartBody
         \/ BodyOf(p) = [completed |-> p.completed, failed |-> p.failed]
         \/ BodyOf(p) = [completed |-> p.completed, failed |-> p.failed, failures |-> p.failures]
         \/ BodyOf(p) = [status |-> "FAILED", completed |-> p.completed, failed |-> p.failed,
                         failures |-> p.failures, error |-> TRUE]
         \/ /\ p.failed = 0 /\ p.completed = Total /\ p.failures = {}
            /\ \/ BodyOf(p) = [status |-> "SUCCEEDED", completed |-> p.completed, failed |-> p.failed,
                               failures |-> p.failures, result |-> TRUE]
               \/ BodyOf(p) = [status |-> "SUCCEEDED", completed |-> p.completed, failed |-> p.failed,
                               failures |-> p.failures]
<1>1. CASE p.pc = "final"
  <2>1. p.failed \in Nat
    BY DEF Processors, JobAssumption
  <2>2. CASE p.failed > 0
    BY <1>1, <2>2 DEF BodyOf, FinalBody
  <2>3. CASE p.failed = 0
    BY <1>1, <2>3 DEF BodyOf, FinalBody, Processors
  <2> QED
    BY <2>1, <2>2, <2>3
<1> QED
  BY <1>1 DEF BodyOf, StartBody, Processors

(* The rows a handler can write. *)
LEMMA Writes ==
  ASSUME JobAssumption, Shape, NEW c \in Callers, CallWrite(c)
  PROVE  /\ row \in Rows /\ row' \in Rows
         /\ \/ /\ c \in Admins /\ row'.status = "PENDING" /\ audit' = {}
               /\ call'[c] = [pc |-> "enqueue", prev |-> call[c].prev, next |-> row'.status]
            \/ /\ c \in Admins /\ row'.status = "FAILED" /\ audit' = audit
               /\ call'[c] = [pc |-> "auditCancel", prev |-> call[c].prev, next |-> row'.status]
            \/ /\ c \in Runners /\ call[c].kind = "update" /\ audit' = audit
               /\ call'[c] = [pc |-> "emit", prev |-> call[c].prev, next |-> row'.status]
               /\ "status" \in DOMAIN call[c].body => row'.status = call[c].body.status
               /\ \/ call[c].body = StartBody /\ row'.status = "RUNNING"
                  \/ "status" \notin DOMAIN call[c].body /\ row'.status = row.status
                  \/ "status" \in DOMAIN call[c].body /\ row'.status = "FAILED"
                  \/ /\ "status" \in DOMAIN call[c].body /\ row'.status = "SUCCEEDED"
                     /\ row'.completed = Total /\ row'.failed = 0 /\ row'.failures = {}
         /\ call[c].prev \in Statuses
<1>1. PICK kind \in Kinds, prev \in Statuses : \E body :
        /\ Asks(c, kind, body)
        /\ call[c] = [pc |-> "write", kind |-> kind, body |-> body, prev |-> prev]
  BY DEF CallWrite, Shape, CallShape
<1>2. PICK body :
        /\ Asks(c, kind, body)
        /\ call[c] = [pc |-> "write", kind |-> kind, body |-> body, prev |-> prev]
  BY <1>1
<1>3. row \in Rows
  BY <1>2 DEF Shape, Untouched, NoCall
<1>4. /\ row' = [f \in DOMAIN row |-> IF f \in DOMAIN body THEN body[f] ELSE row[f]]
      /\ audit' = IF kind = "retry" THEN {} ELSE audit
      /\ call'[c] = [pc |-> AfterWrite[kind], prev |-> prev, next |-> row'.status]
  BY <1>2, <1>3 DEF CallWrite, Goes, Shape, Rows
<1>5. DOMAIN row = {"status", "completed", "failed", "failures", "error", "result", "bad"}
  BY <1>3 DEF Rows
<1> DEFINE New(f) == IF f \in DOMAIN body THEN body[f] ELSE row[f]
<1>10. row' = [status |-> New("status"), completed |-> New("completed"), failed |-> New("failed"),
               failures |-> New("failures"), error |-> New("error"), result |-> New("result"),
               bad |-> New("bad")]
  BY <1>4, <1>5
<1>6. CASE c \in Admins /\ kind = "retry" /\ body = RetryBody
  <2>1. row' = [status |-> "PENDING", completed |-> 0, failed |-> 0, failures |-> {},
                error |-> FALSE, result |-> FALSE, bad |-> row.bad]
    BY <1>6, <1>10 DEF RetryBody
  <2>2. row' \in Rows
    BY <1>3, <2>1, JobAssumption DEF Rows, Statuses, JobAssumption
  <2>3. /\ audit' = {}
        /\ call'[c] = [pc |-> "enqueue", prev |-> prev, next |-> row'.status]
    BY <1>4, <1>6 DEF AfterWrite
  <2> QED
    BY <1>2, <1>3, <1>6, <2>1, <2>2, <2>3
<1>7. CASE c \in Admins /\ kind = "cancel" /\ body = CancelBody
  <2>1. row' = [status |-> "FAILED", completed |-> row.completed, failed |-> row.failed,
                failures |-> row.failures, error |-> TRUE, result |-> FALSE, bad |-> row.bad]
    BY <1>7, <1>10 DEF CancelBody
  <2>2. row' \in Rows
    BY <1>3, <2>1 DEF Rows, Statuses
  <2>3. /\ audit' = audit
        /\ call'[c] = [pc |-> "auditCancel", prev |-> prev, next |-> row'.status]
    BY <1>4, <1>7 DEF AfterWrite
  <2> QED
    BY <1>2, <1>3, <1>7, <2>1, <2>2, <2>3
<1>8. ASSUME c \in Runners, kind = "update", NEW p \in Processors, body = BodyOf(p)
      PROVE  /\ row' \in Rows
             /\ "status" \in DOMAIN body => row'.status = body.status
             /\ \/ body = StartBody /\ row'.status = "RUNNING"
                \/ "status" \notin DOMAIN body /\ row'.status = row.status
                \/ "status" \in DOMAIN body /\ row'.status = "FAILED"
                \/ /\ "status" \in DOMAIN body /\ row'.status = "SUCCEEDED"
                   /\ row'.completed = Total /\ row'.failed = 0 /\ row'.failures = {}
  <2>0. /\ p.completed \in 0..Total /\ p.failed \in 0..Total /\ p.failures \in SUBSET (1..Total)
        /\ 0 \in 0..Total
    BY JobAssumption DEF Processors, JobAssumption
  <2>1. CASE body = StartBody
    BY <1>3, <1>10, <2>0, <2>1 DEF StartBody, Rows, Statuses
  <2>2. CASE body = [completed |-> p.completed, failed |-> p.failed]
    BY <1>3, <1>10, <2>0, <2>2 DEF Rows, Statuses
  <2>3. CASE body = [completed |-> p.completed, failed |-> p.failed, failures |-> p.failures]
    BY <1>3, <1>10, <2>0, <2>3 DEF Rows, Statuses
  <2>4. CASE body = [status |-> "FAILED", completed |-> p.completed, failed |-> p.failed,
                     failures |-> p.failures, error |-> TRUE]
    BY <1>3, <1>10, <2>0, <2>4 DEF Rows, Statuses
  <2>5. CASE /\ p.failed = 0 /\ p.completed = Total /\ p.failures = {}
             /\ body = [status |-> "SUCCEEDED", completed |-> p.completed, failed |-> p.failed,
                        failures |-> p.failures, result |-> TRUE]
    BY <1>3, <1>10, <2>0, <2>5 DEF Rows, Statuses
  <2>6. CASE /\ p.failed = 0 /\ p.completed = Total /\ p.failures = {}
             /\ body = [status |-> "SUCCEEDED", completed |-> p.completed, failed |-> p.failed,
                        failures |-> p.failures]
    BY <1>3, <1>10, <2>0, <2>6 DEF Rows, Statuses
  <2> QED
    BY <1>8, <2>1, <2>2, <2>3, <2>4, <2>5, <2>6, ProcessorBody
<1>9. CASE c \in Runners /\ kind = "update" /\ \E p \in Processors : body = BodyOf(p)
  BY <1>2, <1>3, <1>4, <1>8, <1>9 DEF AfterWrite
<1> QED
  BY <1>2, <1>3, <1>6, <1>7, <1>9 DEF Asks

-----------------------------------------------------------------------------
(* The processor's steps *)

LEMMA BlameShape ==
  ASSUME JobAssumption, NEW p,
         p = [pc |-> p.pc, at |-> p.at, completed |-> p.completed, failed |-> p.failed,
              failures |-> p.failures],
         p.at \in 1..Total, p.completed \in 0..p.at, p.failed \in Nat, p.failed < p.at,
         p.failures \in SUBSET (1..Total)
  PROVE  Blame(p) \in Processors /\ Blame(p).pc = "bad"
<1> DEFINE b == [pc |-> "bad", at |-> p.at, completed |-> p.completed,
                 failed |-> p.failed + 1, failures |-> p.failures \cup {p.at}]
<1> DEFINE f == p.failed + 1
           g == p.failures \cup {p.at}
           p1 == [p EXCEPT !.pc = "bad"]
           p2 == [p1 EXCEPT !.failed = f]
<1>1. p1 = [pc |-> "bad", at |-> p.at, completed |-> p.completed, failed |-> p.failed,
            failures |-> p.failures]
  OBVIOUS
<1>2. Blame(p) = b
  <2>1. Blame(p) = [p2 EXCEPT !.failures = g]
    BY DEF Blame
  <2> HIDE DEF p1, f, g
  <2>2. p2 = [pc |-> "bad", at |-> p.at, completed |-> p.completed, failed |-> f,
              failures |-> p.failures]
    BY <1>1
  <2> HIDE DEF p2
  <2>3. [p2 EXCEPT !.failures = g] =
          [pc |-> "bad", at |-> p.at, completed |-> p.completed, failed |-> f, failures |-> g]
    BY <2>2
  <2> QED
    BY <2>1, <2>3 DEF f, g
<1>3. /\ b.at \in 0..Total /\ b.completed \in 0..Total /\ b.failed \in 0..Total
      /\ b.completed <= b.at /\ b.failed <= b.at /\ b.failed # 0
      /\ b.failures \in SUBSET (1..Total)
  BY DEF JobAssumption
<1>4. b \in [pc: {"begin", "good", "bad", "final"}, at: 0..Total,
            completed: 0..Total, failed: 0..Total, failures: SUBSET (1..Total)]
  BY <1>3
<1> QED
  BY <1>2, <1>3, <1>4 DEF Processors

LEMMA AdvanceShape ==
  ASSUME JobAssumption, NEW p \in Processors, p.pc \in {"begin", "good", "bad"}
  PROVE  Advance(p) \in Processors /\ Advance(p).pc \in {"good", "bad", "final"}
<1>1. CASE p.at = Total
  BY <1>1 DEF JobAssumption, Processors, Advance
<1>2. CASE p.at # Total
  <2> DEFINE q == [p EXCEPT !.at = p.at + 1]
  <2>1. /\ q.pc \in {"begin", "good", "bad", "final"} /\ q.at \in 1..Total
        /\ q.at = p.at + 1 /\ q.completed = p.completed /\ q.failed = p.failed
        /\ q.failures = p.failures /\ p.at \in Nat /\ p.failed \in Nat /\ p.completed \in Nat
        /\ q = [pc |-> p.pc, at |-> p.at + 1, completed |-> p.completed, failed |-> p.failed,
                failures |-> p.failures]
    BY <1>2 DEF JobAssumption, Processors
  <2>2. CASE q.at \in row.bad
    <3>1. Advance(p) = Blame(q)
      BY <1>2, <2>2 DEF Advance
    <3>2. /\ q = [pc |-> q.pc, at |-> q.at, completed |-> q.completed, failed |-> q.failed,
                  failures |-> q.failures]
          /\ q.at \in 1..Total /\ q.completed \in 0..q.at
          /\ q.failed \in Nat /\ q.failed < q.at
          /\ q.failures \in SUBSET (1..Total)
      BY <1>2, <2>1 DEF JobAssumption, Processors
    <3> HIDE DEF q
    <3> QED
      BY <3>1, <3>2, BlameShape
  <2>3. CASE q.at \notin row.bad
    <3>1. Advance(p) = [pc |-> "good", at |-> p.at + 1, completed |-> p.completed + 1,
                        failed |-> p.failed, failures |-> p.failures]
      BY <1>2, <2>1, <2>3 DEF Advance
    <3> QED
      BY <1>2, <2>1, <3>1 DEF JobAssumption, Processors
  <2> QED
    BY <2>2, <2>3
<1> QED
  BY <1>1, <1>2

-----------------------------------------------------------------------------
(* Every step keeps the shape *)

LEMMA CallKept ==
  ASSUME NEW c \in Callers, CallShape(c), call'[c] = call[c],
         c \in Workers => work'[c] = work[c]
  PROVE  CallShape(c)'
BY DEF CallShape, Asks

LEMMA StartsWithTheRow ==
  ASSUME JobAssumption, Shape, FaultyNext, post = "new"
  PROVE  PostCreate
<1>1. /\ row = NoRow /\ queue = 0
      /\ \A c \in Callers : call[c] = NoCall
      /\ \A w \in Workers : work[w] = Off /\ call[w] = NoCall
      /\ \A a \in Admins : call[a] = NoCall
  BY DEF Shape, Untouched, Callers, Runners
<1>2. \A c \in Callers : ~ CallStep(c)
  BY <1>1 DEF CallStep, CallRead, CallWrite, CallEnqueue, CallAuditCancel, CallEmit, CallAuditEnd, NoCall
<1>3. \A a \in Admins : ~ AdminStep(a) /\ ~ AdminCallFails(a)
  BY <1>1 DEF AdminStep, Retry, Cancel, Ask, Answered, AdminCallFails, NoCall
<1>4. \A w \in Workers : ~ Take(w) /\ ~ Replied(w) /\ ~ UpdateFails(w) /\ ~ MetricFails(w) /\ ~ Crash(w)
  BY <1>1 DEF Take, Replied, UpdateFails, MetricFails, Crash, NoCall, Off
<1> QED
  BY <1>2, <1>3, <1>4 DEF FaultyNext, Next, WorkerStep, PostEnqueue, PostFails

(* A step of the handler a caller waits for. *)
LEMMA CallStepShape ==
  ASSUME JobAssumption, Shape, NEW c \in Callers, CallStep(c), post # "new"
  PROVE  Shape'
<1>0. row \in Rows /\ CallShape(c) /\ DOMAIN call = Callers
  BY DEF Shape
<1>9. call[c] # NoCall
  BY DEF CallStep, CallRead, CallWrite, CallEnqueue, CallAuditCancel, CallEmit, CallAuditEnd, NoCall
<1>1. ASSUME NEW h, call' = [call EXCEPT ![c] = h], UNCHANGED work, CallShape(c)'
      PROVE  /\ DOMAIN call' = Callers /\ \A d \in Callers : CallShape(d)'
             /\ \A w \in Workers : work'[w] = Off => call'[w] = NoCall
  <2>1. \A d \in Callers : CallShape(d)'
    BY <1>0, <1>1, CallKept DEF Shape
  <2> QED
    BY <1>0, <1>1, <1>9, <2>1 DEF Shape
<1>2. CASE CallRead(c)
  <2>1. PICK kind \in Kinds : \E body :
          Asks(c, kind, body) /\ call[c] = [pc |-> "read", kind |-> kind, body |-> body]
    BY <1>0, <1>2 DEF CallRead, CallShape
  <2>2. PICK body : Asks(c, kind, body) /\ call[c] = [pc |-> "read", kind |-> kind, body |-> body]
    BY <2>1
  <2>3. /\ call' = [call EXCEPT ![c] = [pc |-> "write", kind |-> kind, body |-> body, prev |-> row.status]]
        /\ row.status \in Statuses
    BY <1>0, <1>2, <2>2 DEF CallRead, Goes, Rows
  <2>4. Asks(c, kind, body)'
    BY <1>2, <2>2 DEF CallRead, Asks
  <2>5. CallShape(c)'
    BY <1>0, <2>3, <2>4 DEF CallShape
  <2> QED
    BY <1>1, <1>2, <2>3, <2>5 DEF CallRead, Shape
<1>3. CASE CallWrite(c)
  <2>1. row' \in Rows /\ audit' \subseteq Terminal \cup {"CANCELLED"}
    BY <1>3, Writes DEF Shape
  <2>2. PICK pc \in {"enqueue", "auditCancel", "emit"} :
          /\ call'[c] = [pc |-> pc, prev |-> call[c].prev, next |-> row'.status]
          /\ call[c].prev \in Statuses
          /\ c \in Runners => pc = "emit"
    BY <1>3, Writes DEF Runners, JobAssumption
  <2>3. CallShape(c)'
    BY <2>1, <2>2 DEF CallShape, Rows
  <2> QED
    BY <1>1, <1>3, <2>1, <2>3 DEF CallWrite, Goes, Shape
<1>4. CASE CallEnqueue(c) \/ CallAuditCancel(c)
  <2>1. call[c] \in [pc: {"enqueue", "auditCancel", "emit"}, prev: Statuses, next: Statuses]
    BY <1>0, <1>4 DEF CallEnqueue, CallAuditCancel, CallShape
  <2>2. call' = [call EXCEPT ![c] = [pc |-> "emit", prev |-> call[c].prev, next |-> call[c].next]]
    BY <1>0, <1>4, <2>1 DEF CallEnqueue, CallAuditCancel
  <2>3. CallShape(c)'
    BY <1>0, <2>1, <2>2 DEF CallShape
  <2>4. queue' \in Nat /\ audit' \subseteq Terminal \cup {"CANCELLED"}
    BY <1>4 DEF CallEnqueue, CallAuditCancel, Shape
  <2> QED
    BY <1>1, <1>4, <2>2, <2>3, <2>4 DEF CallEnqueue, CallAuditCancel, Shape
<1>5. CASE CallEmit(c)
  <2>1. call'[c] = Reply \/ (call[c].next \in Terminal /\ call'[c] = [pc |-> "auditEnd", next |-> call[c].next])
    BY <1>0, <1>5 DEF CallEmit, Goes
  <2>2. CallShape(c)'
    BY <2>1 DEF CallShape, Reply
  <2> QED
    BY <1>1, <1>5, <2>2 DEF CallEmit, Goes, Shape
<1>6. CASE CallAuditEnd(c)
  <2>1. call[c].next \in Terminal
    BY <1>0, <1>6 DEF CallAuditEnd, CallShape
  <2>2. call'[c] = Reply
    BY <1>0, <1>6 DEF CallAuditEnd, Goes
  <2>3. CallShape(c)'
    BY <2>2 DEF CallShape, Reply
  <2> QED
    BY <1>1, <1>6, <2>1, <2>3 DEF CallAuditEnd, Goes, Shape
<1> QED
  BY <1>2, <1>3, <1>4, <1>5, <1>6 DEF CallStep

(* A step of an administrator. *)
LEMMA AdminShape ==
  ASSUME JobAssumption, Shape, NEW a \in Admins, AdminStep(a) \/ AdminCallFails(a), post # "new"
  PROVE  Shape'
<1>0. a \in Callers /\ a \notin Workers /\ DOMAIN call = Callers
  BY DEF Callers, Shape, JobAssumption
<1>1. ASSUME NEW h, call' = [call EXCEPT ![a] = h], UNCHANGED work, CallShape(a)'
      PROVE  /\ DOMAIN call' = Callers /\ \A d \in Callers : CallShape(d)'
             /\ \A w \in Workers : work'[w] = Off => call'[w] = NoCall
  <2>1. \A d \in Callers : CallShape(d)'
    BY <1>0, <1>1, CallKept DEF Shape
  <2> QED
    BY <1>0, <1>1, <2>1 DEF Shape
<1>2. CASE Retry(a)
  <2>1. call' = [call EXCEPT ![a] = [pc |-> "read", kind |-> "retry", body |-> RetryBody]]
    BY <1>2 DEF Retry, Ask, Goes, Request, RetryBody
  <2>2. CallShape(a)'
    BY <1>0, <2>1 DEF CallShape, Asks, Kinds
  <2>3. retries' \in 0..MaxRetries
    BY <1>2, JobAssumption DEF Retry, Shape, JobAssumption
  <2> QED
    BY <1>1, <1>2, <2>1, <2>2, <2>3 DEF Retry, Ask, Shape
<1>3. CASE Cancel(a)
  <2>1. call' = [call EXCEPT ![a] = [pc |-> "read", kind |-> "cancel", body |-> CancelBody]]
    BY <1>3 DEF Cancel, Ask, Goes, Request, CancelBody
  <2>2. CallShape(a)'
    BY <1>0, <2>1 DEF CallShape, Asks, Kinds
  <2> QED
    BY <1>1, <1>3, <2>1, <2>2 DEF Cancel, Ask, Shape
<1>4. CASE Answered(a) \/ AdminCallFails(a)
  <2>1. call' = [call EXCEPT ![a] = NoCall]
    BY <1>4 DEF Answered, AdminCallFails, Goes
  <2>2. CallShape(a)'
    BY <1>0, <2>1 DEF CallShape, NoCall
  <2> QED
    BY <1>1, <1>4, <2>1, <2>2 DEF Answered, AdminCallFails, Shape
<1> QED
  BY <1>2, <1>3, <1>4 DEF AdminStep

(* The handlers are those there were, but for the worker's own, which an    *)
(* orphan may have become.                                                  *)
LEMMA WhatIsLeft ==
  ASSUME JobAssumption, Shape, NEW w \in Workers, NEW left \in {call} \cup Without(w)
  PROVE  /\ DOMAIN left = Callers
         /\ left \in Without(w) => left[w] = NoCall
         /\ \A d \in Callers \ {w} :
              left[d] = call[d] \/ (d \in Orphans /\ ~ UnderWay(d) /\ left[d] = call[w])
<1>1. w \in Callers /\ w \notin Orphans /\ DOMAIN call = Callers
  BY DEF Callers, Runners, Shape, JobAssumption
<1> DEFINE ended == [call EXCEPT ![w] = NoCall]
<1>2. DOMAIN ended = Callers /\ ended[w] = NoCall /\ \A d \in Callers \ {w} : ended[d] = call[d]
  BY <1>1
<1>3. left = call \/ left = ended
      \/ \E o \in Orphans : ~ UnderWay(o) /\ left = [ended EXCEPT ![o] = call[w]]
  BY DEF Without
<1>4. CASE left = call
  <2>1. call \notin Without(w) \/ call[w] = NoCall
    <3> SUFFICES ASSUME call \in Without(w)  PROVE call[w] = NoCall
      OBVIOUS
    <3>1. call = ended \/ \E o \in Orphans : call = [ended EXCEPT ![o] = call[w]]
      BY DEF Without
    <3> HIDE DEF ended
    <3> QED
      BY <1>1, <1>2, <3>1
  <2> QED
    BY <1>1, <1>4, <2>1
<1> HIDE DEF ended
<1>5. CASE left = ended
  BY <1>2, <1>5
<1>6. ASSUME NEW o \in Orphans, ~ UnderWay(o), left = [ended EXCEPT ![o] = call[w]]
      PROVE  /\ DOMAIN left = Callers /\ left[w] = NoCall
             /\ \A d \in Callers \ {w} :
                  left[d] = call[d] \/ (d \in Orphans /\ ~ UnderWay(d) /\ left[d] = call[w])
  BY <1>1, <1>2, <1>6
<1> QED
  BY <1>3, <1>4, <1>5, <1>6

(* A worker stops, or its processor sends the next report. *)
LEMMA WorkerMoves ==
  ASSUME JobAssumption, Shape, NEW w \in Workers,
         WorkerStep(w) \/ UpdateFails(w) \/ MetricFails(w) \/ Crash(w)
  PROVE  /\ \E left \in {call} \cup Without(w) :
              \/ left \in Without(w) /\ Stops(w, left)
              \/ \E p \in Processors : Sends(w, p, left)
         /\ UNCHANGED <<post, row, audit, retries>>
         /\ queue' \in Nat /\ crashes' \in 0..MaxCrashes
<1>0. work[w] \in {Off} \cup Processors /\ (work[w] = Off => call[w] = NoCall)
  BY DEF Shape
<1>1. [call EXCEPT ![w] = NoCall] \in Without(w)
  BY DEF Without
<1>2. CASE Take(w)
  <2> DEFINE p == [pc |-> "begin", at |-> 0, completed |-> 0, failed |-> 0, failures |-> {}]
  <2>1. p \in Processors
    BY JobAssumption DEF Processors, JobAssumption
  <2>2. Sends(w, p, call) /\ queue' \in Nat
    BY <1>2 DEF Take, Shape
  <2> HIDE DEF p
  <2> QED
    BY <1>2, <2>1, <2>2 DEF Take, Shape
<1>3. CASE Replied(w)
  <2>1. work[w] \in Processors
    BY <1>0, <1>3 DEF Replied, NoCall
  <2>2. CASE work[w].pc = "final"
    BY <1>1, <1>3, <2>2 DEF Replied, Shape
  <2>3. CASE work[w].pc # "final"
    <3>1. Sends(w, Advance(work[w]), call) /\ Advance(work[w]) \in Processors
      BY <1>3, <2>1, <2>3, AdvanceShape DEF Replied, Processors
    <3> QED
      BY <1>3, <3>1 DEF Replied, Shape
  <2> QED
    BY <2>2, <2>3
<1>4. CASE UpdateFails(w)
  <2>1. work[w] \in Processors
    BY <1>0, <1>4 DEF UpdateFails
  <2>2. PICK left \in Without(w) :
          IF work[w].pc = "good" THEN Sends(w, Blame(work[w]), left) ELSE Stops(w, left)
    BY <1>4 DEF UpdateFails
  <2>3. CASE work[w].pc = "good"
    <3>1. Blame(work[w]) \in Processors
      BY <2>1, <2>3, BlameShape DEF Processors, JobAssumption
    <3> QED
      BY <1>4, <2>2, <2>3, <3>1 DEF UpdateFails, Shape
  <2>4. CASE work[w].pc # "good"
    BY <1>4, <2>2, <2>4 DEF UpdateFails, Shape
  <2> QED
    BY <2>3, <2>4
<1>5. CASE MetricFails(w)
  BY <1>1, <1>5 DEF MetricFails, Shape
<1>6. CASE Crash(w)
  <2>1. queue' \in Nat /\ crashes' \in 0..MaxCrashes
    BY <1>6, JobAssumption DEF Crash, Shape, JobAssumption
  <2> QED
    BY <1>6, <2>1 DEF Crash
<1> QED
  BY <1>2, <1>3, <1>4, <1>5, <1>6 DEF WorkerStep

(* What becomes of the calls. *)
LEMMA WorkerCalls ==
  ASSUME JobAssumption, Shape, NEW w \in Workers,
         WorkerStep(w) \/ UpdateFails(w) \/ MetricFails(w) \/ Crash(w)
  PROVE  /\ DOMAIN call' = Callers /\ DOMAIN work' = Workers
         /\ \A d \in Callers \ {w} :
              call'[d] = call[d] \/ (d \in Orphans /\ ~ UnderWay(d) /\ call'[d] = call[w])
         /\ \A v \in Workers \ {w} : work'[v] = work[v]
         /\ \/ call'[w] = NoCall /\ work'[w] = Off
            \/ \E p \in Processors :
                 /\ call'[w] = [pc |-> "read", kind |-> "update", body |-> BodyOf(p)]
                 /\ work'[w] = p
         /\ Entangles
<1>1. PICK left \in {call} \cup Without(w) :
        \/ left \in Without(w) /\ Stops(w, left)
        \/ \E p \in Processors : Sends(w, p, left)
  BY WorkerMoves
<1>2. /\ DOMAIN left = Callers /\ w \in Callers /\ DOMAIN work = Workers
      /\ left \in Without(w) => left[w] = NoCall
      /\ \A d \in Callers \ {w} :
           left[d] = call[d] \/ (d \in Orphans /\ ~ UnderWay(d) /\ left[d] = call[w])
  BY WhatIsLeft DEF Callers, Runners, Shape
<1>3. CASE left \in Without(w) /\ Stops(w, left)
  BY <1>2, <1>3 DEF Stops
<1>4. ASSUME NEW p \in Processors, Sends(w, p, left)
      PROVE  /\ DOMAIN call' = Callers /\ DOMAIN work' = Workers
             /\ \A d \in Callers \ {w} : call'[d] = left[d]
             /\ \A v \in Workers \ {w} : work'[v] = work[v]
             /\ call'[w] = [pc |-> "read", kind |-> "update", body |-> BodyOf(p)]
             /\ work'[w] = p
             /\ Entangles
  BY <1>2, <1>4 DEF Sends, Request
<1> QED
  BY <1>1, <1>2, <1>3, <1>4

(* A step of a worker: its processor reports, or stops. *)
LEMMA WorkerShape ==
  ASSUME JobAssumption, Shape, NEW w \in Workers, post # "new",
         WorkerStep(w) \/ UpdateFails(w) \/ MetricFails(w) \/ Crash(w)
  PROVE  Shape'
<1>0. /\ w \in Callers /\ w \in Runners /\ w \notin Orphans
      /\ Workers \cap Admins = {} /\ Orphans \cap Admins = {} /\ Orphans \cap Workers = {}
      /\ DOMAIN work = Workers
  BY DEF Callers, Runners, Shape, JobAssumption
<1>1. /\ DOMAIN call' = Callers /\ DOMAIN work' = Workers
      /\ \A d \in Callers \ {w} :
           call'[d] = call[d] \/ (d \in Orphans /\ call'[d] = call[w])
      /\ \A v \in Workers \ {w} : work'[v] = work[v]
      /\ \/ call'[w] = NoCall /\ work'[w] = Off
         \/ \E p \in Processors :
              /\ call'[w] = [pc |-> "read", kind |-> "update", body |-> BodyOf(p)]
              /\ work'[w] = p
      /\ Entangles
  BY WorkerCalls
<1>2. CallShape(w)'
  <2>1. CASE call'[w] = NoCall
    BY <2>1 DEF CallShape, NoCall
  <2>2. ASSUME NEW p \in Processors, work'[w] = p,
               call'[w] = [pc |-> "read", kind |-> "update", body |-> BodyOf(p)]
        PROVE  CallShape(w)'
    <3>1. BodyOf(p) = BodyOf(p)'
      BY DEF BodyOf, FinalBody
    <3>2. Asks(w, "update", BodyOf(p))'
      BY <1>0, <2>2, <3>1 DEF Asks
    <3> QED
      BY <2>2, <3>2 DEF CallShape, Kinds
  <2> QED
    BY <1>1, <2>1, <2>2
<1>3. ASSUME NEW o \in Orphans, call'[o] = call[w]
      PROVE  CallShape(o)'
  <2>1. CallShape(w)
    BY <1>0 DEF Shape
  <2>2. ASSUME NEW kind, NEW body, Asks(w, kind, body)
        PROVE  Asks(o, kind, body)'
    <3>1. /\ kind = "update"
          /\ \E p \in Processors : body = BodyOf(p)
      BY <1>0, <2>2 DEF Asks
    <3>2. PICK p \in Processors : body = BodyOf(p)
      BY <3>1
    <3>3. BodyOf(p) = BodyOf(p)'
      BY DEF BodyOf, FinalBody
    <3> QED
      BY <1>0, <3>1, <3>2, <3>3 DEF Asks, Runners
  <2> QED
    BY <1>0, <1>3, <2>1, <2>2 DEF CallShape
<1>4. ASSUME NEW d \in Callers
      PROVE  CallShape(d)'
  BY <1>0, <1>1, <1>2, <1>3, CallKept DEF Shape
<1>5. work' \in [Workers -> {Off} \cup Processors]
  <2>1. work' = [work EXCEPT ![w] = work'[w]]
    <3>1. \E p : work' = [work EXCEPT ![w] = p]
      BY WorkerMoves DEF Stops, Sends
    <3> QED
      BY <1>0, <3>1
  <2>2. work'[w] \in {Off} \cup Processors
    BY <1>1
  <2> QED
    BY <1>0, <2>1, <2>2 DEF Shape
<1>6. \A v \in Workers : work'[v] = Off => call'[v] = NoCall
  <2>1. ASSUME NEW p \in Processors, work'[w] = p
        PROVE  work'[w] # Off
    BY <2>1 DEF Processors, Off
  <2> QED
    BY <1>0, <1>1, <2>1 DEF Shape, Callers, Runners
<1>7. overlap' \in BOOLEAN
  BY <1>1 DEF Entangles
<1>8. UNCHANGED <<post, row, audit, retries>> /\ queue' \in Nat /\ crashes' \in 0..MaxCrashes
  BY WorkerMoves
<1> QED
  BY <1>1, <1>4, <1>5, <1>6, <1>7, <1>8 DEF Shape

LEMMA NextShape ==
  ASSUME JobAssumption, Shape, [FaultyNext]_vars
  PROVE  Shape'
<1>1. CASE UNCHANGED vars
  BY <1>1 DEF vars, Shape, Untouched, CallShape, Asks
<1>2. CASE PostCreate
  <2>1. row' \in Rows
    BY <1>2, JobAssumption DEF PostCreate, Rows, Statuses, JobAssumption
  <2>2. \A d \in Callers : CallShape(d)'
    BY <1>2, CallKept DEF PostCreate, Shape
  <2> QED
    BY <1>2, <2>1, <2>2 DEF PostCreate, Shape
<1>3. CASE PostEnqueue \/ PostFails
  <2>1. \A d \in Callers : CallShape(d)'
    BY <1>3, CallKept DEF PostEnqueue, PostFails, Shape
  <2> QED
    BY <1>3, <2>1 DEF PostEnqueue, PostFails, Shape
<1> QED
  BY <1>1, <1>2, <1>3, StartsWithTheRow, CallStepShape, AdminShape, WorkerShape
     DEF FaultyNext, Next

-----------------------------------------------------------------------------
(* Success *)

(* Short of an overlap, one worker or orphan at a time is busy with the job. *)
OneRun == ~ overlap => \A v, u \in Runners : UnderWay(v) /\ UnderWay(u) => v = u

(* A processor is past its first update and has not made its last, or what  *)
(* an orphan writes is an update in between.                                *)
Running(v) ==
  \/ call[v].pc \in {"read", "write"} /\ "status" \notin DOMAIN call[v].body
  \/ /\ v \in Workers
     /\ call[v].pc \notin {"read", "write"} /\ work[v].pc \in {"begin", "good", "bad"}

(* Nobody but the final update reports success, and it takes a first        *)
(* update to get there.                                                     *)
NoEarlySuccess == ~ overlap => \A v \in Runners : Running(v) => row.status # "SUCCEEDED"

LEMMA BodyStatus ==
  ASSUME JobAssumption, NEW p \in Processors
  PROVE  /\ "status" \in DOMAIN BodyOf(p) <=> p.pc \in {"begin", "final"}
         /\ p.pc = "begin" <=> BodyOf(p) = StartBody
<1>1. CASE p.pc = "final"
  <2>1. p.failed \in Nat
    BY DEF Processors, JobAssumption
  <2>2. CASE p.failed > 0
    BY <1>1, <2>2 DEF BodyOf, FinalBody, StartBody
  <2>3. CASE p.failed = 0
    BY <1>1, <2>3 DEF BodyOf, FinalBody, StartBody
  <2> QED
    BY <2>1, <2>2, <2>3
<1>2. CASE p.pc = "begin"
  BY <1>2 DEF BodyOf, StartBody
<1>3. CASE p.pc \in {"good", "bad"}
  BY <1>3 DEF BodyOf, StartBody
<1> QED
  BY <1>1, <1>2, <1>3 DEF Processors

(* What an unfinished call says of the processor. *)
LEMMA ReportOf ==
  ASSUME JobAssumption, Shape, NEW v \in Runners, call[v].pc \in {"read", "write"}
  PROVE  \E p \in Processors : call[v].body = BodyOf(p) /\ (v \in Workers => work[v] = p)
<1>1. CallShape(v) /\ v \notin Admins
  BY DEF Shape, Callers, Runners, JobAssumption
<1>2. PICK kind \in Kinds : \E body : Asks(v, kind, body) /\ call[v].body = body
  <2>1. CASE \E kind \in Kinds : \E body :
               Asks(v, kind, body) /\ call[v] = [pc |-> "read", kind |-> kind, body |-> body]
    BY <2>1
  <2>2. CASE \E kind \in Kinds, prev \in Statuses : \E body :
               /\ Asks(v, kind, body)
               /\ call[v] = [pc |-> "write", kind |-> kind, body |-> body, prev |-> prev]
    <3>1. PICK kind \in Kinds, prev \in Statuses : \E body :
               /\ Asks(v, kind, body)
               /\ call[v] = [pc |-> "write", kind |-> kind, body |-> body, prev |-> prev]
      BY <2>2
    <3> QED
      BY <3>1
  <2> QED
    BY <1>1, <2>1, <2>2 DEF CallShape
<1>3. PICK body : Asks(v, kind, body) /\ call[v].body = body
  BY <1>2
<1> QED
  BY <1>1, <1>3 DEF Asks

(* A worker's own steps take its processor past the first update only when  *)
(* it was, and leave an orphan only an update it had under way.             *)
LEMMA WorkerRunsOn ==
  ASSUME JobAssumption, Shape, NEW w \in Workers,
         WorkerStep(w) \/ UpdateFails(w) \/ MetricFails(w) \/ Crash(w),
         NEW v \in Runners, Running(v)'
  PROVE  \E u \in Runners : Running(u)
<1>0. /\ w \in Runners /\ w \in Callers /\ v \in Callers
      /\ work[w] \in {Off} \cup Processors
      /\ Orphans \cap Workers = {}
      /\ work[w] = Off => call[w] = NoCall
  BY DEF Runners, Callers, Shape, JobAssumption
<1>1. /\ \A d \in Callers \ {w} : call'[d] = call[d] \/ (d \in Orphans /\ call'[d] = call[w])
      /\ \A u \in Workers \ {w} : work'[u] = work[u]
      /\ \/ call'[w] = NoCall /\ work'[w] = Off
         \/ \E p \in Processors :
              /\ call'[w] = [pc |-> "read", kind |-> "update", body |-> BodyOf(p)]
              /\ work'[w] = p
  BY WorkerCalls
<1>2. CASE v # w /\ call'[v] = call[v]
  BY <1>1, <1>2 DEF Running
<1>3. CASE v # w /\ v \in Orphans /\ call'[v] = call[w]
  <2>1. call[w].pc \in {"read", "write"} /\ "status" \notin DOMAIN call[w].body
    BY <1>0, <1>3 DEF Running
  <2> QED
    BY <1>0, <2>1 DEF Running
<1>4. CASE v = w
  <2>1. call'[w] # NoCall
    <3> SUFFICES ASSUME call'[w] = NoCall  PROVE FALSE
      OBVIOUS
    <3>1. call'[w].pc = "none"
      BY DEF NoCall
    <3>2. ASSUME NEW p \in Processors,
                 call'[w] = [pc |-> "read", kind |-> "update", body |-> BodyOf(p)]
          PROVE  FALSE
      BY <3>1, <3>2
    <3>3. work'[w] = Off
      BY <1>1, <3>2
    <3> QED
      BY <1>4, <3>1, <3>3 DEF Off, Running
  <2>2. PICK p \in Processors :
          /\ call'[w] = [pc |-> "read", kind |-> "update", body |-> BodyOf(p)]
          /\ work'[w] = p
    BY <1>1, <2>1
  <2>3. "status" \notin DOMAIN BodyOf(p)
    BY <1>4, <2>2 DEF Running
  <2>4. p.pc \in {"good", "bad"}
    BY <2>3, BodyStatus DEF Processors
  <2>5. work[w] \in Processors /\ work[w].pc \in {"begin", "good", "bad"}
        /\ (call[w].pc = "reply" \/ work[w].pc = "good")
    <3>1. ~ Take(w)
      <4> DEFINE q == [pc |-> "begin", at |-> 0, completed |-> 0, failed |-> 0, failures |-> {}]
      <4> SUFFICES ASSUME Take(w)  PROVE FALSE
        OBVIOUS
      <4>1. Sends(w, q, call)
        BY DEF Take
      <4>2. work'[w] = q
        BY <1>0, <4>1 DEF Sends, Shape
      <4> QED
        BY <2>2, <2>4, <4>2
    <3>2. \A left : ~ Stops(w, left)
      <4> SUFFICES ASSUME NEW left, Stops(w, left)  PROVE FALSE
        OBVIOUS
      <4>1. work'[w] = Off
        BY <1>0 DEF Stops, Shape
      <4> QED
        BY <2>2, <2>4, <4>1 DEF Off
    <3>3. CASE Replied(w)
      BY <1>0, <3>2, <3>3 DEF Replied, NoCall, Processors
    <3>4. CASE UpdateFails(w)
      BY <1>0, <3>2, <3>4 DEF UpdateFails, Processors
    <3> QED
      BY <3>1, <3>2, <3>3, <3>4 DEF WorkerStep, MetricFails, Crash
  <2>6. CASE call[w].pc \in {"read", "write"}
    <3>1. call[w].body = BodyOf(work[w])
      BY <1>0, <2>6, ReportOf
    <3>2. work[w].pc = "good"
      BY <2>5, <2>6
    <3> QED
      BY <1>0, <2>5, <2>6, <3>1, <3>2, BodyStatus DEF Running
  <2>7. CASE call[w].pc \notin {"read", "write"}
    BY <1>0, <2>5, <2>7 DEF Running
  <2> QED
    BY <2>6, <2>7
<1> QED
  BY <1>0, <1>1, <1>2, <1>3, <1>4

(* Nothing runs that did not, but for the processor whose first update has  *)
(* just been written.                                                       *)
LEMMA RunsOn ==
  ASSUME JobAssumption, Shape, [FaultyNext]_vars, NEW v \in Runners, Running(v)'
  PROVE  \E u \in Runners : Running(u) \/ (CallWrite(u) /\ call[u].body = StartBody)
<1>0. /\ v \in Callers /\ DOMAIN call = Callers /\ DOMAIN work = Workers
      /\ v \in Workers => work[v] \in {Off} \cup Processors
      /\ CallShape(v)
  BY DEF Callers, Runners, Shape
<1>1. CASE call'[v] = call[v] /\ work' = work
  BY <1>1 DEF Running
<1>2. CASE CallRead(v)
  BY <1>0, <1>2 DEF CallRead, Goes, Running
<1>3. CASE CallWrite(v)
  <2>1. /\ call[v].pc = "write" /\ call'[v].pc \notin {"read", "write"}
        /\ work' = work
    <3>1. PICK pc \in {"enqueue", "auditCancel", "emit"} :
            call'[v] = [pc |-> pc, prev |-> call[v].prev, next |-> row'.status]
      BY <1>0, <1>3, Writes
    <3> QED
      BY <1>3, <3>1 DEF CallWrite
  <2>2. v \in Workers /\ work[v].pc \in {"begin", "good", "bad"}
    BY <2>1 DEF Running
  <2>3. work[v] \in Processors /\ call[v].body = BodyOf(work[v])
    BY <2>1, <2>2, ReportOf
  <2> QED
    BY <1>3, <2>1, <2>2, <2>3, BodyStatus DEF Running
<1>4. CASE CallEnqueue(v) \/ CallAuditCancel(v)
  <2>1. call[v].pc \in {"enqueue", "auditCancel"} /\ work' = work
    BY <1>4 DEF CallEnqueue, CallAuditCancel
  <2>2. call'[v].pc = "emit"
    BY <1>0, <1>4, <2>1 DEF CallEnqueue, CallAuditCancel, CallShape
  <2> QED
    BY <2>1, <2>2 DEF Running
<1>5. CASE CallEmit(v) \/ CallAuditEnd(v)
  <2>1. call[v].pc \in {"emit", "auditEnd"} /\ work' = work
    BY <1>5 DEF CallEmit, CallAuditEnd
  <2>2. call'[v].pc \in {"auditEnd", "reply"}
    BY <1>0, <1>5 DEF CallEmit, CallAuditEnd, Goes, Reply
  <2> QED
    BY <2>1, <2>2 DEF Running
<1>6. ASSUME NEW c \in Callers, CallStep(c), c # v
      PROVE  call'[v] = call[v] /\ work' = work
  BY <1>0, <1>6 DEF CallStep, CallRead, CallWrite, CallEnqueue, CallAuditCancel, CallEmit,
     CallAuditEnd, Goes
<1>7. ASSUME NEW a \in Admins, AdminStep(a) \/ AdminCallFails(a)
      PROVE  call'[v] = call[v] /\ work' = work
  <2>1. a # v
    BY JobAssumption DEF JobAssumption, Runners
  <2> QED
    BY <1>0, <1>7, <2>1 DEF AdminStep, Retry, Cancel, Ask, Answered, AdminCallFails, Goes
<1>8. CASE PostCreate \/ PostEnqueue \/ PostFails \/ UNCHANGED vars
  BY <1>1, <1>8 DEF PostCreate, PostEnqueue, PostFails, vars
<1> QED
  BY <1>1, <1>2, <1>3, <1>4, <1>5, <1>6, <1>7, <1>8, WorkerRunsOn DEF FaultyNext, Next, CallStep

(* An overlap is never forgotten. *)
LEMMA OverlapStays ==
  ASSUME JobAssumption, Shape, [FaultyNext]_vars, ~ overlap'
  PROVE  ~ overlap
<1>1. ASSUME NEW w \in Workers, WorkerStep(w) \/ UpdateFails(w) \/ MetricFails(w) \/ Crash(w)
      PROVE  ~ overlap
  BY <1>1, WorkerCalls DEF Entangles
<1> QED
  BY <1>1 DEF FaultyNext, Next, vars, PostCreate, PostEnqueue, PostFails, CallStep, CallRead,
     CallWrite, CallEnqueue, CallAuditCancel, CallEmit, CallAuditEnd, AdminStep, Retry, Cancel,
     Ask, Answered, AdminCallFails

(* Whoever is under way beside the workers' own steps was before. *)
LEMMA NextOneRun ==
  ASSUME JobAssumption, Shape, OneRun, [FaultyNext]_vars
  PROVE  OneRun'
<1>0. DOMAIN call = Callers /\ Runners \cap Admins = {} /\ Runners \subseteq Callers
  BY JobAssumption DEF Shape, Callers, Runners, JobAssumption
<1>1. ASSUME NEW w \in Workers, WorkerStep(w) \/ UpdateFails(w) \/ MetricFails(w) \/ Crash(w)
      PROVE  OneRun'
  BY <1>1, WorkerCalls DEF Entangles, OneRun
<1>2. ASSUME work' = work, \A v \in Runners : UnderWay(v)' => UnderWay(v)
      PROVE  OneRun'
  BY <1>2, OverlapStays DEF OneRun
<1>3. ASSUME NEW c \in Callers, CallStep(c)
      PROVE  OneRun'
  <2>1. /\ work' = work /\ call[c].pc \notin {"none", "reply"}
        /\ \A d \in Callers \ {c} : call'[d] = call[d]
    BY <1>0, <1>3 DEF CallStep, CallRead, CallWrite, CallEnqueue, CallAuditCancel, CallEmit,
       CallAuditEnd, Goes
  <2> QED
    BY <1>0, <1>2, <2>1 DEF UnderWay
<1>4. ASSUME NEW a \in Admins, AdminStep(a) \/ AdminCallFails(a)
      PROVE  OneRun'
  <2>1. work' = work /\ \A v \in Runners : call'[v] = call[v]
    BY <1>0, <1>4 DEF AdminStep, Retry, Cancel, Ask, Answered, AdminCallFails, Goes
  <2> QED
    BY <1>2, <2>1 DEF UnderWay
<1>5. CASE PostCreate \/ PostEnqueue \/ PostFails \/ UNCHANGED vars
  <2>1. work' = work /\ call' = call
    BY <1>5 DEF PostCreate, PostEnqueue, PostFails, vars
  <2> QED
    BY <1>2, <2>1 DEF UnderWay
<1> QED
  BY <1>1, <1>3, <1>4, <1>5 DEF FaultyNext, Next

(* The row changes when it is created and when a handler writes it. *)
LEMMA RowChanges ==
  ASSUME [FaultyNext]_vars
  PROVE  row' = row \/ PostCreate \/ \E c \in Callers : CallWrite(c)
BY DEF FaultyNext, Next, vars, PostEnqueue, PostFails, CallStep, CallRead, CallEnqueue,
   CallAuditCancel, CallEmit, CallAuditEnd, AdminStep, Retry, Cancel, Ask, Answered,
   AdminCallFails, WorkerStep, Take, Replied, UpdateFails, MetricFails, Crash

(* A first update leaves the job RUNNING. *)
LEMMA FirstUpdate ==
  ASSUME JobAssumption, Shape, NEW v \in Runners, CallWrite(v), call[v].body = StartBody
  PROVE  row'.status = "RUNNING"
<1>1. v \in Callers /\ v \notin Admins
  BY DEF Callers, Runners, JobAssumption
<1>2. "status" \in DOMAIN call[v].body /\ call[v].body.status = "RUNNING"
  BY DEF StartBody
<1> QED
  BY <1>1, <1>2, Writes

LEMMA NextSuccess ==
  ASSUME JobAssumption, Shape, OneRun, SucceededIsComplete, NoEarlySuccess, [FaultyNext]_vars
  PROVE  SucceededIsComplete' /\ NoEarlySuccess'
<1>0. SUFFICES ASSUME ~ overlap'
               PROVE  SucceededIsComplete' /\ NoEarlySuccess'
  BY DEF SucceededIsComplete, NoEarlySuccess
<1>1. ~ overlap
  BY <1>0, OverlapStays
<1>2. CASE post = "new"
  <2>1. PostCreate \/ UNCHANGED vars
    BY <1>2, StartsWithTheRow
  <2>2. row' = NoRow \/ row'.status = "PENDING"
    BY <1>2, <2>1 DEF PostCreate, vars, Shape
  <2> QED
    BY <2>2 DEF SucceededIsComplete, NoEarlySuccess, NoRow
<1>3. CASE row' = row
  <2>1. ASSUME NEW v \in Runners, Running(v)'
        PROVE  row'.status # "SUCCEEDED"
    BY <1>1, <1>3, <2>1, RunsOn, FirstUpdate DEF NoEarlySuccess
  <2> QED
    BY <1>1, <1>3, <2>1 DEF SucceededIsComplete, NoEarlySuccess
<1>4. ASSUME NEW c \in Callers, CallWrite(c)
      PROVE  SucceededIsComplete' /\ NoEarlySuccess'
  <2>1. CASE row'.status # "SUCCEEDED"
    BY <2>1 DEF SucceededIsComplete, NoEarlySuccess
  <2>2. CASE row'.status = "SUCCEEDED"
    <3>1. call[c].pc = "write" /\ c \in Runners
      BY <1>4, <2>2, Writes DEF CallWrite
    <3>2. /\ "status" \in DOMAIN call[c].body
          /\ row'.completed = Total /\ row'.failed = 0 /\ row'.failures = {}
      <4>1. "status" \notin DOMAIN call[c].body => row.status # "SUCCEEDED"
        BY <1>1, <3>1 DEF NoEarlySuccess, Running
      <4> QED
        BY <1>4, <2>2, <4>1, Writes, JobAssumption DEF StartBody, JobAssumption
    <3>3. ~ Running(c)
      BY <3>1, <3>2 DEF Running
    <3>4. ASSUME NEW v \in Runners, Running(v)'
          PROVE  FALSE
      <4>1. PICK u \in Runners : Running(u) \/ (CallWrite(u) /\ call[u].body = StartBody)
        BY <3>4, RunsOn
      <4>2. Running(u)
        BY <2>2, <4>1, FirstUpdate
      <4>3. UnderWay(u) /\ UnderWay(c)
        BY <3>1, <4>2 DEF Running, UnderWay, Off
      <4> QED
        BY <1>1, <3>1, <3>3, <4>2, <4>3 DEF OneRun
    <3> QED
      BY <3>2, <3>4 DEF SucceededIsComplete, NoEarlySuccess
  <2> QED
    BY <2>1, <2>2
<1>5. CASE PostCreate
  BY <1>5 DEF PostCreate, SucceededIsComplete, NoEarlySuccess
<1> QED
  BY <1>3, <1>4, <1>5, RowChanges

(* A job that reads SUCCEEDED processed every user and failed none, however *)
(* often it was retried, cancelled, interrupted or run again after a crash, *)
(* and whatever became of the calls, if its runs came one after the other.  *)
THEOREM SuccessIsComplete == FaultySpec => []SucceededIsComplete
<1> DEFINE Inv == Shape /\ OneRun /\ SucceededIsComplete /\ NoEarlySuccess
<1>1. Init => Inv
  <2>1. Init => SucceededIsComplete /\ NoEarlySuccess
    BY DEF Init, SucceededIsComplete, NoEarlySuccess, NoRow
  <2>2. Init => OneRun
    BY DEF Init, OneRun, UnderWay, NoCall, Callers
  <2> QED
    BY <2>1, <2>2, InitShape, JobAssumption
<1>2. Inv /\ [FaultyNext]_vars => Inv'
  BY NextShape, NextOneRun, NextSuccess, JobAssumption
<1>3. Inv => SucceededIsComplete
  OBVIOUS
<1> QED
  BY <1>1, <1>2, <1>3, PTL DEF FaultySpec

-----------------------------------------------------------------------------
(* What the audit log tells *)

(* Another run of the job is on its way. *)
ToCome ==
  \/ queue > 0
  \/ \E c \in Callers : call[c].pc = "enqueue"
  \/ \E v \in Runners : call[v].pc \in {"read", "write"} /\ call[v].body = StartBody

(* The audit log tells of outcome s, or some handler is about to record it. *)
Told(s) ==
  \/ s \in audit \/ (s = "FAILED" /\ "CANCELLED" \in audit)
  \/ \E c \in Callers :
       \/ call[c].pc = "emit" /\ call[c].next = s /\ call[c].prev # s
       \/ call[c].pc = "auditEnd" /\ call[c].next = s
       \/ call[c].pc = "auditCancel" /\ s = "FAILED"

(* Until another run begins, the outcome in the row is told, and so is the  *)
(* one a report compares its own with.                                      *)
OutcomeTold ==
  ~ overlap => \A s \in Terminal :
    /\ post # "new" /\ row.status = s => ToCome \/ Told(s)
    /\ \A v \in Runners :
         call[v].pc = "write" /\ call[v].prev = s => ToCome \/ Told(s)

StartsOver == \E v \in Runners : CallWrite(v) /\ call[v].body = StartBody

(* What is told stays told until the job starts over. *)
LEMMA StaysTold ==
  ASSUME JobAssumption, Shape, [Next]_vars, NEW s \in Terminal, ToCome \/ Told(s), ~ StartsOver
  PROVE  (ToCome \/ Told(s))'
<1>0. /\ DOMAIN call = Callers /\ queue \in Nat
      /\ \A v \in Runners : v \in Callers
      /\ \A w \in Workers : w \in Runners /\ w \in Callers
      /\ \A a \in Admins : a \in Callers /\ a \notin Runners
  BY DEF Shape, Callers, Runners, JobAssumption
<1>1. CASE UNCHANGED <<queue, call, audit>>
  BY <1>1 DEF ToCome, Told
<1>2. CASE PostEnqueue
  BY <1>0, <1>2 DEF PostEnqueue, ToCome
<1>3. ASSUME NEW c \in Callers, CallRead(c)
      PROVE  (ToCome \/ Told(s))'
  <2>1. /\ UNCHANGED <<queue, audit>> /\ \A d \in Callers \ {c} : call'[d] = call[d]
        /\ call[c].pc = "read" /\ call'[c].pc = "write" /\ call'[c].body = call[c].body
    BY <1>0, <1>3 DEF CallRead, Goes
  <2>2. ToCome => ToCome'
    BY <1>0, <2>1 DEF ToCome
  <2>3. Told(s) => Told(s)'
    BY <2>1 DEF Told
  <2> QED
    BY <2>2, <2>3
<1>4. ASSUME NEW c \in Callers, CallWrite(c)
      PROVE  (ToCome \/ Told(s))'
  <2>1. /\ queue' = queue /\ \A d \in Callers \ {c} : call'[d] = call[d]
        /\ call[c].pc = "write"
    BY <1>0, <1>4 DEF CallWrite, Goes
  <2>2. CASE c \in Admins /\ call'[c] = [pc |-> "enqueue", prev |-> call[c].prev, next |-> row'.status]
    BY <2>2 DEF ToCome
  <2>3. CASE audit' = audit
    <3>1. c \in Runners => call[c].body # StartBody
      BY <1>4 DEF StartsOver
    <3>2. ToCome => ToCome'
      BY <1>0, <2>1, <3>1 DEF ToCome
    <3>3. Told(s) => Told(s)'
      BY <2>1, <2>3 DEF Told
    <3> QED
      BY <3>2, <3>3
  <2> QED
    BY <1>4, <2>2, <2>3, Writes
<1>5. ASSUME NEW c \in Callers, CallEnqueue(c)
      PROVE  ToCome'
  BY <1>0, <1>5 DEF CallEnqueue, ToCome
<1>6. ASSUME NEW c \in Callers, CallAuditCancel(c)
      PROVE  (ToCome \/ Told(s))'
  <2>1. /\ queue' = queue /\ \A d \in Callers \ {c} : call'[d] = call[d]
        /\ call[c].pc = "auditCancel" /\ audit' = audit \cup {"CANCELLED"}
    BY <1>0, <1>6 DEF CallAuditCancel
  <2>2. ToCome => ToCome'
    BY <1>0, <2>1 DEF ToCome
  <2>3. Told(s) => Told(s)'
    BY <2>1 DEF Told
  <2> QED
    BY <2>2, <2>3
<1>7. ASSUME NEW c \in Callers, CallEmit(c)
      PROVE  (ToCome \/ Told(s))'
  <2>1. /\ UNCHANGED <<queue, audit>> /\ \A d \in Callers \ {c} : call'[d] = call[d]
        /\ call[c].pc = "emit"
        /\ call[c].next = s /\ call[c].prev # s => call'[c] = [pc |-> "auditEnd", next |-> s]
    BY <1>0, <1>7 DEF CallEmit, Goes
  <2>2. ToCome => ToCome'
    BY <1>0, <2>1 DEF ToCome
  <2>3. Told(s) => Told(s)'
    BY <2>1 DEF Told
  <2> QED
    BY <2>2, <2>3
<1>8. ASSUME NEW c \in Callers, CallAuditEnd(c)
      PROVE  (ToCome \/ Told(s))'
  <2>1. /\ queue' = queue /\ \A d \in Callers \ {c} : call'[d] = call[d]
        /\ call[c].pc = "auditEnd" /\ audit' = audit \cup {call[c].next}
    BY <1>0, <1>8 DEF CallAuditEnd, Goes
  <2>2. ToCome => ToCome'
    BY <1>0, <2>1 DEF ToCome
  <2>3. Told(s) => Told(s)'
    BY <2>1 DEF Told
  <2> QED
    BY <2>2, <2>3
<1>9. ASSUME NEW w \in Workers, Take(w)
      PROVE  ToCome'
  <2> DEFINE p == [pc |-> "begin", at |-> 0, completed |-> 0, failed |-> 0, failures |-> {}]
  <2>1. call'[w] = [pc |-> "read", kind |-> "update", body |-> BodyOf(p)]
    BY <1>0, <1>9 DEF Take, Sends, Request
  <2>2. BodyOf(p) = StartBody
    BY DEF BodyOf, StartBody
  <2> HIDE DEF p
  <2>3. call'[w].pc = "read" /\ call'[w].body = StartBody
    BY <2>1, <2>2
  <2> QED
    BY <1>0, <2>3 DEF ToCome
<1>10. ASSUME NEW c \in Callers, call[c].pc \in {"none", "reply"},
              UNCHANGED <<queue, audit>>, \A d \in Callers \ {c} : call'[d] = call[d]
       PROVE  (ToCome \/ Told(s))'
  <2>1. ToCome => ToCome'
    BY <1>0, <1>10 DEF ToCome
  <2>2. Told(s) => Told(s)'
    BY <1>10 DEF Told
  <2> QED
    BY <2>1, <2>2
<1>11. ASSUME NEW a \in Admins, AdminStep(a)
       PROVE  (ToCome \/ Told(s))'
  <2>1. /\ call[a].pc \in {"none", "reply"}
        /\ UNCHANGED <<queue, audit>> /\ \A d \in Callers \ {a} : call'[d] = call[d]
    BY <1>0, <1>11 DEF AdminStep, Retry, Cancel, Ask, Answered, Goes, NoCall
  <2> QED
    BY <1>0, <1>10, <2>1
<1>12. ASSUME NEW w \in Workers, Replied(w)
       PROVE  (ToCome \/ Told(s))'
  <2>1. /\ call[w].pc = "reply"
        /\ UNCHANGED <<queue, audit>> /\ \A d \in Callers \ {w} : call'[d] = call[d]
    BY <1>0, <1>12 DEF Replied, Stops, Sends
  <2> QED
    BY <1>0, <1>10, <2>1
<1> QED
  BY <1>1, <1>2, <1>3, <1>4, <1>5, <1>6, <1>7, <1>8, <1>9, <1>11, <1>12
     DEF Next, vars, PostCreate, CallStep, WorkerStep

LEMMA NextOutcomeTold ==
  ASSUME JobAssumption, Shape, OneRun, OutcomeTold, [Next]_vars
  PROVE  OutcomeTold'
<1>0. /\ DOMAIN call = Callers
      /\ \A v \in Runners : v \in Callers /\ v \notin Admins
      /\ \A w \in Workers : w \in Runners
  BY DEF Shape, Callers, Runners, JobAssumption
<1> SUFFICES ASSUME ~ overlap'
             PROVE  OutcomeTold'
  BY DEF OutcomeTold
<1>1. [FaultyNext]_vars
  BY DEF FaultyNext
<1>2. ~ overlap
  BY <1>1, OverlapStays
<1>3. StartsOver => row'.status = "RUNNING"
  BY FirstUpdate DEF StartsOver
<1>4. ASSUME NEW s \in Terminal, post' # "new", row'.status = s
      PROVE  (ToCome \/ Told(s))'
  <2>0. ~ StartsOver
    BY <1>3, <1>4 DEF Terminal
  <2>1. CASE row' = row /\ post # "new"
    BY <1>2, <1>4, <2>0, <2>1, StaysTold DEF OutcomeTold
  <2>2. CASE PostCreate
    BY <1>4, <2>2 DEF PostCreate, Terminal
  <2>3. ASSUME NEW c \in Callers, CallWrite(c), post # "new"
        PROVE  (ToCome \/ Told(s))'
    <3>1. CASE c \in Admins /\ row'.status = "PENDING"
      BY <1>4, <3>1 DEF Terminal
    <3>2. CASE /\ row'.status = "FAILED"
               /\ call'[c] = [pc |-> "auditCancel", prev |-> call[c].prev, next |-> row'.status]
      BY <1>4, <3>2 DEF Told
    <3>3. CASE c \in Runners /\ row'.status = row.status
      BY <1>2, <1>4, <2>0, <2>3, <3>3, StaysTold DEF OutcomeTold
    <3>4. CASE /\ c \in Runners
               /\ call'[c] = [pc |-> "emit", prev |-> call[c].prev, next |-> row'.status]
      <4>1. CASE call[c].prev # s
        BY <1>4, <3>4, <4>1 DEF Told
      <4>2. CASE call[c].prev = s
        <5>1. ToCome \/ Told(s)
          BY <1>2, <2>3, <3>4, <4>2 DEF OutcomeTold, CallWrite
        <5> QED
          BY <2>0, <5>1, StaysTold
      <4> QED
        BY <4>1, <4>2
    <3> QED
      BY <2>3, <3>1, <3>2, <3>4, Writes
  <2>4. CASE post = "new" /\ UNCHANGED vars
    BY <1>4, <2>4 DEF vars
  <2> QED
    BY <1>1, <2>1, <2>2, <2>3, <2>4, RowChanges, StartsWithTheRow DEF FaultyNext
<1>5. ASSUME NEW s \in Terminal, NEW v \in Runners, call'[v].pc = "write", call'[v].prev = s
      PROVE  (ToCome \/ Told(s))'
  <2>1. CASE CallRead(v)
    <3>1. row.status = s /\ ~ StartsOver
      <4>1. call'[v].prev = row.status
        BY <1>0, <2>1 DEF CallRead, Goes
      <4>2. ASSUME NEW r \in Runners, CallWrite(r)
            PROVE  FALSE
        <5>1. r = v
          BY <1>2, <2>1, <4>2 DEF OneRun, UnderWay, CallRead, CallWrite
        <5> QED
          BY <2>1, <4>2, <5>1 DEF CallRead, CallWrite
      <4> QED
        BY <1>5, <4>1, <4>2 DEF StartsOver
    <3>2. post # "new"
      BY <1>0, <2>1 DEF CallRead, Shape, Untouched, NoCall
    <3> QED
      BY <1>2, <3>1, <3>2, StaysTold DEF OutcomeTold
  <2>2. CASE call'[v] = call[v]
    <3>1. ~ StartsOver
      <4> SUFFICES ASSUME NEW r \in Runners, CallWrite(r)  PROVE FALSE
        BY DEF StartsOver
      <4>1. r = v
        BY <1>2, <1>5, <2>2 DEF OneRun, UnderWay, CallWrite
      <4>2. PICK pc \in {"enqueue", "auditCancel", "emit"} :
              call'[v] = [pc |-> pc, prev |-> call[v].prev, next |-> row'.status]
        BY <1>0, <4>1, Writes
      <4> QED
        BY <1>5, <4>2
    <3> QED
      BY <1>2, <1>5, <2>2, <3>1, StaysTold DEF OutcomeTold
  <2>3. CallRead(v) \/ call'[v] = call[v]
    <3>1. ASSUME NEW c \in Callers, CallStep(c)
          PROVE  CallRead(v) \/ call'[v] = call[v]
      <4>1. CASE c # v
        BY <1>0, <3>1, <4>1 DEF CallStep, CallRead, CallWrite, CallEnqueue, CallAuditCancel,
           CallEmit, CallAuditEnd, Goes
      <4>2. CASE c = v
        <5>1. CASE CallWrite(v)
          <6>1. PICK pc \in {"enqueue", "auditCancel", "emit"} :
                  call'[v] = [pc |-> pc, prev |-> call[v].prev, next |-> row'.status]
            BY <1>0, <5>1, Writes
          <6> QED
            BY <1>5, <6>1
        <5>2. CASE CallEnqueue(v) \/ CallAuditCancel(v)
          <6>1. call[v] \in [pc: {"enqueue", "auditCancel", "emit"}, prev: Statuses, next: Statuses]
            BY <1>0, <5>2 DEF CallEnqueue, CallAuditCancel, CallShape, Shape
          <6>2. call'[v].pc = "emit"
            BY <1>0, <5>2, <6>1 DEF CallEnqueue, CallAuditCancel
          <6> QED
            BY <1>5, <6>2
        <5>3. CASE CallEmit(v) \/ CallAuditEnd(v)
          BY <1>0, <1>5, <5>3 DEF CallEmit, CallAuditEnd, Goes, Reply
        <5> QED
          BY <3>1, <4>2, <5>1, <5>2, <5>3 DEF CallStep
      <4> QED
        BY <4>1, <4>2
    <3>2. ASSUME NEW a \in Admins, AdminStep(a)
          PROVE  call'[v] = call[v]
      <4>1. a # v
        BY <1>0
      <4> QED
        BY <1>0, <3>2, <4>1 DEF AdminStep, Retry, Cancel, Ask, Answered, Goes
    <3>3. ASSUME NEW w \in Workers, WorkerStep(w)
          PROVE  call'[v] = call[v]
      <4>1. CASE w = v
        <5>1. call'[v].pc \in {"none", "read"}
          BY <1>0, <3>3, <4>1 DEF WorkerStep, Take, Replied, Sends, Stops, Request, NoCall
        <5> QED
          BY <1>5, <5>1
      <4>2. CASE w # v
        BY <1>0, <3>3, <4>2 DEF WorkerStep, Take, Replied, Sends, Stops
      <4> QED
        BY <4>1, <4>2
    <3> QED
      BY <3>1, <3>2, <3>3 DEF Next, vars, PostCreate, PostEnqueue
  <2> QED
    BY <2>1, <2>2, <2>3
<1> QED
  BY <1>4, <1>5 DEF OutcomeTold

(* Short of faults, a finished job's outcome is in the audit log, whatever  *)
(* administrators did while it ran, if its runs came one after the other.   *)
THEOREM OutcomesAreAudited == Spec => []OutcomeIsAudited
<1> DEFINE Inv == Shape /\ OneRun /\ OutcomeTold
<1>1. Init => Inv
  <2>1. Init => OutcomeTold
    BY DEF Init, OutcomeTold, NoCall, Callers
  <2>2. Init => OneRun
    BY DEF Init, OneRun, UnderWay, NoCall, Callers
  <2> QED
    BY <2>1, <2>2, InitShape, JobAssumption
<1>2. Inv /\ [Next]_vars => Inv'
  <2>1. [Next]_vars => [FaultyNext]_vars
    BY DEF FaultyNext
  <2> QED
    BY <2>1, NextShape, NextOneRun, NextOutcomeTold, JobAssumption
<1>3. Inv => OutcomeIsAudited
  <2> SUFFICES ASSUME Inv, Quiet, row # NoRow, row.status \in Terminal, ~ overlap
               PROVE  row.status \in audit \/ (row.status = "FAILED" /\ "CANCELLED" \in audit)
    BY DEF OutcomeIsAudited
  <2>1. ~ ToCome
    BY DEF Quiet, ToCome, NoCall, Callers
  <2>2. Told(row.status)
    BY <2>1 DEF OutcomeTold, Shape, Quiet
  <2> QED
    BY <2>2 DEF Told, Quiet, NoCall
<1> QED
  BY <1>1, <1>2, <1>3, PTL DEF Spec

-----------------------------------------------------------------------------
(* Types, with the bound of the queue *)

(* The retries whose job is still to be queued. *)
Retrying ==
  {c \in Callers : \/ call[c].pc \in {"read", "write"} /\ call[c].kind = "retry"
                   \/ call[c].pc = "enqueue"}

ToEnqueue == IF post = "over" THEN 0 ELSE 1

(* A job is queued by its creation, and again by a retry or after a crash. *)
QueueBound ==
  /\ IsFiniteSet(Retrying)
  /\ queue + Cardinality(Retrying) + ToEnqueue <= 1 + (retries + crashes)

(* A worker's handler reports, it queues nothing. *)
LEMMA ReportsOnly ==
  ASSUME JobAssumption, Shape, NEW v \in Runners
  PROVE  v \notin Retrying
<1>1. CallShape(v) /\ v \notin Admins
  BY DEF Shape, Callers, Runners, JobAssumption
<1>2. ASSUME NEW kind, NEW body, Asks(v, kind, body)
      PROVE  kind = "update"
  BY <1>1, <1>2 DEF Asks
<1>3. ASSUME NEW kind \in Kinds,
             \E body : Asks(v, kind, body) /\ call[v] = [pc |-> "read", kind |-> kind, body |-> body]
      PROVE  call[v].pc = "read" /\ call[v].kind = "update"
  BY <1>2, <1>3
<1>4. ASSUME NEW kind \in Kinds, NEW prev \in Statuses,
             \E body : /\ Asks(v, kind, body)
                       /\ call[v] = [pc |-> "write", kind |-> kind, body |-> body, prev |-> prev]
      PROVE  call[v].pc = "write" /\ call[v].kind = "update"
  BY <1>2, <1>4
<1>5. \/ call[v].pc \in {"none", "reply", "emit", "auditEnd"}
      \/ call[v].pc \in {"read", "write"} /\ call[v].kind = "update"
  BY <1>1, <1>3, <1>4 DEF CallShape
<1> QED
  BY <1>5 DEF Retrying

LEMMA FewerRetrying ==
  ASSUME JobAssumption, Shape, [FaultyNext]_vars
  PROVE  \/ Retrying' \subseteq Retrying
         \/ \E a \in Admins : Retry(a) /\ Retrying' \subseteq Retrying \cup {a}
<1>0. /\ DOMAIN call = Callers
      /\ \A a \in Admins : a \in Callers
      /\ \A w \in Workers : w \in Callers
      /\ \A c \in Callers : CallShape(c)
  BY DEF Shape, Callers, Runners
<1>1. ASSUME NEW c \in Callers, \A d \in Callers \ {c} : call'[d] = call[d],
             c \in Retrying' => c \in Retrying
      PROVE  Retrying' \subseteq Retrying
  BY <1>1 DEF Retrying
<1>2. ASSUME NEW c \in Callers, CallStep(c)
      PROVE  Retrying' \subseteq Retrying
  <2>1. \A d \in Callers \ {c} : call'[d] = call[d]
    BY <1>0, <1>2 DEF CallStep, CallRead, CallWrite, CallEnqueue, CallAuditCancel, CallEmit,
       CallAuditEnd, Goes
  <2>2. CASE CallRead(c)
    BY <1>0, <1>1, <2>1, <2>2 DEF CallRead, Goes, Retrying
  <2>3. CASE CallWrite(c)
    <3>1. /\ call[c].pc = "write" /\ call[c].kind \in Kinds
          /\ call'[c].pc = AfterWrite[call[c].kind]
      BY <1>0, <2>3 DEF CallWrite, Goes, CallShape
    <3>2. c \in Retrying' => c \in Retrying
      BY <3>1 DEF Kinds, AfterWrite, Retrying
    <3> QED
      BY <1>1, <2>1, <3>2
  <2>4. CASE CallEnqueue(c) \/ CallAuditCancel(c)
    <3>1. call[c] \in [pc: {"enqueue", "auditCancel", "emit"}, prev: Statuses, next: Statuses]
      BY <1>0, <2>4 DEF CallEnqueue, CallAuditCancel, CallShape
    <3>2. call'[c].pc = "emit"
      BY <1>0, <2>4, <3>1 DEF CallEnqueue, CallAuditCancel
    <3> QED
      BY <1>1, <2>1, <3>2 DEF Retrying
  <2>5. CASE CallEmit(c) \/ CallAuditEnd(c)
    <3>1. call'[c].pc \in {"auditEnd", "reply"}
      BY <1>0, <2>5 DEF CallEmit, CallAuditEnd, Goes, Reply
    <3> QED
      BY <1>1, <2>1, <3>1 DEF Retrying
  <2> QED
    BY <1>2, <2>2, <2>3, <2>4, <2>5 DEF CallStep
<1>3. ASSUME NEW a \in Admins, Retry(a)
      PROVE  Retrying' \subseteq Retrying \cup {a}
  BY <1>0, <1>3 DEF Retry, Ask, Goes, Retrying
<1>4. ASSUME NEW a \in Admins, Cancel(a) \/ Answered(a) \/ AdminCallFails(a)
      PROVE  Retrying' \subseteq Retrying
  <2>1. \A d \in Callers \ {a} : call'[d] = call[d]
    BY <1>0, <1>4 DEF Cancel, Ask, Answered, AdminCallFails, Goes
  <2>2. call'[a] = NoCall \/ (call'[a].pc = "read" /\ call'[a].kind = "cancel")
    BY <1>0, <1>4 DEF Cancel, Ask, Answered, AdminCallFails, Goes, Request
  <2> QED
    BY <1>0, <1>1, <2>1, <2>2 DEF Retrying, NoCall
<1>5. ASSUME NEW w \in Workers, WorkerStep(w) \/ UpdateFails(w) \/ MetricFails(w) \/ Crash(w)
      PROVE  Retrying' \subseteq Retrying
  <2>1. /\ \A d \in Callers \ {w} :
             call'[d] = call[d] \/ (d \in Orphans /\ ~ UnderWay(d) /\ call'[d] = call[w])
        /\ \/ call'[w] = NoCall
           \/ \E p \in Processors :
                call'[w] = [pc |-> "read", kind |-> "update", body |-> BodyOf(p)]
    BY <1>5, WorkerCalls
  <2>2. w \notin Retrying'
    <3>1. CASE call'[w] = NoCall
      BY <3>1 DEF NoCall, Retrying
    <3>2. ASSUME NEW p \in Processors,
                 call'[w] = [pc |-> "read", kind |-> "update", body |-> BodyOf(p)]
          PROVE  w \notin Retrying'
      BY <3>2 DEF Retrying
    <3> QED
      BY <2>1, <3>1, <3>2
  <2>3. w \notin Retrying
    BY ReportsOnly DEF Runners
  <2>4. ASSUME NEW d \in Callers \ {w}, d \in Retrying'
        PROVE  d \in Retrying
    BY <1>0, <2>1, <2>3, <2>4 DEF Retrying
  <2> QED
    BY <2>2, <2>4 DEF Retrying
<1>6. CASE PostCreate \/ PostEnqueue \/ PostFails \/ UNCHANGED vars
  BY <1>6 DEF PostCreate, PostEnqueue, PostFails, vars, Retrying
<1> QED
  BY <1>2, <1>3, <1>4, <1>5, <1>6 DEF FaultyNext, Next, AdminStep

(* What has been queued and is still to be, before and after a step. *)
LEMMA SumBound ==
  ASSUME NEW q \in Nat, NEW q1 \in Nat, NEW n \in Nat, NEW n1 \in Nat, NEW o \in Nat, NEW o1 \in Nat,
         NEW t \in Nat, NEW t1 \in Nat,
         n1 <= n, q + n + o <= 1 + t, q1 + o1 - t1 <= q + o - t
  PROVE  q1 + n1 + o1 <= 1 + t1
OBVIOUS

LEMMA NextQueueBound ==
  ASSUME JobAssumption, Shape, QueueBound, [FaultyNext]_vars
  PROVE  QueueBound'
<1>0. /\ queue \in Nat /\ retries \in Nat /\ crashes \in Nat
      /\ Cardinality(Retrying) \in Nat /\ IsFiniteSet(Retrying)
      /\ post \in {"new", "created", "over"}
  BY FS_CardinalityType, JobAssumption DEF Shape, QueueBound, JobAssumption
<1>1. ASSUME NEW a \in Admins, Retry(a), Retrying' \subseteq Retrying \cup {a}
      PROVE  QueueBound'
  <2>1. /\ IsFiniteSet(Retrying \cup {a})
        /\ Cardinality(Retrying \cup {a}) <= Cardinality(Retrying) + 1
    <3>1. /\ IsFiniteSet(Retrying \cup {a})
          /\ Cardinality(Retrying \cup {a}) =
               IF a \in Retrying THEN Cardinality(Retrying) ELSE Cardinality(Retrying) + 1
      BY <1>0, FS_AddElement
    <3> QED
      BY <1>0, <3>1
  <2>2. /\ IsFiniteSet(Retrying') /\ Cardinality(Retrying') \in Nat
        /\ Cardinality(Retrying') <= Cardinality(Retrying \cup {a})
        /\ Cardinality(Retrying \cup {a}) \in Nat
    BY <1>1, <2>1, FS_Subset, FS_CardinalityType
  <2>3. UNCHANGED <<queue, post, crashes>> /\ retries' = retries + 1
    BY <1>1 DEF Retry, Ask
  <2> QED
    BY <1>0, <2>1, <2>2, <2>3 DEF QueueBound, ToEnqueue
<1>2. ASSUME Retrying' \subseteq Retrying
      PROVE  IsFiniteSet(Retrying') /\ Cardinality(Retrying') \in Nat
             /\ Cardinality(Retrying') <= Cardinality(Retrying)
  BY <1>0, <1>2, FS_Subset, FS_CardinalityType
<1>3. ASSUME Retrying' \subseteq Retrying,
             queue' + ToEnqueue' - (retries' + crashes') <= queue + ToEnqueue - (retries + crashes),
             queue' \in Nat, retries' + crashes' \in Nat
      PROVE  QueueBound'
  <2>1. ToEnqueue \in Nat /\ ToEnqueue' \in Nat
    BY DEF ToEnqueue
  <2>2. retries + crashes \in Nat
    BY <1>0
  <2> QED
    BY <1>0, <1>2, <1>3, <2>1, <2>2, SumBound DEF QueueBound
<1>4. ASSUME NEW c \in Callers, CallEnqueue(c), Retrying' \subseteq Retrying
      PROVE  QueueBound'
  <2>1. c \in Retrying /\ c \notin Retrying'
    <3>1. CallShape(c) /\ DOMAIN call = Callers
      BY DEF Shape
    <3>2. call[c] \in [pc: {"enqueue", "auditCancel", "emit"}, prev: Statuses, next: Statuses]
      BY <1>4, <3>1 DEF CallEnqueue, CallShape
    <3>3. call[c].pc = "enqueue" /\ call'[c].pc = "emit"
      BY <1>4, <3>1, <3>2 DEF CallEnqueue
    <3> QED
      BY <3>3 DEF Retrying
  <2>2. /\ IsFiniteSet(Retrying \ {c})
        /\ Cardinality(Retrying \ {c}) = Cardinality(Retrying) - 1
    BY <1>0, <2>1, FS_RemoveElement
  <2>3. /\ IsFiniteSet(Retrying') /\ Cardinality(Retrying') \in Nat
        /\ Cardinality(Retrying') <= Cardinality(Retrying) - 1
    BY <1>4, <2>1, <2>2, FS_Subset, FS_CardinalityType
  <2>4. UNCHANGED <<post, retries, crashes>> /\ queue' = queue + 1
    BY <1>4 DEF CallEnqueue
  <2> QED
    BY <1>0, <2>3, <2>4 DEF QueueBound, ToEnqueue
<1>5. \/ \E c \in Callers : CallEnqueue(c)
      \/ \E a \in Admins : Retry(a)
      \/ /\ queue' + ToEnqueue' - (retries' + crashes') <= queue + ToEnqueue - (retries + crashes)
         /\ queue' \in Nat /\ retries' + crashes' \in Nat
  <2> DEFINE Shrinks ==
         /\ queue' + ToEnqueue' - (retries' + crashes') <= queue + ToEnqueue - (retries + crashes)
         /\ queue' \in Nat /\ retries' + crashes' \in Nat
  <2>1. CASE UNCHANGED <<post, queue, retries, crashes>>
    BY <1>0, <2>1 DEF ToEnqueue
  <2>2. CASE PostCreate \/ PostEnqueue \/ PostFails
    BY <1>0, <2>2 DEF PostCreate, PostEnqueue, PostFails, ToEnqueue
  <2>3. ASSUME NEW w \in Workers, Take(w)
        PROVE  Shrinks
    BY <1>0, <2>3 DEF Take, ToEnqueue
  <2>4. ASSUME NEW w \in Workers, Crash(w)
        PROVE  Shrinks
    BY <1>0, <2>4 DEF Crash, ToEnqueue
  <2>5. \/ UNCHANGED <<post, queue, retries, crashes>>
        \/ PostCreate \/ PostEnqueue \/ PostFails
        \/ \E w \in Workers : Take(w) \/ Crash(w)
        \/ \E c \in Callers : CallEnqueue(c)
        \/ \E a \in Admins : Retry(a)
    BY DEF FaultyNext, Next, vars, CallStep, CallRead, CallWrite, CallAuditCancel, CallEmit,
       CallAuditEnd, AdminStep, Cancel, Ask, Answered, AdminCallFails, WorkerStep, Replied,
       UpdateFails, MetricFails
  <2> QED
    BY <2>1, <2>2, <2>3, <2>4, <2>5
<1>6. ASSUME NEW a \in Admins, Retry(a)
      PROVE  Retrying' \subseteq Retrying \cup {a}
  BY <1>6 DEF Retry, Ask, Goes, Retrying, Callers, Shape
<1> QED
  BY <1>1, <1>3, <1>4, <1>5, <1>6, FewerRetrying

LEMMA RowTyped ==
  ASSUME NEW r \in Rows
  PROVE  IsBody(r) /\ DOMAIN r = DOMAIN Columns
<1>1. DOMAIN r = {"status", "completed", "failed", "failures", "error", "result", "bad"}
  BY DEF Rows
<1>2. DOMAIN Columns = {"status", "completed", "failed", "failures", "error", "result", "bad"}
  BY DEF Columns
<1>3. ASSUME NEW f \in DOMAIN r
      PROVE  r[f] \in Columns[f]
  <2>1. /\ r.status \in Columns.status /\ r.completed \in Columns.completed
        /\ r.failed \in Columns.failed /\ r.failures \in Columns.failures
        /\ r.error \in Columns.error /\ r.result \in Columns.result /\ r.bad \in Columns.bad
    BY DEF Rows, Columns
  <2> QED
    BY <1>1, <2>1
<1> QED
  BY <1>1, <1>2, <1>3 DEF IsBody

LEMMA NamedColumns ==
  ASSUME NEW b,
         DOMAIN b \subseteq {"status", "completed", "failed", "failures", "error", "result"},
         "status" \in DOMAIN b => b["status"] \in Statuses,
         "completed" \in DOMAIN b => b["completed"] \in 0..Total,
         "failed" \in DOMAIN b => b["failed"] \in 0..Total,
         "failures" \in DOMAIN b => b["failures"] \in SUBSET (1..Total),
         "error" \in DOMAIN b => b["error"] \in BOOLEAN,
         "result" \in DOMAIN b => b["result"] \in BOOLEAN
  PROVE  IsBody(b)
<1>1. DOMAIN Columns = {"status", "completed", "failed", "failures", "error", "result", "bad"}
  BY DEF Columns
<1>2. /\ Columns["status"] = Statuses /\ Columns["completed"] = 0..Total
      /\ Columns["failed"] = 0..Total /\ Columns["failures"] = SUBSET (1..Total)
      /\ Columns["error"] = BOOLEAN /\ Columns["result"] = BOOLEAN
  BY DEF Columns
<1>3. \A f \in DOMAIN b : b[f] \in Columns[f]
  BY <1>2, ZenonT(40)
<1> QED
  BY <1>1, <1>3 DEF IsBody

LEMMA BodyTyped ==
  ASSUME JobAssumption, NEW c \in Callers, NEW kind, NEW body, Asks(c, kind, body)
  PROVE  kind \in Kinds /\ IsBody(body)
<1>1. 0 \in 0..Total
  BY DEF JobAssumption
<1>2. ASSUME body = RetryBody PROVE IsBody(body)
  <2> DEFINE b == [status |-> "PENDING", completed |-> 0, failed |-> 0,
                   failures |-> {}, error |-> FALSE, result |-> FALSE]
  <2>1. DOMAIN b = {"status", "completed", "failed", "failures", "error", "result"}
    OBVIOUS
  <2>2. b.error \in BOOLEAN /\ b.result \in BOOLEAN /\ b.status \in Statuses
    BY DEF Statuses
  <2>3. b.completed \in 0..Total /\ b.failed \in 0..Total /\ b.failures \in SUBSET (1..Total)
    BY <1>1
  <2>4. body = b
    BY <1>2 DEF RetryBody
  <2> HIDE DEF b
  <2>5. IsBody(b)
    BY <2>1, <2>2, <2>3, NamedColumns
  <2> QED
    BY <2>4, <2>5
<1>3. ASSUME body = CancelBody PROVE IsBody(body)
  <2> DEFINE b == [status |-> "FAILED", error |-> TRUE, result |-> FALSE]
  <2>1. DOMAIN b = {"status", "error", "result"}
    OBVIOUS
  <2>2. b.error \in BOOLEAN /\ b.result \in BOOLEAN /\ b.status \in Statuses
    BY DEF Statuses
  <2>3. body = b
    BY <1>3 DEF CancelBody
  <2> HIDE DEF b
  <2>4. IsBody(b)
    BY <2>1, <2>2, NamedColumns
  <2> QED
    BY <2>3, <2>4
<1>4. ASSUME NEW p \in Processors, body = BodyOf(p)
      PROVE  IsBody(body)
  <2>1. /\ p.completed \in 0..Total /\ p.failed \in 0..Total /\ p.failures \in SUBSET (1..Total)
    BY DEF Processors
  <2>2. CASE body = StartBody
    <3>1. DOMAIN body = {"status", "completed", "failed"}
      BY <2>2 DEF StartBody
    <3> QED
      BY <1>1, <2>2, <3>1, NamedColumns DEF StartBody, Statuses
  <2>3. CASE body = [completed |-> p.completed, failed |-> p.failed]
    <3>1. DOMAIN body = {"completed", "failed"}
      BY <2>3
    <3> QED
      BY <2>1, <2>3, <3>1, NamedColumns
  <2>4. CASE body = [completed |-> p.completed, failed |-> p.failed, failures |-> p.failures]
    <3>1. DOMAIN body = {"completed", "failed", "failures"}
      BY <2>4
    <3> QED
      BY <2>1, <2>4, <3>1, NamedColumns
  <2>5. CASE body = [status |-> "FAILED", completed |-> p.completed, failed |-> p.failed,
                     failures |-> p.failures, error |-> TRUE]
    <3>1. DOMAIN body = {"status", "completed", "failed", "failures", "error"}
      BY <2>5
    <3> QED
      BY <2>1, <2>5, <3>1, NamedColumns DEF Statuses
  <2>6. CASE body = [status |-> "SUCCEEDED", completed |-> p.completed, failed |-> p.failed,
                     failures |-> p.failures, result |-> TRUE]
    <3>1. DOMAIN body = {"status", "completed", "failed", "failures", "result"}
      BY <2>6
    <3> QED
      BY <2>1, <2>6, <3>1, NamedColumns DEF Statuses
  <2>7. CASE body = [status |-> "SUCCEEDED", completed |-> p.completed, failed |-> p.failed,
                     failures |-> p.failures]
    <3>1. DOMAIN body = {"status", "completed", "failed", "failures"}
      BY <2>7
    <3> QED
      BY <2>1, <2>7, <3>1, NamedColumns DEF Statuses
  <2> QED
    BY <1>4, <2>2, <2>3, <2>4, <2>5, <2>6, <2>7, ProcessorBody
<1> QED
  BY <1>2, <1>3, <1>4 DEF Asks, Kinds

LEMMA CallTyped ==
  ASSUME JobAssumption, Shape, NEW c \in Callers
  PROVE  IsCall(call[c])
<1>1. CallShape(c)
  BY DEF Shape
<1>2. ASSUME NEW kind \in Kinds, NEW body, Asks(c, kind, body),
             call[c] = [pc |-> "read", kind |-> kind, body |-> body]
      PROVE  IsCall(call[c])
  BY <1>2, BodyTyped DEF IsCall
<1>3. ASSUME NEW kind \in Kinds, NEW prev \in Statuses, NEW body, Asks(c, kind, body),
             call[c] = [pc |-> "write", kind |-> kind, body |-> body, prev |-> prev]
      PROVE  IsCall(call[c])
  BY <1>3, BodyTyped DEF IsCall
<1> QED
  BY <1>1, <1>2, <1>3 DEF CallShape, IsCall

(* TypeOK holds in every reachable state, faults or not. *)
THEOREM JobTypesHold == FaultySpec => []TypeOK
<1> DEFINE Inv == Shape /\ QueueBound
<1>1. Init => Inv
  <2>1. ASSUME Init
        PROVE  QueueBound
    <3>1. Retrying = {} /\ queue = 0 /\ post = "new" /\ retries = 0 /\ crashes = 0
      BY <2>1 DEF Init, Retrying, NoCall
    <3> QED
      BY <3>1, FS_EmptySet DEF QueueBound, ToEnqueue
  <2> QED
    BY <2>1, InitShape, JobAssumption
<1>2. Inv /\ [FaultyNext]_vars => Inv'
  BY NextShape, NextQueueBound, JobAssumption
<1>3. Inv => TypeOK
  <2> SUFFICES ASSUME Shape, QueueBound  PROVE TypeOK
    OBVIOUS
  <2>1. queue \in 0..(1 + MaxRetries + MaxCrashes)
    <3>1. /\ queue \in Nat /\ Cardinality(Retrying) \in Nat
          /\ retries \in 0..MaxRetries /\ crashes \in 0..MaxCrashes
      BY FS_CardinalityType DEF Shape, QueueBound
    <3> QED
      BY <3>1, JobAssumption DEF QueueBound, ToEnqueue, JobAssumption
  <2>2. row = NoRow \/ (IsBody(row) /\ DOMAIN row = DOMAIN Columns)
    BY RowTyped DEF Shape
  <2>3. \A w \in Workers :
       \/ work[w] = Off
       \/ /\ work[w].pc \in {"begin", "good", "bad", "final"}
          /\ work[w].at \in 0..Total
          /\ work[w].completed \in 0..Total /\ work[w].failed \in 0..Total
          /\ work[w].failures \in SUBSET (1..Total)
    BY DEF Shape, Processors
  <2>4. ASSUME NEW c \in Callers
        PROVE  IsCall(call[c])
    BY <2>4, CallTyped, JobAssumption
  <2> QED
    BY <2>1, <2>2, <2>3, <2>4 DEF Shape, TypeOK
<1> QED
  BY <1>1, <1>2, <1>3, PTL DEF FaultySpec
=============================================================================
