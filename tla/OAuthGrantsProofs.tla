-------------------------- MODULE OAuthGrantsProofs --------------------------
(* Theorems about OAuthGrants, for every value of its constants. *)
EXTENDS OAuthGrants, TLAPS

-----------------------------------------------------------------------------
(* What a handler holds at each of its steps, by the type of reqs. *)
LEMMA HandlerShape ==
  ASSUME TypeOK, NEW r \in Requests
  PROVE  /\ Holds(r, "mint") => reqs[r].grant \in Grants
         /\ Holds(r, "delete") =>
              reqs[r].code \in Codes /\ reqs[r].client \in Clients /\ reqs[r].proof \in BOOLEAN
         /\ Holds(r, "issueFirst") => reqs[r].code \in Codes /\ reqs[r].grant \in Grants
         /\ reqs[r].pc \in {"expire", "entitle", "rotate", "issueNext", "revokeOne",
                            "revokeSession", "audit"} => reqs[r].token \in Tokens
         /\ reqs[r].pc \in {"rotate", "issueNext"} => reqs[r].roles \in RoleSets
         /\ Holds(r, "issueNext") => reqs[r].hit \in BOOLEAN
         /\ Holds(r, "audit") => reqs[r].event \in AuditEvents
<1>1. reqs[r] \in Handlers
  BY DEF TypeOK
<1> QED
  BY <1>1 DEF Handlers, Idle, Holds

(* The columns of a row that was inserted. *)
LEMMA RowShape ==
  ASSUME TypeOK
  PROVE  /\ \A c \in Codes : codes[c].status # "unborn" =>
              /\ codes[c].status \in {"stored", "gone"}
              /\ codes[c].grant \in Grants
              /\ codes[c].expired \in BOOLEAN
         /\ \A t \in Tokens : Born(t) =>
              /\ tokens[t].status \in {"live", "revoked"}
              /\ tokens[t].grant \in Grants
              /\ tokens[t].expired \in BOOLEAN
              /\ tokens[t].family \in Codes
BY DEF TypeOK, CodeRows, TokenRows, Unborn, Born

(* The token a handler has read is a row of the table. *)
LEMMA HandlerRow ==
  ASSUME TypeOK, HandlersHaveRows, NEW r \in Requests,
         reqs[r].pc \in {"expire", "entitle", "rotate", "issueNext", "revokeOne",
                        "revokeSession", "audit"}
  PROVE  /\ reqs[r].token \in Tokens
         /\ Born(reqs[r].token)
         /\ tokens[reqs[r].token].grant \in Grants
         /\ tokens[reqs[r].token].family \in Codes
BY HandlerShape, RowShape DEF HandlersHaveRows

(* What an exchange keeps of the row it has found. *)
LEMMA FindHandler ==
  ASSUME TypeOK, NEW r \in Requests, NEW c \in Codes, NEW client \in Clients,
         NEW proof \in BOOLEAN, ConsumeFind(r, c, client, proof)
  PROVE  [pc |-> "delete", code |-> c, client |-> client, proof |-> proof,
          late |-> codes[c].expired] \in Handlers
<1>1. codes[c].expired \in BOOLEAN
  BY RowShape DEF ConsumeFind
<1> QED
  BY <1>1 DEF Handlers

(* The key of a grant is one the entitlement table is indexed by. *)
LEMMA KeyOfGrant ==
  ASSUME NEW g \in Grants
  PROVE  KeyOf(g) \in Keys
BY DEF Grants, Keys, KeyOf

(* Revoke changes nothing but the status of the live rows it is given. *)
LEMMA RevokeShape ==
  ASSUME TypeOK, NEW ts, Revoke(ts)
  PROVE  /\ tokens' \in [Tokens -> TokenRows]
         /\ \A t \in Tokens :
              /\ tokens'[t].status = IF t \in ts /\ Live(t) THEN "revoked" ELSE tokens[t].status
              /\ Born(t) => tokens'[t].grant = tokens[t].grant /\ tokens'[t].family = tokens[t].family
<1>1. ASSUME NEW t \in Tokens
      PROVE  /\ tokens'[t] \in TokenRows
             /\ tokens'[t].status = IF t \in ts /\ Live(t) THEN "revoked" ELSE tokens[t].status
             /\ Born(t) => tokens'[t].grant = tokens[t].grant /\ tokens'[t].family = tokens[t].family
  BY <1>1 DEF TypeOK, Revoke, Live, Born, TokenRows, Unborn
<1>2. tokens' = [t \in Tokens |-> tokens'[t]]
  BY DEF Revoke
<1> QED
  BY <1>1, <1>2

-----------------------------------------------------------------------------
LEMMA InitTypeOK == Init => TypeOK
BY DEF Init, TypeOK, CodeRows, TokenRows, Handlers, Unborn, Idle, CodeRows

(* A handler that takes a well-shaped next step leaves reqs well typed. *)
LEMMA BecomesTyped ==
  ASSUME TypeOK, NEW r \in Requests, NEW h \in Handlers, Becomes(r, h)
  PROVE  /\ reqs' \in [Requests -> Handlers]
         /\ reqs'[r] = h
         /\ \A q \in Requests : q # r => reqs'[q] = reqs[q]
BY DEF TypeOK, Becomes

LEMMA InsertTyped ==
  ASSUME TypeOK, NEW t \in Tokens, NEW g \in Grants, NEW f \in Codes, Insert(t, g, f)
  PROVE  /\ tokens' \in [Tokens -> TokenRows]
         /\ ~ Born(t)
         /\ tokens'[t].status = "live" /\ tokens'[t].family = f /\ tokens'[t].grant = g
         /\ \A u \in Tokens : u # t => tokens'[u] = tokens[u]
BY DEF TypeOK, Insert, TokenRows, Born

(* Each transaction of a handler, and each step of the environment, keeps   *)
(* the tables and the handlers well typed.                                  *)
LEMMA NextTypeOK ==
  ASSUME TypeOK, HandlersHaveRows, [Next]_vars
  PROVE  TypeOK'
<1> USE DEF Holds
<1>1. ASSUME NEW r \in Requests, AuthorizeStep(r)
      PROVE  TypeOK'
  <2>1. ASSUME NEW g \in Grants, AuthorizeRead(r, g)
        PROVE  TypeOK'
    <3>1. [pc |-> "mint", grant |-> g] \in Handlers
      BY DEF Handlers
    <3> QED
      BY <2>1, <3>1, BecomesTyped DEF AuthorizeRead, TypeOK
  <2>2. ASSUME NEW c \in Codes, AuthorizeMint(r, c)
        PROVE  TypeOK'
    <3>1. reqs[r].grant \in Grants
      BY <2>2, HandlerShape DEF AuthorizeMint
    <3>2. codes' \in [Codes -> CodeRows]
      BY <2>2, <3>1 DEF AuthorizeMint, TypeOK, CodeRows
    <3>3. Idle \in Handlers
      BY DEF Handlers
    <3> QED
      BY <2>2, <3>2, <3>3, BecomesTyped DEF AuthorizeMint, TypeOK
  <2> QED
    BY <1>1, <2>1, <2>2 DEF AuthorizeStep
<1>2. ASSUME NEW r \in Requests, ExchangeStep(r)
      PROVE  TypeOK'
  <2>1. ASSUME NEW c \in Codes, NEW client \in Clients, NEW proof \in BOOLEAN,
               ConsumeFind(r, c, client, proof)
        PROVE  TypeOK'
    <3>1. [pc |-> "delete", code |-> c, client |-> client, proof |-> proof,
           late |-> codes[c].expired] \in Handlers
      BY <2>1, FindHandler
    <3> QED
      BY <2>1, <3>1, BecomesTyped DEF ConsumeFind, TypeOK
  <2>2. ASSUME ConsumeAccept(r)
        PROVE  TypeOK'
    <3> DEFINE c == reqs[r].code
    <3>1. c \in Codes /\ codes[c].status = "stored" /\ codes[c].grant \in Grants
      BY <2>2, HandlerShape, RowShape DEF ConsumeAccept
    <3>2. codes' \in [Codes -> CodeRows]
      BY <2>2, <3>1 DEF ConsumeAccept, TypeOK, CodeRows, Unborn
    <3>3. [pc |-> "issueFirst", code |-> c, grant |-> codes[c].grant] \in Handlers
      BY <3>1 DEF Handlers
    <3> QED
      BY <2>2, <3>2, <3>3, BecomesTyped DEF ConsumeAccept, TypeOK
  <2>3. ASSUME ConsumeBurn(r)
        PROVE  TypeOK'
    <3>1. reqs[r].code \in Codes /\ codes[reqs[r].code].status = "stored"
      BY <2>3, HandlerShape DEF ConsumeBurn
    <3>2. codes' \in [Codes -> CodeRows]
      BY <2>3, <3>1 DEF ConsumeBurn, TypeOK, CodeRows, Unborn
    <3>3. Idle \in Handlers
      BY DEF Handlers
    <3> QED
      BY <2>3, <3>2, <3>3, BecomesTyped DEF ConsumeBurn, TypeOK
  <2>4. ASSUME ConsumeConflict(r)
        PROVE  TypeOK'
    <3>1. Idle \in Handlers
      BY DEF Handlers
    <3> QED
      BY <2>4, <3>1, BecomesTyped DEF ConsumeConflict, TypeOK
  <2>5. ASSUME NEW t \in Tokens, IssueFirst(r, t)
        PROVE  TypeOK'
    <3>1. reqs[r].grant \in Grants /\ reqs[r].code \in Codes
      BY <2>5, HandlerShape DEF IssueFirst
    <3>2. tokens' \in [Tokens -> TokenRows]
      BY <2>5, <3>1, InsertTyped DEF IssueFirst
    <3>3. [pc |-> "audit", token |-> t, event |-> "TOKEN_ISSUED"] \in Handlers
      BY DEF Handlers, AuditEvents, IssueEvents
    <3> QED
      BY <2>5, <3>2, <3>3, BecomesTyped DEF IssueFirst, TypeOK
  <2> QED
    BY <1>2, <2>1, <2>2, <2>3, <2>4, <2>5 DEF ExchangeStep
<1>3. ASSUME NEW r \in Requests, RefreshStep(r)
      PROVE  TypeOK'
  <2>1. ASSUME NEW t \in Tokens, NEW client \in Clients, RefreshFind(r, t, client)
        PROVE  TypeOK'
    <3>1. [pc |-> IF tokens[t].expired THEN "expire" ELSE "entitle", token |-> t] \in Handlers
      BY DEF Handlers
    <3> QED
      BY <2>1, <3>1, BecomesTyped DEF RefreshFind, TypeOK
  <2>2. ASSUME RefreshExpire(r)
        PROVE  TypeOK'
    <3>1. Idle \in Handlers
      BY DEF Handlers
    <3> QED
      BY <2>2, <3>1, BecomesTyped, RevokeShape DEF RefreshExpire, TypeOK
  <2>3. ASSUME RefreshEntitle(r)
        PROVE  TypeOK'
    <3> DEFINE t == reqs[r].token
               roles == ent[KeyOf(tokens[t].grant)]
               h == IF roles = NoEntitlement
                      THEN Idle ELSE [pc |-> "rotate", token |-> t, roles |-> roles]
    <3>1. t \in Tokens /\ tokens[t].grant \in Grants
      BY <2>3, HandlerRow DEF RefreshEntitle
    <3>2. roles # NoEntitlement => roles \in RoleSets
      BY <3>1, KeyOfGrant DEF TypeOK
    <3>3. h \in Handlers
      BY <3>1, <3>2 DEF Handlers
    <3> QED
      BY <2>3, <3>3, BecomesTyped DEF RefreshEntitle, TypeOK
  <2>4. ASSUME RefreshRotate(r)
        PROVE  TypeOK'
    <3> DEFINE t == reqs[r].token
               hit == tokens[t].status = "live"
               h == [pc |-> "issueNext", token |-> t, roles |-> reqs[r].roles, hit |-> hit]
    <3>1. t \in Tokens /\ tokens[t].family \in Codes /\ reqs[r].roles \in RoleSets
      BY <2>4, HandlerRow, HandlerShape DEF RefreshRotate
    <3>2. h \in Handlers
      BY <3>1 DEF Handlers
    <3>3. reqs' \in [Requests -> Handlers]
      BY <2>4, <3>2, BecomesTyped DEF RefreshRotate
    <3>4. tokens' \in [Tokens -> TokenRows]
      BY <2>4, RevokeShape DEF RefreshRotate
    <3>5. missed' \subseteq Codes
      BY <2>4, <3>1 DEF RefreshRotate, TypeOK
    <3> QED
      BY <2>4, <3>3, <3>4, <3>5 DEF RefreshRotate, TypeOK
  <2>5. ASSUME RefreshRotateFails(r)
        PROVE  TypeOK'
    <3> DEFINE h == [pc |-> "issueNext", token |-> reqs[r].token,
                     roles |-> reqs[r].roles, hit |-> FALSE]
    <3>1. /\ reqs[r].token \in Tokens /\ tokens[reqs[r].token].family \in Codes
          /\ reqs[r].roles \in RoleSets
      BY <2>5, HandlerRow, HandlerShape DEF RefreshRotateFails
    <3>2. h \in Handlers
      BY <3>1 DEF Handlers
    <3> QED
      BY <2>5, <3>1, <3>2, BecomesTyped DEF RefreshRotateFails, TypeOK
  <2>6. ASSUME NEW t \in Tokens, RefreshIssue(r, t)
        PROVE  TypeOK'
    <3> DEFINE old == tokens[reqs[r].token]
               g == [old.grant EXCEPT !.roles = reqs[r].roles]
    <3>1. old.grant \in Grants /\ old.family \in Codes /\ reqs[r].roles \in RoleSets
      BY <2>6, HandlerRow, HandlerShape DEF RefreshIssue
    <3>2. g \in Grants
      BY <3>1 DEF Grants
    <3>3. tokens' \in [Tokens -> TokenRows]
      BY <2>6, <3>1, <3>2, InsertTyped DEF RefreshIssue
    <3>4. [pc |-> "audit", token |-> t, event |-> "TOKEN_REFRESHED"] \in Handlers
      BY DEF Handlers, AuditEvents, IssueEvents
    <3> QED
      BY <2>6, <3>3, <3>4, BecomesTyped DEF RefreshIssue, TypeOK
  <2> QED
    BY <1>3, <2>1, <2>2, <2>3, <2>4, <2>5, <2>6 DEF RefreshStep
<1>4. ASSUME NEW r \in Requests, SignOutStep(r)
      PROVE  TypeOK'
  <2>1. ASSUME NEW t \in Tokens, NEW user \in Users, SignOutFind(r, t, user)
        PROVE  TypeOK'
    <3>1. [pc |-> "revokeOne", token |-> t] \in Handlers
      BY DEF Handlers
    <3> QED
      BY <2>1, <3>1, BecomesTyped DEF SignOutFind, TypeOK
  <2>2. ASSUME SignOutToken(r)
        PROVE  TypeOK'
    <3> DEFINE t == reqs[r].token
               h == IF tokens[t].grant.session = NoSession
                      THEN [pc |-> "audit", token |-> t, event |-> "TOKEN_REVOKED"]
                      ELSE [pc |-> "revokeSession", token |-> t]
    <3>1. t \in Tokens
      BY <2>2, HandlerRow DEF SignOutToken
    <3>2. h \in Handlers
      BY <3>1 DEF Handlers, AuditEvents
    <3>3. reqs' \in [Requests -> Handlers]
      BY <2>2, <3>2, BecomesTyped DEF SignOutToken
    <3> QED
      BY <2>2, <3>3, RevokeShape DEF SignOutToken, TypeOK
  <2>3. ASSUME SignOutSession(r)
        PROVE  TypeOK'
    <3>1. reqs[r].token \in Tokens
      BY <2>3, HandlerRow DEF SignOutSession
    <3>2. [pc |-> "audit", token |-> reqs[r].token, event |-> "TOKEN_REVOKED"] \in Handlers
      BY <3>1 DEF Handlers, AuditEvents
    <3> QED
      BY <2>3, <3>2, BecomesTyped, RevokeShape DEF SignOutSession, TypeOK
  <2> QED
    BY <1>4, <2>1, <2>2, <2>3 DEF SignOutStep
<1>5. ASSUME NEW r \in Requests, Audit(r) \/ Fail(r)
      PROVE  TypeOK'
  <2>1. Idle \in Handlers
    BY DEF Handlers
  <2>2. CASE Audit(r)
    <3>1. <<reqs[r].event, reqs[r].token>> \in AuditEvents \X Tokens
      BY <2>2, HandlerShape DEF Audit
    <3> QED
      BY <2>1, <2>2, <3>1, BecomesTyped DEF Audit, TypeOK
  <2>3. CASE Fail(r)
    <3>1. Holds(r, "audit") => reqs[r].token \in Tokens
      BY HandlerShape
    <3> QED
      BY <2>1, <2>3, <3>1, BecomesTyped DEF Fail, TypeOK
  <2> QED
    BY <1>5, <2>2, <2>3
<1>6. ASSUME Environment
      PROVE  TypeOK'
  <2>1. ASSUME NEW k \in Keys, NEW roles \in RoleSets, GrantEntitlement(k, roles)
        PROVE  TypeOK'
    BY <2>1 DEF GrantEntitlement, TypeOK
  <2>2. ASSUME NEW k \in Keys, RevokeEntitlement(k)
        PROVE  TypeOK'
    BY <2>2 DEF RevokeEntitlement, TypeOK
  <2>3. ASSUME NEW c \in Codes, CodeExpires(c)
        PROVE  TypeOK'
    BY <2>3 DEF CodeExpires, TypeOK, CodeRows, Unborn
  <2>4. ASSUME NEW t \in Tokens, TokenExpires(t)
        PROVE  TypeOK'
    BY <2>4 DEF TokenExpires, TypeOK, TokenRows, Unborn
  <2>5. ASSUME Prune
        PROVE  TypeOK'
    <3>1. codes' \in [Codes -> CodeRows]
      BY <2>5 DEF Prune, ExpiredCodes, TypeOK, CodeRows, Unborn
    <3> QED
      BY <2>5, <3>1 DEF Prune, TypeOK
  <2> QED
    BY <1>6, <2>1, <2>2, <2>3, <2>4, <2>5 DEF Environment
<1> QED
  BY <1>1, <1>2, <1>3, <1>4, <1>5, <1>6 DEF Next, RequestStep, vars, TypeOK

-----------------------------------------------------------------------------
(* A step that starts no claim, ends no claim and inserts no token. *)
QuietStep ==
  /\ \A q \in Requests : reqs'[q].pc \in {"issueFirst", "issueNext"} => reqs'[q] = reqs[q]
  /\ \A t \in Tokens :
       /\ Born(t)' <=> Born(t)
       /\ Live(t)' => Live(t)
       /\ Born(t) => tokens'[t].family = tokens[t].family /\ tokens'[t].grant = tokens[t].grant
  /\ missed' = missed
  /\ \A c \in Codes :
       /\ codes[c].status = "gone" => codes'[c].status = "gone"
       /\ codes[c].status # "unborn" => codes'[c].status # "unborn"

(* The steps of a handler that are not quiet. *)
LoudStep(r) ==
  \/ ConsumeAccept(r)
  \/ RefreshRotate(r)
  \/ RefreshRotateFails(r)
  \/ \E t \in Tokens : IssueFirst(r, t) \/ RefreshIssue(r, t)

LEMMA RevokeIsQuiet ==
  ASSUME TypeOK, NEW ts, Revoke(ts)
  PROVE  \A t \in Tokens :
           /\ Born(t)' <=> Born(t)
           /\ Live(t)' => Live(t)
           /\ Born(t) => tokens'[t].family = tokens[t].family /\ tokens'[t].grant = tokens[t].grant
BY RevokeShape DEF Born, Live

LEMMA StepKinds ==
  ASSUME TypeOK, HandlersHaveRows, [Next]_vars
  PROVE  QuietStep \/ \E r \in Requests : LoudStep(r)
<1> USE DEF Holds
<1>1. ASSUME UNCHANGED vars
      PROVE  QuietStep
  BY <1>1 DEF vars, QuietStep, Born, Live
<1>2. ASSUME NEW r \in Requests, NEW h \in Handlers, Becomes(r, h),
             h.pc \notin {"issueFirst", "issueNext"}
      PROVE  \A q \in Requests :
               reqs'[q].pc \in {"issueFirst", "issueNext"} => reqs'[q] = reqs[q]
  BY <1>2, BecomesTyped
<1>3. Idle \in Handlers /\ Idle.pc = "idle"
  BY DEF Handlers, Idle
<1>4. ASSUME NEW r \in Requests, AuthorizeStep(r)
      PROVE  QuietStep
  <2>1. ASSUME NEW g \in Grants, AuthorizeRead(r, g)
        PROVE  QuietStep
    <3>1. [pc |-> "mint", grant |-> g] \in Handlers
      BY DEF Handlers
    <3> QED
      BY <2>1, <3>1, <1>2 DEF AuthorizeRead, QuietStep, Born, Live
  <2>2. ASSUME NEW c \in Codes, AuthorizeMint(r, c)
        PROVE  QuietStep
    BY <2>2, <1>2, <1>3 DEF AuthorizeMint, QuietStep, Born, Live, TypeOK
  <2> QED
    BY <1>4, <2>1, <2>2 DEF AuthorizeStep
<1>5. ASSUME NEW r \in Requests, ExchangeStep(r)
      PROVE  QuietStep \/ LoudStep(r)
  <2>1. ASSUME NEW c \in Codes, NEW client \in Clients, NEW proof \in BOOLEAN,
               ConsumeFind(r, c, client, proof)
        PROVE  QuietStep
    <3>1. [pc |-> "delete", code |-> c, client |-> client, proof |-> proof,
           late |-> codes[c].expired] \in Handlers
      BY <2>1, FindHandler
    <3> QED
      BY <2>1, <3>1, <1>2 DEF ConsumeFind, QuietStep, Born, Live
  <2>2. ASSUME ConsumeBurn(r)
        PROVE  QuietStep
    <3>1. reqs[r].code \in Codes
      BY <2>2, HandlerShape DEF ConsumeBurn
    <3> QED
      BY <2>2, <3>1, <1>2, <1>3 DEF ConsumeBurn, QuietStep, Born, Live, TypeOK
  <2>3. ASSUME ConsumeConflict(r)
        PROVE  QuietStep
    BY <2>3, <1>2, <1>3 DEF ConsumeConflict, QuietStep, Born, Live
  <2> QED
    BY <1>5, <2>1, <2>2, <2>3 DEF ExchangeStep, LoudStep
<1>6. ASSUME NEW r \in Requests, RefreshStep(r)
      PROVE  QuietStep \/ LoudStep(r)
  <2>1. ASSUME NEW t \in Tokens, NEW client \in Clients, RefreshFind(r, t, client)
        PROVE  QuietStep
    <3> DEFINE h == [pc |-> IF tokens[t].expired THEN "expire" ELSE "entitle", token |-> t]
    <3>1. h \in Handlers /\ h.pc \notin {"issueFirst", "issueNext"}
      BY DEF Handlers
    <3> QED
      BY <2>1, <3>1, <1>2 DEF RefreshFind, QuietStep, Born, Live
  <2>2. ASSUME RefreshExpire(r)
        PROVE  QuietStep
    BY <2>2, <1>2, <1>3, RevokeIsQuiet DEF RefreshExpire, QuietStep
  <2>3. ASSUME RefreshEntitle(r)
        PROVE  QuietStep
    <3> DEFINE t == reqs[r].token
               roles == ent[KeyOf(tokens[t].grant)]
               h == IF roles = NoEntitlement
                      THEN Idle ELSE [pc |-> "rotate", token |-> t, roles |-> roles]
    <3>1. t \in Tokens /\ tokens[t].grant \in Grants
      BY <2>3, HandlerRow DEF RefreshEntitle
    <3>2. roles # NoEntitlement => roles \in RoleSets
      BY <3>1, KeyOfGrant DEF TypeOK
    <3>3. h \in Handlers /\ h.pc \notin {"issueFirst", "issueNext"}
      BY <3>1, <3>2, <1>3 DEF Handlers
    <3> QED
      BY <2>3, <3>3, <1>2 DEF RefreshEntitle, QuietStep, Born, Live
  <2> QED
    BY <1>6, <2>1, <2>2, <2>3 DEF RefreshStep, LoudStep
<1>7. ASSUME NEW r \in Requests, SignOutStep(r)
      PROVE  QuietStep
  <2>1. ASSUME NEW t \in Tokens, NEW user \in Users, SignOutFind(r, t, user)
        PROVE  QuietStep
    <3>1. [pc |-> "revokeOne", token |-> t] \in Handlers
      BY DEF Handlers
    <3> QED
      BY <2>1, <3>1, <1>2 DEF SignOutFind, QuietStep, Born, Live
  <2>2. ASSUME SignOutToken(r)
        PROVE  QuietStep
    <3> DEFINE t == reqs[r].token
               h == IF tokens[t].grant.session = NoSession
                      THEN [pc |-> "audit", token |-> t, event |-> "TOKEN_REVOKED"]
                      ELSE [pc |-> "revokeSession", token |-> t]
    <3>1. t \in Tokens
      BY <2>2, HandlerRow DEF SignOutToken
    <3>2. h \in Handlers /\ h.pc \notin {"issueFirst", "issueNext"}
      BY <3>1 DEF Handlers, AuditEvents
    <3> QED
      BY <2>2, <3>2, <1>2, RevokeIsQuiet DEF SignOutToken, QuietStep
  <2>3. ASSUME SignOutSession(r)
        PROVE  QuietStep
    <3>1. reqs[r].token \in Tokens
      BY <2>3, HandlerRow DEF SignOutSession
    <3>2. [pc |-> "audit", token |-> reqs[r].token, event |-> "TOKEN_REVOKED"] \in Handlers
      BY <3>1 DEF Handlers, AuditEvents
    <3> QED
      BY <2>3, <3>2, <1>2, RevokeIsQuiet DEF SignOutSession, QuietStep
  <2> QED
    BY <1>7, <2>1, <2>2, <2>3 DEF SignOutStep
<1>8. ASSUME NEW r \in Requests, Audit(r) \/ Fail(r)
      PROVE  QuietStep
  BY <1>8, <1>2, <1>3 DEF Audit, Fail, QuietStep, Born, Live
<1>9. ASSUME Environment
      PROVE  QuietStep
  <2>1. ASSUME NEW k \in Keys, NEW roles \in RoleSets,
               GrantEntitlement(k, roles) \/ RevokeEntitlement(k)
        PROVE  QuietStep
    BY <2>1 DEF GrantEntitlement, RevokeEntitlement, QuietStep, Born, Live
  <2>2. ASSUME NEW k \in Keys, RevokeEntitlement(k)
        PROVE  QuietStep
    BY <2>2 DEF RevokeEntitlement, QuietStep, Born, Live
  <2>3. ASSUME NEW c \in Codes, CodeExpires(c)
        PROVE  QuietStep
    BY <2>3 DEF CodeExpires, QuietStep, Born, Live, TypeOK, CodeRows, Unborn
  <2>4. ASSUME NEW t \in Tokens, TokenExpires(t)
        PROVE  QuietStep
    BY <2>4 DEF TokenExpires, QuietStep, Born, Live, TypeOK, TokenRows, Unborn
  <2>5. ASSUME Prune
        PROVE  QuietStep
    BY <2>5 DEF Prune, ExpiredCodes, QuietStep, Born, Live, TypeOK, CodeRows, Unborn
  <2> QED
    BY <1>9, <2>1, <2>2, <2>3, <2>4, <2>5 DEF Environment
<1> QED
  BY <1>1, <1>4, <1>5, <1>6, <1>7, <1>8, <1>9 DEF Next, RequestStep
-----------------------------------------------------------------------------
(* Rows are never removed and keep their columns; the tables only grow. *)
RowsPersist ==
  /\ \A c \in Codes :
       /\ codes[c].status = "gone" => codes'[c].status = "gone"
       /\ codes[c].status # "unborn" => codes'[c].status # "unborn"
  /\ \A t \in Tokens : Born(t) =>
       /\ Born(t)'
       /\ tokens'[t].family = tokens[t].family
       /\ tokens'[t].grant = tokens[t].grant
  /\ missed \subseteq missed'

LEMMA NextRowsPersist ==
  ASSUME TypeOK, HandlersHaveRows, [Next]_vars
  PROVE  RowsPersist
<1>1. CASE QuietStep
  BY <1>1 DEF QuietStep, RowsPersist
<1>2. ASSUME NEW r \in Requests, ConsumeAccept(r)
      PROVE  RowsPersist
  BY <1>2, HandlerShape DEF ConsumeAccept, RowsPersist, Born, TypeOK
<1>3. ASSUME NEW r \in Requests, RefreshRotate(r)
      PROVE  RowsPersist
  BY <1>3, RevokeIsQuiet DEF RefreshRotate, RowsPersist
<1>4. ASSUME NEW r \in Requests, RefreshRotateFails(r)
      PROVE  RowsPersist
  BY <1>4 DEF RefreshRotateFails, RowsPersist, Born
<1>5. ASSUME NEW r \in Requests, NEW t \in Tokens, IssueFirst(r, t)
      PROVE  RowsPersist
  BY <1>5 DEF IssueFirst, Insert, RowsPersist, Born, TypeOK
<1>6. ASSUME NEW r \in Requests, NEW t \in Tokens, RefreshIssue(r, t)
      PROVE  RowsPersist
  BY <1>6 DEF RefreshIssue, Insert, RowsPersist, Born, TypeOK
<1> QED
  BY StepKinds, <1>1, <1>2, <1>3, <1>4, <1>5, <1>6 DEF LoudStep

(* A step inserts no token, or it is one of the two that issue one. *)
LEMMA WhoInserts ==
  ASSUME TypeOK, HandlersHaveRows, [Next]_vars
  PROVE  \/ \A t \in Tokens : Born(t)' => Born(t)
         \/ \E r \in Requests, t \in Tokens : IssueFirst(r, t) \/ RefreshIssue(r, t)
<1>1. CASE QuietStep
  BY <1>1 DEF QuietStep
<1>2. ASSUME NEW r \in Requests, RefreshRotate(r)
      PROVE  \A t \in Tokens : Born(t)' => Born(t)
  BY <1>2, RevokeIsQuiet DEF RefreshRotate
<1>3. ASSUME NEW r \in Requests, ConsumeAccept(r) \/ RefreshRotateFails(r)
      PROVE  \A t \in Tokens : Born(t)' => Born(t)
  BY <1>3 DEF ConsumeAccept, RefreshRotateFails, Born
<1> QED
  BY StepKinds, <1>1, <1>2, <1>3 DEF LoudStep

(* HandlersHaveRows for one handler record, given the two tables. *)
HasRows(h, cs, ts) ==
  /\ h.pc = "delete" => cs[h.code].status # "unborn"
  /\ h.pc = "issueFirst" => cs[h.code].status = "gone"
  /\ h.pc \in {"expire", "entitle", "rotate", "issueNext", "revokeOne",
               "revokeSession", "audit"} => ts[h.token].status # "unborn"

LEMMA OneHandlerMoves ==
  ASSUME TypeOK, HandlersHaveRows, RowsPersist, NEW r \in Requests, NEW h \in Handlers,
         Becomes(r, h), HasRows(h, codes', tokens')
  PROVE  HandlersHaveRows'
<1>1. /\ reqs'[r] = h
      /\ \A q \in Requests : q # r => reqs'[q] = reqs[q]
  BY BecomesTyped
<1>2. ASSUME NEW q \in Requests, q # r
      PROVE  HasRows(reqs'[q], codes', tokens')
  BY <1>1, <1>2, HandlerShape DEF HandlersHaveRows, RowsPersist, HasRows, Holds, Born
<1> QED
  BY <1>1, <1>2 DEF HandlersHaveRows, HasRows, Holds, Born

(* No handler loses, or starts without, the rows it relies on.  Only the    *)
(* steps that leave a handler with something to rely on need an argument.   *)
LEMMA NextHandlersHaveRows ==
  ASSUME TypeOK, HandlersHaveRows, [Next]_vars
  PROVE  HandlersHaveRows'
<1> USE DEF Holds, Born
<1>1. RowsPersist
  BY NextRowsPersist
<1>2. ASSUME NEW r \in Requests, Becomes(r, Idle)
      PROVE  HandlersHaveRows'
  <2>1. Idle \in Handlers /\ HasRows(Idle, codes', tokens')
    BY DEF Handlers, Idle, HasRows
  <2> QED
    BY <1>1, <1>2, <2>1, OneHandlerMoves
<1>3. ASSUME NEW r \in Requests, AuthorizeStep(r)
      PROVE  HandlersHaveRows'
  <2>1. ASSUME NEW g \in Grants, AuthorizeRead(r, g)
        PROVE  HandlersHaveRows'
    <3> DEFINE h == [pc |-> "mint", grant |-> g]
    <3>1. h \in Handlers /\ HasRows(h, codes', tokens')
      BY DEF Handlers, HasRows
    <3> QED
      BY <1>1, <2>1, <3>1, OneHandlerMoves DEF AuthorizeRead
  <2> QED
    BY <1>2, <1>3, <2>1 DEF AuthorizeStep, AuthorizeMint
<1>4. ASSUME NEW r \in Requests, ExchangeStep(r)
      PROVE  HandlersHaveRows'
  <2>1. ASSUME NEW c \in Codes, NEW client \in Clients, NEW proof \in BOOLEAN,
               ConsumeFind(r, c, client, proof)
        PROVE  HandlersHaveRows'
    <3> DEFINE h == [pc |-> "delete", code |-> c, client |-> client, proof |-> proof,
           late |-> codes[c].expired]
    <3>1. h \in Handlers /\ HasRows(h, codes', tokens')
      BY <2>1, FindHandler DEF HasRows, ConsumeFind
    <3> QED
      BY <1>1, <2>1, <3>1, OneHandlerMoves DEF ConsumeFind
  <2>2. ASSUME ConsumeAccept(r)
        PROVE  HandlersHaveRows'
    <3> DEFINE c == reqs[r].code
               h == [pc |-> "issueFirst", code |-> c, grant |-> codes[c].grant]
    <3>1. c \in Codes /\ codes[c].grant \in Grants
      BY <2>2, HandlerShape, RowShape DEF ConsumeAccept
    <3>2. codes'[c].status = "gone"
      BY <2>2, <3>1 DEF ConsumeAccept, TypeOK
    <3>3. h \in Handlers /\ HasRows(h, codes', tokens')
      BY <3>1, <3>2 DEF Handlers, HasRows
    <3> QED
      BY <1>1, <2>2, <3>3, OneHandlerMoves DEF ConsumeAccept
  <2>3. ASSUME NEW t \in Tokens, IssueFirst(r, t)
        PROVE  HandlersHaveRows'
    <3> DEFINE h == [pc |-> "audit", token |-> t, event |-> "TOKEN_ISSUED"]
    <3>1. Born(t)'
      BY <2>3 DEF IssueFirst, Insert, Born, TypeOK
    <3>2. h \in Handlers /\ HasRows(h, codes', tokens')
      BY <3>1 DEF Handlers, HasRows, AuditEvents, IssueEvents
    <3> QED
      BY <1>1, <2>3, <3>2, OneHandlerMoves DEF IssueFirst
  <2> QED
    BY <1>2, <1>4, <2>1, <2>2, <2>3 DEF ExchangeStep, ConsumeBurn, ConsumeConflict
<1>5. ASSUME NEW r \in Requests, RefreshStep(r)
      PROVE  HandlersHaveRows'
  <2>1. ASSUME NEW t \in Tokens, NEW client \in Clients, RefreshFind(r, t, client)
        PROVE  HandlersHaveRows'
    <3> DEFINE h == [pc |-> IF tokens[t].expired THEN "expire" ELSE "entitle", token |-> t]
    <3>1. Born(t)'
      BY <1>1, <2>1 DEF RefreshFind, RowsPersist, Born
    <3>2. h \in Handlers /\ HasRows(h, codes', tokens')
      BY <3>1 DEF Handlers, HasRows
    <3> QED
      BY <1>1, <2>1, <3>2, OneHandlerMoves DEF RefreshFind
  <2>2. ASSUME RefreshEntitle(r)
        PROVE  HandlersHaveRows'
    <3> DEFINE t == reqs[r].token
               roles == ent[KeyOf(tokens[t].grant)]
               h == IF roles = NoEntitlement
                      THEN Idle ELSE [pc |-> "rotate", token |-> t, roles |-> roles]
    <3>1. t \in Tokens /\ Born(t) /\ tokens[t].grant \in Grants
      BY <2>2, HandlerRow DEF RefreshEntitle
    <3>2. roles # NoEntitlement => roles \in RoleSets
      BY <3>1, KeyOfGrant DEF TypeOK
    <3>3. h \in Handlers /\ HasRows(h, codes', tokens')
      BY <1>1, <3>1, <3>2 DEF Handlers, HasRows, RowsPersist, Idle
    <3> QED
      BY <1>1, <2>2, <3>3, OneHandlerMoves DEF RefreshEntitle
  <2>3. ASSUME NEW hit \in BOOLEAN,
               Holds(r, "rotate"),
               Becomes(r, [pc |-> "issueNext", token |-> reqs[r].token,
                           roles |-> reqs[r].roles, hit |-> hit])
        PROVE  HandlersHaveRows'
    <3> DEFINE h == [pc |-> "issueNext", token |-> reqs[r].token,
                     roles |-> reqs[r].roles, hit |-> hit]
    <3>1. reqs[r].token \in Tokens /\ Born(reqs[r].token) /\ reqs[r].roles \in RoleSets
      BY <2>3, HandlerRow, HandlerShape
    <3>2. h \in Handlers /\ HasRows(h, codes', tokens')
      BY <1>1, <3>1 DEF Handlers, HasRows, RowsPersist
    <3> QED
      BY <1>1, <2>3, <3>2, OneHandlerMoves
  <2>4. ASSUME NEW t \in Tokens, RefreshIssue(r, t)
        PROVE  HandlersHaveRows'
    <3> DEFINE h == [pc |-> "audit", token |-> t, event |-> "TOKEN_REFRESHED"]
    <3>1. Born(t)'
      BY <2>4 DEF RefreshIssue, Insert, Born, TypeOK
    <3>2. h \in Handlers /\ HasRows(h, codes', tokens')
      BY <3>1 DEF Handlers, HasRows, AuditEvents, IssueEvents
    <3> QED
      BY <1>1, <2>4, <3>2, OneHandlerMoves DEF RefreshIssue
  <2>5. ASSUME RefreshRotate(r)
        PROVE  HandlersHaveRows'
    <3>1. (tokens[reqs[r].token].status = "live") \in BOOLEAN
      OBVIOUS
    <3> QED
      BY <2>3, <2>5, <3>1 DEF RefreshRotate
  <2>6. ASSUME RefreshRotateFails(r)
        PROVE  HandlersHaveRows'
    BY <2>3, <2>6 DEF RefreshRotateFails
  <2> QED
    BY <1>2, <1>5, <2>1, <2>2, <2>4, <2>5, <2>6 DEF RefreshStep, RefreshExpire
<1>6. ASSUME NEW r \in Requests, SignOutStep(r)
      PROVE  HandlersHaveRows'
  <2>1. ASSUME NEW t \in Tokens, NEW user \in Users, SignOutFind(r, t, user)
        PROVE  HandlersHaveRows'
    <3> DEFINE h == [pc |-> "revokeOne", token |-> t]
    <3>1. Born(t)'
      BY <1>1, <2>1 DEF SignOutFind, RowsPersist, Born
    <3>2. h \in Handlers /\ HasRows(h, codes', tokens')
      BY <3>1 DEF Handlers, HasRows
    <3> QED
      BY <1>1, <2>1, <3>2, OneHandlerMoves DEF SignOutFind
  <2>2. ASSUME SignOutToken(r) \/ SignOutSession(r)
        PROVE  HandlersHaveRows'
    <3> DEFINE t == reqs[r].token
               trail == [pc |-> "audit", token |-> t, event |-> "TOKEN_REVOKED"]
               more == [pc |-> "revokeSession", token |-> t]
    <3>1. t \in Tokens /\ Born(t)
      BY <2>2, HandlerRow DEF SignOutToken, SignOutSession
    <3>2. trail \in Handlers /\ HasRows(trail, codes', tokens') /\ more \in Handlers /\ HasRows(more, codes', tokens')
      BY <1>1, <3>1 DEF Handlers, HasRows, RowsPersist, AuditEvents
    <3>3. Becomes(r, trail) \/ Becomes(r, more)
      BY <2>2 DEF SignOutToken, SignOutSession
    <3> QED
      BY <1>1, <3>2, <3>3, OneHandlerMoves
  <2> QED
    BY <1>6, <2>1, <2>2 DEF SignOutStep
<1>7. ASSUME NEW r \in Requests, Audit(r) \/ Fail(r)
      PROVE  HandlersHaveRows'
  BY <1>2, <1>7 DEF Audit, Fail
<1>8. ASSUME reqs' = reqs
      PROVE  HandlersHaveRows'
  BY <1>1, <1>8, HandlerShape DEF HandlersHaveRows, RowsPersist
<1>9. Environment \/ UNCHANGED vars => reqs' = reqs
  BY DEF Environment, GrantEntitlement, RevokeEntitlement, CodeExpires, TokenExpires, Prune, vars
<1> QED
  BY <1>3, <1>4, <1>5, <1>6, <1>7, <1>8, <1>9 DEF Next, RequestStep

-----------------------------------------------------------------------------
(* The parts of IInv about families, under a name for the lemmas below. *)
FamilyInv == FamiliesAreSpent /\ RedeemedOnce /\ RotationHolds /\ OneLiveUnlessMissed

LEMMA QuietKeepsFamilies ==
  ASSUME TypeOK, HandlersHaveRows, FamilyInv, QuietStep, TypeOK', HandlersHaveRows'
  PROVE  FamilyInv'
<1> USE DEF Holds, Live
<1>1. FamiliesAreSpent'
  BY RowShape DEF FamilyInv, FamiliesAreSpent, QuietStep
<1>2. RedeemedOnce'
  BY DEF FamilyInv, RedeemedOnce, QuietStep
<1>3. OneLiveUnlessMissed'
  BY DEF FamilyInv, OneLiveUnlessMissed, QuietStep, Born
<1>4. ASSUME NEW r \in Requests, Holds(r, "issueNext")'
      PROVE  /\ reqs'[r] = reqs[r] /\ reqs[r].pc = "issueNext"
             /\ tokens'[reqs'[r].token].family = tokens[reqs[r].token].family
  BY <1>4, HandlerRow DEF QuietStep
<1>5. RotationHolds'
  <2> SUFFICES ASSUME NEW r \in Requests, Holds(r, "issueNext")',
                      tokens'[reqs'[r].token].family \notin missed'
               PROVE  LET f == tokens'[reqs'[r].token].family IN
                        /\ \A t \in Tokens : Live(t)' => tokens'[t].family # f
                        /\ \A q \in Requests :
                             Holds(q, "issueNext")' /\ tokens'[reqs'[q].token].family = f => q = r
    BY DEF RotationHolds
  <2>1. \A t \in Tokens : Live(t)' => Live(t) /\ tokens'[t].family = tokens[t].family
    BY DEF QuietStep, Born
  <2> QED
    BY <1>4, <2>1 DEF FamilyInv, RotationHolds, QuietStep
<1> QED
  BY <1>1, <1>2, <1>3, <1>5 DEF FamilyInv

(* Accepting a code: its row was still stored, so neither a token nor       *)
(* another handler can have come from it.                                   *)
LEMMA AcceptKeepsFamilies ==
  ASSUME TypeOK, HandlersHaveRows, FamilyInv, NEW r \in Requests, ConsumeAccept(r)
  PROVE  FamilyInv'
<1> USE DEF Holds, Live
<1> DEFINE c == reqs[r].code
           h == [pc |-> "issueFirst", code |-> c, grant |-> codes[c].grant]
<1>1. c \in Codes /\ codes[c].status = "stored" /\ codes[c].grant \in Grants
  BY HandlerShape, RowShape DEF ConsumeAccept
<1>2. h \in Handlers
  BY <1>1 DEF Handlers
<1>3. reqs'[r] = h /\ \A q \in Requests : q # r => reqs'[q] = reqs[q]
  BY <1>2, BecomesTyped DEF ConsumeAccept
<1>4. tokens' = tokens /\ missed' = missed
  BY DEF ConsumeAccept
<1>5. \A t \in Tokens : Born(t) => tokens[t].family # c
  BY <1>1 DEF FamilyInv, FamiliesAreSpent
<1>6. \A q \in Requests : Holds(q, "issueFirst") => reqs[q].code # c
  BY <1>1 DEF HandlersHaveRows
<1>7. FamiliesAreSpent'
  BY <1>1, <1>4 DEF FamilyInv, FamiliesAreSpent, ConsumeAccept, TypeOK, Born
<1>8. RedeemedOnce'
  BY <1>3, <1>4, <1>5, <1>6 DEF FamilyInv, RedeemedOnce, Born
<1>9. RotationHolds' /\ OneLiveUnlessMissed'
  BY <1>3, <1>4 DEF FamilyInv, RotationHolds, OneLiveUnlessMissed
<1> QED
  BY <1>7, <1>8, <1>9 DEF FamilyInv

(* The revoke of a rotation: if it changed the row, that row was the only   *)
(* live one of its family; if it did not, the family is missed.             *)
LEMMA RotateKeepsFamilies ==
  ASSUME TypeOK, HandlersHaveRows, FamilyInv, NEW r \in Requests,
         RefreshRotate(r) \/ RefreshRotateFails(r)
  PROVE  FamilyInv'
<1> USE DEF Holds, Live
<1> DEFINE t == reqs[r].token
           f == tokens[t].family
<1>1. t \in Tokens /\ Born(t) /\ f \in Codes /\ reqs[r].roles \in RoleSets
  BY HandlerRow, HandlerShape DEF RefreshRotate, RefreshRotateFails
<1>2. PICK hit \in BOOLEAN :
        /\ Becomes(r, [pc |-> "issueNext", token |-> t, roles |-> reqs[r].roles, hit |-> hit])
        /\ missed' = IF hit THEN missed ELSE missed \cup {f}
        /\ hit => Live(t) /\ RefreshRotate(r)
  <2>1. CASE RefreshRotate(r)
    <3>1. (tokens[t].status = "live") \in BOOLEAN
      OBVIOUS
    <3> QED
      BY <2>1, <3>1 DEF RefreshRotate
  <2>2. CASE RefreshRotateFails(r)
    BY <2>2 DEF RefreshRotateFails
  <2> QED
    BY <2>1, <2>2
<1> DEFINE h == [pc |-> "issueNext", token |-> t, roles |-> reqs[r].roles, hit |-> hit]
<1>3. h \in Handlers
  BY <1>1 DEF Handlers
<1>4. reqs'[r] = h /\ \A q \in Requests : q # r => reqs'[q] = reqs[q]
  BY <1>2, <1>3, BecomesTyped
<1>5. \A u \in Tokens :
        /\ Live(u)' => Live(u)
        /\ Born(u)' <=> Born(u)
        /\ Born(u) => tokens'[u].family = tokens[u].family
        /\ hit => tokens'[t].status # "live"
  <2>1. CASE RefreshRotate(r)
    <3>1. Revoke({t})
      BY <2>1 DEF RefreshRotate
    <3>2. tokens'[t].status # "live"
      BY <3>1, <1>1, RevokeShape
    <3>3. \A u \in Tokens :
            /\ Live(u)' => Live(u)
            /\ Born(u)' <=> Born(u)
            /\ Born(u) => tokens'[u].family = tokens[u].family
      BY <3>1, RevokeIsQuiet
    <3> QED
      BY <3>2, <3>3
  <2>2. CASE ~ RefreshRotate(r)
    <3>1. tokens' = tokens /\ ~ hit
      BY <2>2, <1>2 DEF RefreshRotateFails
    <3> QED
      BY <3>1 DEF Born
  <2> QED
    BY <2>1, <2>2
<1>6. codes' = codes
  BY DEF RefreshRotate, RefreshRotateFails
<1>7. FamiliesAreSpent'
  BY <1>5, <1>6 DEF FamilyInv, FamiliesAreSpent
<1>8. RedeemedOnce'
  BY <1>4, <1>5 DEF FamilyInv, RedeemedOnce
<1>9. OneLiveUnlessMissed'
  BY <1>2, <1>5 DEF FamilyInv, OneLiveUnlessMissed, Born
<1>10. RotationHolds'
  <2> SUFFICES ASSUME NEW q \in Requests, Holds(q, "issueNext")',
                      tokens'[reqs'[q].token].family \notin missed'
               PROVE  LET g == tokens'[reqs'[q].token].family IN
                        /\ \A u \in Tokens : Live(u)' => tokens'[u].family # g
                        /\ \A p \in Requests :
                             Holds(p, "issueNext")' /\ tokens'[reqs'[p].token].family = g => p = q
    BY DEF RotationHolds
  <2>1. \A p \in Requests : p # r /\ Holds(p, "issueNext")' =>
          /\ Holds(p, "issueNext")
          /\ tokens'[reqs'[p].token].family = tokens[reqs[p].token].family
    BY <1>4, <1>5, HandlerRow
  <2>2. tokens'[reqs'[r].token].family = f
    BY <1>1, <1>4, <1>5
  <2>3. \A u \in Tokens : Live(u)' => Live(u) /\ tokens'[u].family = tokens[u].family
    BY <1>5 DEF Born
  <2>4. missed \subseteq missed'
    BY <1>2
  <2>5. CASE q = r
    <3>1. hit /\ Live(t) /\ f \notin missed
      BY <1>2, <2>2, <2>5
    <3>2. \A u \in Tokens : Live(u)' => tokens'[u].family # f
      BY <1>1, <1>5, <2>3, <3>1 DEF FamilyInv, OneLiveUnlessMissed
    <3>3. \A p \in Requests : Holds(p, "issueNext") => tokens[reqs[p].token].family # f
      BY <1>1, <3>1 DEF FamilyInv, RotationHolds
    <3> QED
      BY <2>1, <2>2, <2>5, <3>2, <3>3
  <2>6. CASE q # r
    <3> DEFINE g == tokens[reqs[q].token].family
    <3>1. Holds(q, "issueNext") /\ g = tokens'[reqs'[q].token].family /\ g \notin missed
      BY <2>1, <2>4, <2>6
    <3>2. \A u \in Tokens : Live(u) => tokens[u].family # g
      BY <3>1 DEF FamilyInv, RotationHolds
    <3>3. f # g
      <4>1. CASE hit
        <5>1. Live(t)
          BY <1>2, <4>1
        <5> QED
          BY <1>1, <3>2, <5>1
      <4>2. CASE ~ hit
        BY <1>2, <3>1, <4>2
      <4> QED
        BY <4>1, <4>2
    <3>4. \A p \in Requests :
            Holds(p, "issueNext") /\ tokens[reqs[p].token].family = g => p = q
      BY <3>1 DEF FamilyInv, RotationHolds
    <3> QED
      BY <2>1, <2>2, <2>3, <3>1, <3>2, <3>3, <3>4
  <2> QED
    BY <2>5, <2>6
<1> QED
  BY <1>7, <1>8, <1>9, <1>10 DEF FamilyInv

(* The first token of a code: nothing of its family existed. *)
LEMMA IssueFirstKeepsFamilies ==
  ASSUME TypeOK, HandlersHaveRows, FamilyInv, NEW r \in Requests, NEW t \in Tokens,
         IssueFirst(r, t)
  PROVE  FamilyInv'
<1> USE DEF Holds, Live
<1> DEFINE c == reqs[r].code
           h == [pc |-> "audit", token |-> t, event |-> "TOKEN_ISSUED"]
<1>1. c \in Codes /\ reqs[r].grant \in Grants /\ codes[c].status = "gone"
  BY HandlerShape DEF IssueFirst, HandlersHaveRows
<1>2. h \in Handlers
  BY DEF Handlers, AuditEvents, IssueEvents
<1>3. reqs'[r] = h /\ \A q \in Requests : q # r => reqs'[q] = reqs[q]
  BY <1>2, BecomesTyped DEF IssueFirst
<1>4. /\ ~ Born(t)
      /\ tokens'[t].status = "live" /\ tokens'[t].family = c
      /\ \A u \in Tokens : u # t => tokens'[u] = tokens[u]
  BY <1>1, InsertTyped DEF IssueFirst
<1>5. codes' = codes /\ missed' = missed
  BY DEF IssueFirst
<1>6. /\ \A u \in Tokens : Born(u) => tokens[u].family # c
      /\ \A q \in Requests : Holds(q, "issueFirst") /\ reqs[q].code = c => q = r
  BY DEF FamilyInv, RedeemedOnce, IssueFirst
<1>7. FamiliesAreSpent'
  BY <1>1, <1>4, <1>5 DEF FamilyInv, FamiliesAreSpent, Born
<1>8. RedeemedOnce'
  BY <1>3, <1>4, <1>6 DEF FamilyInv, RedeemedOnce, Born
<1>9. OneLiveUnlessMissed'
  BY <1>4, <1>5, <1>6 DEF FamilyInv, OneLiveUnlessMissed, Born
<1>10. \A q \in Requests : Holds(q, "issueNext")' =>
         /\ Holds(q, "issueNext")
         /\ reqs'[q] = reqs[q]
         /\ tokens'[reqs[q].token].family = tokens[reqs[q].token].family
         /\ tokens[reqs[q].token].family # c
  BY <1>3, <1>4, <1>6, HandlerRow
<1>11. RotationHolds'
  BY <1>4, <1>5, <1>10 DEF FamilyInv, RotationHolds
<1> QED
  BY <1>7, <1>8, <1>9, <1>11 DEF FamilyInv

(* The next token of a family: its handler held the family alone, or the    *)
(* family was missed.                                                       *)
LEMMA IssueNextKeepsFamilies ==
  ASSUME TypeOK, HandlersHaveRows, FamilyInv, NEW r \in Requests, NEW t \in Tokens,
         RefreshIssue(r, t)
  PROVE  FamilyInv'
<1> USE DEF Holds, Live
<1> DEFINE old == tokens[reqs[r].token]
           f == old.family
           g == [old.grant EXCEPT !.roles = reqs[r].roles]
           h == [pc |-> "audit", token |-> t, event |-> "TOKEN_REFRESHED"]
<1>1. /\ reqs[r].token \in Tokens /\ Born(reqs[r].token)
      /\ old.grant \in Grants /\ f \in Codes /\ reqs[r].roles \in RoleSets
  BY HandlerRow, HandlerShape DEF RefreshIssue
<1>2. h \in Handlers
  BY DEF Handlers, AuditEvents, IssueEvents
<1>3. reqs'[r] = h /\ \A q \in Requests : q # r => reqs'[q] = reqs[q]
  BY <1>2, BecomesTyped DEF RefreshIssue
<1>4. /\ ~ Born(t)
      /\ tokens'[t].status = "live" /\ tokens'[t].family = f
      /\ \A u \in Tokens : u # t => tokens'[u] = tokens[u]
  <2>1. g \in Grants
    BY <1>1 DEF Grants
  <2>2. Insert(t, g, f)
    BY DEF RefreshIssue
  <2> QED
    BY <1>1, <2>1, <2>2, InsertTyped
<1>5. codes' = codes /\ missed' = missed
  BY DEF RefreshIssue
<1>6. f \notin missed =>
        /\ \A u \in Tokens : Live(u) => tokens[u].family # f
        /\ \A q \in Requests :
             Holds(q, "issueNext") /\ tokens[reqs[q].token].family = f => q = r
  BY DEF FamilyInv, RotationHolds, RefreshIssue
<1>7. FamiliesAreSpent'
  BY <1>1, <1>4, <1>5 DEF FamilyInv, FamiliesAreSpent, Born
<1>8. RedeemedOnce'
  BY <1>1, <1>3, <1>4 DEF FamilyInv, RedeemedOnce, Born
<1>9. OneLiveUnlessMissed'
  BY <1>4, <1>5, <1>6 DEF FamilyInv, OneLiveUnlessMissed, Born
<1>10. \A q \in Requests : Holds(q, "issueNext")' =>
         /\ q # r
         /\ Holds(q, "issueNext")
         /\ reqs'[q] = reqs[q]
         /\ tokens'[reqs[q].token].family = tokens[reqs[q].token].family
  BY <1>3, <1>4, HandlerRow
<1>11. RotationHolds'
  <2> SUFFICES ASSUME NEW q \in Requests, Holds(q, "issueNext")',
                      tokens[reqs[q].token].family \notin missed
               PROVE  /\ \A u \in Tokens :
                           Live(u)' => tokens'[u].family # tokens[reqs[q].token].family
                      /\ \A p \in Requests :
                           /\ Holds(p, "issueNext")'
                           /\ tokens[reqs[p].token].family = tokens[reqs[q].token].family
                           => p = q
    BY <1>5, <1>10 DEF RotationHolds
  <2>1. q # r /\ tokens[reqs[q].token].family # f
    BY <1>6, <1>10
  <2> QED
    BY <1>4, <1>10, <2>1 DEF FamilyInv, RotationHolds
<1> QED
  BY <1>7, <1>8, <1>9, <1>11 DEF FamilyInv

-----------------------------------------------------------------------------
LEMMA InitIInv == Init => IInv
BY InitTypeOK DEF Init, IInv, HandlersHaveRows, FamiliesAreSpent, RedeemedOnce, RotationHolds,
   OneLiveUnlessMissed, Holds, Idle, Born, Live, Unborn

LEMMA NextIInv == IInv /\ [Next]_vars => IInv'
<1> SUFFICES ASSUME IInv, [Next]_vars
             PROVE  IInv'
  OBVIOUS
<1>1. TypeOK /\ HandlersHaveRows /\ FamilyInv
  BY DEF IInv, FamilyInv
<1>2. TypeOK' /\ HandlersHaveRows'
  BY <1>1, NextTypeOK, NextHandlersHaveRows
<1>3. CASE QuietStep
  BY <1>1, <1>2, <1>3, QuietKeepsFamilies DEF IInv, FamilyInv
<1>4. ASSUME NEW r \in Requests, LoudStep(r)
      PROVE  FamilyInv'
  BY <1>1, <1>4, AcceptKeepsFamilies, RotateKeepsFamilies, IssueFirstKeepsFamilies,
     IssueNextKeepsFamilies DEF LoudStep
<1> QED
  BY <1>1, <1>2, <1>3, <1>4, StepKinds DEF IInv, FamilyInv

(* The invariant the theorems below are read off: every interleaving of     *)
(* authorize, exchange, refresh, sign-out, failures and pruning keeps it,   *)
(* for any number of requests, codes, tokens, users and clients.            *)
THEOREM InvariantHolds == Spec => []IInv
<1> QED
  BY InitIInv, NextIInv, PTL DEF Spec

(* The tables and the handlers' local variables have the shapes the code    *)
(* gives them.                                                              *)
THEOREM TypeCorrect == Spec => []TypeOK
<1>1. IInv => TypeOK
  BY DEF IInv
<1> QED
  BY <1>1, InvariantHolds, PTL

(* An authorization code is redeemed at most once, however many exchanges   *)
(* present it at the same time and whichever of them fail.                  *)
THEOREM CodesAreRedeemedOnce == Spec => []RedeemedOnce
<1>1. IInv => RedeemedOnce
  BY DEF IInv
<1> QED
  BY <1>1, InvariantHolds, PTL

(* Two live refresh tokens of one family exist only if a rotation's revoke  *)
(* changed no row and the handler went on.                                  *)
THEOREM RotationLeavesOneLive == Spec => []OneLiveUnlessMissed
<1>1. IInv => OneLiveUnlessMissed
  BY DEF IInv
<1> QED
  BY <1>1, InvariantHolds, PTL

-----------------------------------------------------------------------------
(* Extinction is for ever *)

(* Carries for one handler record, given the token table. *)
CarriesRecord(h, ts, f) ==
  \/ h.pc = "issueFirst" /\ h.code = f
  \/ h.pc \in {"entitle", "rotate", "issueNext"} /\ ts[h.token].family = f

(* A step keeps a family extinct if it makes no token of it live and leaves *)
(* its handler carrying another family or none.                             *)
LEMMA ExtinctKept ==
  ASSUME TypeOK, HandlersHaveRows, RowsPersist, NEW f \in Codes, Extinct(f),
         NEW r \in Requests, NEW h \in Handlers, Becomes(r, h),
         ~ CarriesRecord(h, tokens', f),
         \A t \in Tokens : Live(t)' => tokens'[t].family # f
  PROVE  Extinct(f)'
<1>1. /\ reqs'[r] = h
      /\ \A q \in Requests : q # r => reqs'[q] = reqs[q]
  BY BecomesTyped
<1>2. codes'[f].status = "gone"
  BY DEF Extinct, RowsPersist
<1>3. ASSUME NEW q \in Requests
      PROVE  ~ CarriesRecord(reqs'[q], tokens', f)
  <2>1. CASE q = r
    BY <1>1, <2>1
  <2>2. CASE q # r
    <3>1. reqs'[q] = reqs[q]
      BY <1>1, <2>2
    <3>2. ~ CarriesRecord(reqs[q], tokens, f)
      BY DEF Extinct, Carries, CarriesRecord, Holds
    <3> QED
      BY <3>1, <3>2, HandlerRow DEF CarriesRecord, RowsPersist
  <2> QED
    BY <2>1, <2>2
<1> QED
  BY <1>2, <1>3 DEF Extinct, Carries, CarriesRecord, Holds

(* Without an insertion no token becomes live. *)
LEMMA NothingRevived ==
  ASSUME TypeOK, NEW f \in Codes, Extinct(f),
         tokens' = tokens \/ \E ts \in SUBSET Tokens : Revoke(ts)
  PROVE  \A t \in Tokens : Live(t)' => tokens'[t].family # f
<1>1. CASE tokens' = tokens
  BY <1>1 DEF Extinct, Live
<1>2. ASSUME NEW ts \in SUBSET Tokens, Revoke(ts)
      PROVE  \A t \in Tokens : Live(t)' => tokens'[t].family # f
  BY <1>2, RevokeIsQuiet DEF Extinct, Live, Born
<1> QED
  BY <1>1, <1>2

LEMMA NextKeepsExtinct ==
  ASSUME TypeOK, HandlersHaveRows, [Next]_vars, NEW f \in Codes, Extinct(f)
  PROVE  Extinct(f)'
<1> USE DEF Holds
<1>1. RowsPersist
  BY NextRowsPersist
<1>2. ASSUME NEW r \in Requests, NEW h \in Handlers, Becomes(r, h),
             h.pc \notin {"issueFirst", "entitle", "rotate", "issueNext"},
             tokens' = tokens \/ \E ts \in SUBSET Tokens : Revoke(ts)
      PROVE  Extinct(f)'
  BY <1>1, <1>2, NothingRevived, ExtinctKept DEF CarriesRecord
<1>3. Idle \in Handlers /\ Idle.pc = "idle"
  BY DEF Handlers, Idle
<1>4. ASSUME NEW r \in Requests, AuthorizeStep(r)
      PROVE  Extinct(f)'
  <2>1. ASSUME NEW g \in Grants, AuthorizeRead(r, g)
        PROVE  Extinct(f)'
    <3>1. [pc |-> "mint", grant |-> g] \in Handlers
      BY DEF Handlers
    <3> QED
      BY <2>1, <3>1, <1>2 DEF AuthorizeRead
  <2> QED
    BY <1>2, <1>3, <1>4, <2>1 DEF AuthorizeStep, AuthorizeMint
<1>5. ASSUME NEW r \in Requests, ExchangeStep(r)
      PROVE  Extinct(f)'
  <2>1. ASSUME NEW c \in Codes, NEW client \in Clients, NEW proof \in BOOLEAN,
               ConsumeFind(r, c, client, proof)
        PROVE  Extinct(f)'
    <3>1. [pc |-> "delete", code |-> c, client |-> client, proof |-> proof,
           late |-> codes[c].expired] \in Handlers
      BY <2>1, FindHandler
    <3> QED
      BY <2>1, <3>1, <1>2 DEF ConsumeFind
  <2>2. ASSUME ConsumeAccept(r)
        PROVE  Extinct(f)'
    <3> DEFINE c == reqs[r].code
               h == [pc |-> "issueFirst", code |-> c, grant |-> codes[c].grant]
    <3>1. c \in Codes /\ codes[c].status = "stored" /\ codes[c].grant \in Grants
      BY <2>2, HandlerShape, RowShape DEF ConsumeAccept
    <3>2. h \in Handlers
      BY <3>1 DEF Handlers
    <3>3. ~ CarriesRecord(h, tokens', f)
      BY <3>1 DEF CarriesRecord, Extinct
    <3>4. \A t \in Tokens : Live(t)' => tokens'[t].family # f
      BY <2>2, NothingRevived DEF ConsumeAccept
    <3> QED
      BY <1>1, <2>2, <3>2, <3>3, <3>4, ExtinctKept DEF ConsumeAccept
  <2>3. ASSUME NEW t \in Tokens, IssueFirst(r, t)
        PROVE  Extinct(f)'
    <3> DEFINE h == [pc |-> "audit", token |-> t, event |-> "TOKEN_ISSUED"]
    <3>1. h \in Handlers /\ ~ CarriesRecord(h, tokens', f)
      BY DEF Handlers, AuditEvents, IssueEvents, CarriesRecord
    <3>2. reqs[r].code # f /\ reqs[r].code \in Codes /\ reqs[r].grant \in Grants
      BY <2>3, HandlerShape DEF Extinct, Carries, IssueFirst
    <3>3. \A u \in Tokens : Live(u)' => tokens'[u].family # f
      BY <2>3, <3>2, InsertTyped DEF IssueFirst, Extinct, Live
    <3> QED
      BY <1>1, <2>3, <3>1, <3>3, ExtinctKept DEF IssueFirst
  <2> QED
    BY <1>2, <1>3, <1>5, <2>1, <2>2, <2>3 DEF ExchangeStep, ConsumeBurn, ConsumeConflict
<1>6. ASSUME NEW r \in Requests, RefreshStep(r)
      PROVE  Extinct(f)'
  <2>1. ASSUME NEW t \in Tokens, NEW client \in Clients, RefreshFind(r, t, client)
        PROVE  Extinct(f)'
    <3> DEFINE h == [pc |-> IF tokens[t].expired THEN "expire" ELSE "entitle", token |-> t]
    <3>1. h \in Handlers
      BY DEF Handlers
    <3>2. ~ CarriesRecord(h, tokens', f)
      BY <2>1 DEF RefreshFind, Extinct, Live, CarriesRecord
    <3>3. \A u \in Tokens : Live(u)' => tokens'[u].family # f
      BY <2>1, NothingRevived DEF RefreshFind
    <3> QED
      BY <1>1, <2>1, <3>1, <3>2, <3>3, ExtinctKept DEF RefreshFind
  <2>2. ASSUME RefreshExpire(r)
        PROVE  Extinct(f)'
    <3>1. {reqs[r].token} \in SUBSET Tokens
      BY <2>2, HandlerRow DEF RefreshExpire
    <3> QED
      BY <1>2, <1>3, <2>2, <3>1 DEF RefreshExpire
  <2>3. ASSUME RefreshEntitle(r)
        PROVE  Extinct(f)'
    <3> DEFINE t == reqs[r].token
               roles == ent[KeyOf(tokens[t].grant)]
               h == [pc |-> "rotate", token |-> t, roles |-> roles]
    <3>1. t \in Tokens /\ tokens[t].grant \in Grants
      BY <2>3, HandlerRow DEF RefreshEntitle
    <3>2. CASE roles = NoEntitlement
      BY <1>2, <1>3, <2>3, <3>2 DEF RefreshEntitle
    <3>3. CASE roles # NoEntitlement
      <4>1. h \in Handlers
        BY <3>1, <3>3, KeyOfGrant DEF TypeOK, Handlers
      <4>2. ~ CarriesRecord(h, tokens', f)
        BY <2>3 DEF RefreshEntitle, Extinct, Carries, CarriesRecord
      <4>3. \A u \in Tokens : Live(u)' => tokens'[u].family # f
        BY <2>3, NothingRevived DEF RefreshEntitle
      <4> QED
        BY <1>1, <2>3, <3>3, <4>1, <4>2, <4>3, ExtinctKept DEF RefreshEntitle
    <3> QED
      BY <3>2, <3>3
  <2>4. ASSUME NEW hit \in BOOLEAN, RefreshRotate(r) \/ RefreshRotateFails(r),
               Becomes(r, [pc |-> "issueNext", token |-> reqs[r].token,
                           roles |-> reqs[r].roles, hit |-> hit])
        PROVE  Extinct(f)'
    <3> DEFINE t == reqs[r].token
               h == [pc |-> "issueNext", token |-> t, roles |-> reqs[r].roles, hit |-> hit]
    <3>1. t \in Tokens /\ Born(t) /\ reqs[r].roles \in RoleSets /\ tokens[t].family # f
      BY <2>4, HandlerRow, HandlerShape DEF RefreshRotate, RefreshRotateFails, Extinct, Carries
    <3>2. h \in Handlers /\ ~ CarriesRecord(h, tokens', f)
      BY <1>1, <3>1 DEF Handlers, CarriesRecord, RowsPersist
    <3>3. \A u \in Tokens : Live(u)' => tokens'[u].family # f
      BY <2>4, <3>1, NothingRevived DEF RefreshRotate, RefreshRotateFails
    <3> QED
      BY <1>1, <2>4, <3>2, <3>3, ExtinctKept
  <2>5. ASSUME RefreshRotate(r)
        PROVE  Extinct(f)'
    <3>1. (tokens[reqs[r].token].status = "live") \in BOOLEAN
      OBVIOUS
    <3> QED
      BY <2>4, <2>5, <3>1 DEF RefreshRotate
  <2>6. ASSUME RefreshRotateFails(r)
        PROVE  Extinct(f)'
    BY <2>4, <2>6 DEF RefreshRotateFails
  <2>7. ASSUME NEW t \in Tokens, RefreshIssue(r, t)
        PROVE  Extinct(f)'
    <3> DEFINE old == tokens[reqs[r].token]
               g == [old.grant EXCEPT !.roles = reqs[r].roles]
               h == [pc |-> "audit", token |-> t, event |-> "TOKEN_REFRESHED"]
    <3>1. h \in Handlers /\ ~ CarriesRecord(h, tokens', f)
      BY DEF Handlers, AuditEvents, IssueEvents, CarriesRecord
    <3>2. old.family # f /\ old.family \in Codes /\ old.grant \in Grants
          /\ reqs[r].roles \in RoleSets
      BY <2>7, HandlerRow, HandlerShape DEF Extinct, Carries, RefreshIssue
    <3>3. g \in Grants /\ Insert(t, g, old.family)
      BY <2>7, <3>2 DEF Grants, RefreshIssue
    <3>4. \A u \in Tokens : Live(u)' => tokens'[u].family # f
      BY <3>2, <3>3, InsertTyped DEF Extinct, Live
    <3> QED
      BY <1>1, <2>7, <3>1, <3>4, ExtinctKept DEF RefreshIssue
  <2> QED
    BY <1>6, <2>1, <2>2, <2>3, <2>5, <2>6, <2>7 DEF RefreshStep
<1>7. ASSUME NEW r \in Requests, SignOutStep(r)
      PROVE  Extinct(f)'
  <2>1. ASSUME NEW t \in Tokens, NEW user \in Users, SignOutFind(r, t, user)
        PROVE  Extinct(f)'
    <3>1. [pc |-> "revokeOne", token |-> t] \in Handlers
      BY DEF Handlers
    <3> QED
      BY <2>1, <3>1, <1>2 DEF SignOutFind
  <2>2. ASSUME SignOutToken(r) \/ SignOutSession(r)
        PROVE  Extinct(f)'
    <3> DEFINE t == reqs[r].token
               trail == [pc |-> "audit", token |-> t, event |-> "TOKEN_REVOKED"]
               more == [pc |-> "revokeSession", token |-> t]
    <3>1. t \in Tokens
      BY <2>2, HandlerRow DEF SignOutToken, SignOutSession
    <3>2. trail \in Handlers /\ more \in Handlers
      BY <3>1 DEF Handlers, AuditEvents
    <3>3. Becomes(r, trail) \/ Becomes(r, more)
      BY <2>2 DEF SignOutToken, SignOutSession
    <3>4. \E ts \in SUBSET Tokens : Revoke(ts)
      BY <2>2, <3>1 DEF SignOutToken, SignOutSession, TokensOfSession
    <3> QED
      BY <1>2, <3>2, <3>3, <3>4
  <2> QED
    BY <1>7, <2>1, <2>2 DEF SignOutStep
<1>8. ASSUME NEW r \in Requests, Audit(r) \/ Fail(r)
      PROVE  Extinct(f)'
  BY <1>2, <1>3, <1>8 DEF Audit, Fail
<1>9. ASSUME Environment \/ UNCHANGED vars
      PROVE  Extinct(f)'
  <2>1. reqs' = reqs /\ QuietStep
    <3>1. reqs' = reqs
      BY <1>9 DEF Environment, GrantEntitlement, RevokeEntitlement, CodeExpires, TokenExpires,
         Prune, vars
    <3>2. \A t \in Tokens :
            /\ tokens'[t].status = tokens[t].status
            /\ Born(t) => tokens'[t].family = tokens[t].family
      BY <1>9 DEF Environment, GrantEntitlement, RevokeEntitlement, CodeExpires, TokenExpires,
         Prune, vars, TypeOK, TokenRows, Born, Unborn
    <3> QED
      BY <1>1, <1>9, <3>1, <3>2 DEF RowsPersist, QuietStep, Born, Live, Environment,
         GrantEntitlement, RevokeEntitlement, CodeExpires, TokenExpires, Prune, vars
  <2> QED
    BY <1>1, <2>1, HandlerRow DEF Extinct, Carries, QuietStep, RowsPersist, Born, Live
<1> QED
  BY <1>4, <1>5, <1>6, <1>7, <1>8, <1>9 DEF Next, RequestStep

(* Once a family has no live token and no handler that can still issue one, *)
(* it never has one again: a revoked or refused lineage cannot come back.   *)
THEOREM RevocationIsFinal == Spec => ExtinctStaysExtinct
<1>1. IInv /\ [Next]_vars => [\A f \in Codes : Extinct(f) => Extinct(f)']_vars
  BY NextKeepsExtinct DEF IInv
<1> QED
  BY <1>1, InvariantHolds, PTL DEF Spec, ExtinctStaysExtinct

-----------------------------------------------------------------------------
(* The audit trail *)

(* What the first half of TrailMatchesTable says of one token. *)
Recorded(t) ==
  \/ \E e \in IssueEvents : <<e, t>> \in audit
  \/ t \in lost
  \/ \E r \in Requests : Holds(r, "audit") /\ reqs[r].token = t /\ reqs[r].event \in IssueEvents

(* The token of a code exchange, its TOKEN_ISSUED recorded or about to be. *)
First(t) ==
  \/ <<"TOKEN_ISSUED", t>> \in audit
  \/ \E r \in Requests : Holds(r, "audit") /\ reqs[r].token = t /\ reqs[r].event = "TOKEN_ISSUED"

Trail ==
  /\ \A t \in Tokens : Born(t) => Recorded(t)
  /\ \A t \in Tokens : First(t) => Born(t)
  /\ \A t, u \in Tokens : First(t) /\ First(u) /\ tokens[t].family = tokens[u].family => t = u

(* A step of a handler other than those that insert a token or end an audit *)
(* leaves what is recorded, and what is about to be.                        *)
LEMMA OthersKeepTrail ==
  ASSUME TypeOK, HandlersHaveRows, RowsPersist, Trail,
         \A t \in Tokens : Born(t)' => Born(t),
         \A t \in Tokens : Recorded(t) => Recorded(t)',
         \A t \in Tokens : First(t)' => First(t)
  PROVE  Trail'
BY DEF Trail, RowsPersist

LEMMA QuietKeepsTrail ==
  ASSUME TypeOK, HandlersHaveRows, NEW r \in Requests, NEW h \in Handlers, Becomes(r, h),
         ~ Holds(r, "audit"), h.pc = "audit" => h.event = "TOKEN_REVOKED",
         audit' = audit, lost' = lost
  PROVE  /\ \A t \in Tokens : Recorded(t) => Recorded(t)'
         /\ \A t \in Tokens : First(t)' => First(t)
<1>1. reqs'[r] = h /\ \A q \in Requests : q # r => reqs'[q] = reqs[q]
  BY BecomesTyped
<1>2. ASSUME NEW q \in Requests, Holds(q, "audit")
      PROVE  reqs'[q] = reqs[q]
  BY <1>1, <1>2
<1>3. ASSUME NEW q \in Requests, Holds(q, "audit")', reqs'[q].event = "TOKEN_ISSUED"
      PROVE  reqs'[q] = reqs[q]
  BY <1>1, <1>3 DEF Holds
<1>4. ASSUME NEW t \in Tokens, Recorded(t)
      PROVE  Recorded(t)'
  BY <1>2, <1>4 DEF Recorded, Holds
<1>5. ASSUME NEW t \in Tokens, First(t)'
      PROVE  First(t)
  BY <1>3, <1>5 DEF First, Holds
<1> QED
  BY <1>4, <1>5

(* A code pays for the first token of its family, for RedeemedOnce says     *)
(* that there is none before; a rotation adds one that is not a first.      *)
LEMMA InsertKeepsTrail ==
  ASSUME IInv, RowsPersist, Trail, NEW r \in Requests, NEW t \in Tokens,
         IssueFirst(r, t) \/ RefreshIssue(r, t)
  PROVE  Trail'
<1> USE DEF Holds
<1>0. TypeOK /\ HandlersHaveRows
  BY DEF IInv
<1>1. PICK e \in IssueEvents :
        /\ Becomes(r, [pc |-> "audit", token |-> t, event |-> e])
        /\ e = "TOKEN_ISSUED" => IssueFirst(r, t)
  BY DEF IssueFirst, RefreshIssue, IssueEvents
<1> DEFINE h == [pc |-> "audit", token |-> t, event |-> e]
<1>2. h \in Handlers
  BY DEF Handlers, AuditEvents
<1>3. reqs'[r] = h /\ \A q \in Requests : q # r => reqs'[q] = reqs[q]
  BY <1>0, <1>1, <1>2, BecomesTyped
<1>4. /\ ~ Born(t) /\ Born(t)'
      /\ \A u \in Tokens : u # t => tokens'[u] = tokens[u]
  BY <1>0 DEF IssueFirst, RefreshIssue, Insert, Born, TypeOK
<1>5. audit' = audit /\ lost' = lost /\ reqs[r].pc # "audit"
  BY DEF IssueFirst, RefreshIssue
<1>6. ASSUME NEW u \in Tokens, Recorded(u)
      PROVE  Recorded(u)'
  BY <1>3, <1>5, <1>6 DEF Recorded
<1>7. Recorded(t)'
  BY <1>3 DEF Recorded
<1>8. ASSUME NEW u \in Tokens, First(u)', ~ First(u)
      PROVE  u = t /\ IssueFirst(r, t)
  BY <1>1, <1>3, <1>5, <1>8 DEF First
<1>9. ASSUME NEW u \in Tokens, First(u), IssueFirst(r, t)
      PROVE  tokens'[u].family # tokens'[t].family
  <2>1. Born(u) /\ u # t
    BY <1>4, <1>9 DEF Trail
  <2>2. tokens[u].family # reqs[r].code
    BY <1>9, <2>1 DEF IInv, RedeemedOnce, IssueFirst
  <2>3. tokens'[t].family = reqs[r].code
    BY <1>0, <1>9 DEF IssueFirst, Insert, TypeOK
  <2> QED
    BY <1>4, <2>1, <2>2, <2>3
<1>10. \A u \in Tokens : Born(u)' => Recorded(u)'
  BY <1>4, <1>6, <1>7 DEF Trail, Born
<1>11. \A u \in Tokens : First(u)' => Born(u)'
  BY <1>4, <1>8 DEF Trail, RowsPersist
<1>12. ASSUME NEW u \in Tokens, NEW v \in Tokens, First(u)', First(v)',
              tokens'[u].family = tokens'[v].family
       PROVE  u = v
  <2>1. CASE First(u) /\ First(v)
    BY <1>12, <2>1 DEF Trail, RowsPersist
  <2>2. CASE First(u) /\ ~ First(v)
    BY <1>8, <1>9, <1>12, <2>2
  <2>3. CASE ~ First(u) /\ First(v)
    BY <1>8, <1>9, <1>12, <2>3
  <2>4. CASE ~ First(u) /\ ~ First(v)
    BY <1>8, <1>12, <2>4
  <2> QED
    BY <2>1, <2>2, <2>3, <2>4
<1> QED
  BY <1>10, <1>11, <1>12 DEF Trail

(* The audit step records what was about to be, or its handler dies.  *)
LEMMA AuditKeepsTrail ==
  ASSUME TypeOK, HandlersHaveRows, RowsPersist, Trail, NEW r \in Requests,
         Audit(r) \/ Fail(r), Holds(r, "audit")
  PROVE  Trail'
<1> USE DEF Holds
<1>1. Idle \in Handlers /\ Idle.pc = "idle"
  BY DEF Handlers, Idle
<1>2. reqs'[r] = Idle /\ \A q \in Requests : q # r => reqs'[q] = reqs[q]
  BY <1>1, BecomesTyped DEF Audit, Fail
<1>3. reqs[r].token \in Tokens /\ reqs[r].event \in AuditEvents
  BY HandlerShape
<1>4. /\ audit \subseteq audit' /\ lost \subseteq lost'
      /\ audit' \subseteq audit \cup {<<reqs[r].event, reqs[r].token>>}
      /\ reqs[r].event \in IssueEvents =>
           <<reqs[r].event, reqs[r].token>> \in audit' \/ reqs[r].token \in lost'
  BY DEF Audit, Fail
<1>5. ASSUME NEW t \in Tokens, Recorded(t)
      PROVE  Recorded(t)'
  <2>1. ASSUME NEW q \in Requests, Holds(q, "audit"), reqs[q].token = t,
               reqs[q].event \in IssueEvents
        PROVE  Recorded(t)'
    BY <1>2, <1>4, <2>1 DEF Recorded
  <2> QED
    BY <1>4, <1>5, <2>1 DEF Recorded
<1>6. ASSUME NEW t \in Tokens, First(t)'
      PROVE  First(t)
  <2>1. CASE <<"TOKEN_ISSUED", t>> \in audit'
    BY <1>4, <2>1 DEF First
  <2>2. ASSUME NEW q \in Requests, reqs'[q].pc = "audit", reqs'[q].token = t,
               reqs'[q].event = "TOKEN_ISSUED"
        PROVE  First(t)
    BY <1>1, <1>2, <2>2 DEF First
  <2> QED
    BY <1>6, <2>1, <2>2 DEF First
<1>7. \A t \in Tokens : Born(t)' => Born(t)
  BY DEF Audit, Fail, Born
<1> QED
  BY <1>5, <1>6, <1>7, OthersKeepTrail

(* The steps of a handler that neither insert a token nor end an audit.  *)
LEMMA HandlerKeepsTrail ==
  ASSUME TypeOK, HandlersHaveRows, RowsPersist, Trail, [Next]_vars, NEW r \in Requests,
         RequestStep(r), ~ Audit(r), ~ Holds(r, "audit"),
         \A t \in Tokens : Born(t)' => Born(t)
  PROVE  Trail'
<1> USE DEF Holds
<1>1. PICK h : Becomes(r, h)
  BY DEF RequestStep, AuthorizeStep, ExchangeStep, RefreshStep, SignOutStep, Fail,
     AuthorizeRead, AuthorizeMint, ConsumeFind, ConsumeAccept, ConsumeBurn, ConsumeConflict,
     IssueFirst, RefreshFind, RefreshExpire, RefreshEntitle, RefreshRotate, RefreshRotateFails,
     RefreshIssue, SignOutFind, SignOutToken, SignOutSession
<1>2. reqs' \in [Requests -> Handlers]
  BY NextTypeOK DEF TypeOK
<1>3. h = reqs'[r] /\ h \in Handlers
  BY <1>1, <1>2 DEF Becomes, TypeOK
<1>4. ASSUME NEW t \in Tokens, IssueFirst(r, t) \/ RefreshIssue(r, t)
      PROVE  FALSE
  BY <1>4 DEF IssueFirst, RefreshIssue, Insert, Born, TypeOK
<1>5. h.pc = "audit" => h.event = "TOKEN_REVOKED"
  <2>1. AuthorizeStep(r) => h.pc # "audit"
    BY <1>3 DEF AuthorizeStep, AuthorizeRead, AuthorizeMint, Becomes, TypeOK, Idle
  <2>2. ExchangeStep(r) => h.pc # "audit"
    BY <1>3, <1>4 DEF ExchangeStep, ConsumeFind, ConsumeAccept, ConsumeBurn, ConsumeConflict,
       Becomes, TypeOK, Idle
  <2>3. RefreshStep(r) => h.pc # "audit"
    BY <1>3, <1>4 DEF RefreshStep, RefreshFind, RefreshExpire, RefreshEntitle, RefreshRotate,
       RefreshRotateFails, Becomes, TypeOK, Idle
  <2>4. SignOutStep(r) => (h.pc = "audit" => h.event = "TOKEN_REVOKED")
    BY <1>3 DEF SignOutStep, SignOutFind, SignOutToken, SignOutSession, Becomes, TypeOK
  <2>5. Fail(r) => h.pc # "audit"
    BY <1>3 DEF Fail, Becomes, TypeOK, Idle
  <2> QED
    BY <2>1, <2>2, <2>3, <2>4, <2>5 DEF RequestStep
<1>6. audit' = audit /\ lost' = lost
  BY <1>4 DEF RequestStep, AuthorizeStep, ExchangeStep, RefreshStep, SignOutStep, Fail,
     AuthorizeRead, AuthorizeMint, ConsumeFind, ConsumeAccept, ConsumeBurn, ConsumeConflict,
     RefreshFind, RefreshExpire, RefreshEntitle, RefreshRotate, RefreshRotateFails,
     SignOutFind, SignOutToken, SignOutSession
<1> QED
  BY <1>1, <1>3, <1>5, <1>6, QuietKeepsTrail, OthersKeepTrail

LEMMA NextTrail == IInv /\ Trail /\ [Next]_vars => Trail'
<1> SUFFICES ASSUME IInv, Trail, [Next]_vars
             PROVE  Trail'
  OBVIOUS
<1>1. TypeOK /\ HandlersHaveRows /\ RowsPersist
  BY NextRowsPersist DEF IInv
<1>2. ASSUME NEW r \in Requests, NEW t \in Tokens, IssueFirst(r, t) \/ RefreshIssue(r, t)
      PROVE  Trail'
  BY <1>1, <1>2, InsertKeepsTrail
<1>3. CASE \A t \in Tokens : Born(t)' => Born(t)
  <2>1. ASSUME NEW r \in Requests, RequestStep(r)
        PROVE  Trail'
    <3>1. CASE (Audit(r) \/ Fail(r)) /\ Holds(r, "audit")
      BY <1>1, <3>1, AuditKeepsTrail
    <3>2. Audit(r) => Holds(r, "audit")
      BY DEF Audit
    <3>3. Holds(r, "audit") => Audit(r) \/ Fail(r)
      BY <2>1 DEF RequestStep, AuthorizeStep, ExchangeStep, RefreshStep, SignOutStep,
         AuthorizeRead, AuthorizeMint, ConsumeFind, ConsumeAccept, ConsumeBurn, ConsumeConflict,
         IssueFirst, RefreshFind, RefreshExpire, RefreshEntitle, RefreshRotate,
         RefreshRotateFails, RefreshIssue, SignOutFind, SignOutToken, SignOutSession, Holds
    <3> QED
      BY <1>1, <1>3, <2>1, <3>1, <3>2, <3>3, HandlerKeepsTrail
  <2>2. ASSUME Environment \/ UNCHANGED vars
        PROVE  Trail'
    <3>1. reqs' = reqs /\ audit' = audit /\ lost' = lost
      BY <2>2 DEF Environment, GrantEntitlement, RevokeEntitlement, CodeExpires, TokenExpires,
         Prune, vars
    <3>2. \A t \in Tokens : (Recorded(t)' <=> Recorded(t)) /\ (First(t)' <=> First(t))
      BY <3>1 DEF Recorded, First, Holds
    <3> QED
      BY <1>1, <1>3, <3>2, OthersKeepTrail
  <2> QED
    BY <2>1, <2>2 DEF Next
<1> QED
  BY <1>1, <1>2, <1>3, WhoInserts

(* The audit trail and the token table tell the same story, whatever        *)
(* handlers overlap and whichever of them die.                              *)
THEOREM TrailIsTrue == Spec => []TrailMatchesTable
<1>1. Init => Trail
  BY DEF Init, Trail, First, Born, Unborn, Holds, Idle
<1>2. Trail => TrailMatchesTable
  BY DEF Trail, TrailMatchesTable, Recorded, First
<1> QED
  BY <1>1, <1>2, NextTrail, InvariantHolds, PTL DEF Spec

-----------------------------------------------------------------------------
(* The code table implements the one-time store *)

(* A code is claimed, or has paid, only when its row is gone. *)
LEMMA StoredIsUntouched ==
  ASSUME IInv, NEW c \in Codes, codes[c].status # "gone"
  PROVE  ~ Claimed(c) /\ ~ Paid(c)
BY DEF IInv, HandlersHaveRows, FamiliesAreSpent, Claimed, Paid

(* A claim has paid nothing, and one handler has it. *)
LEMMA ClaimIsSingle ==
  ASSUME IInv, NEW r \in Requests, Holds(r, "issueFirst")
  PROVE  /\ reqs[r].code \in Codes /\ codes[reqs[r].code].status = "gone"
         /\ ~ Paid(reqs[r].code)
         /\ \A q \in Requests :
              Holds(q, "issueFirst") /\ reqs[q].code = reqs[r].code => q = r
BY HandlerShape DEF IInv, HandlersHaveRows, RedeemedOnce, Paid

(* How a step of one handler changes the claims. *)
LEMMA ClaimsChange ==
  ASSUME TypeOK, NEW r \in Requests, NEW h \in Handlers, Becomes(r, h), NEW c \in Codes
  PROVE  Claimed(c)' <=>
           \/ h.pc = "issueFirst" /\ h.code = c
           \/ \E q \in Requests \ {r} : Holds(q, "issueFirst") /\ reqs[q].code = c
<1>1. reqs'[r] = h /\ \A q \in Requests : q # r => reqs'[q] = reqs[q]
  BY BecomesTyped
<1> QED
  BY <1>1 DEF Claimed, Holds

(* No step takes a payment back, and a token that is not new pays nothing.  *)
LEMMA PaidStays ==
  ASSUME TypeOK, RowsPersist, NEW c \in Codes
  PROVE  /\ Paid(c) => Paid(c)'
         /\ (\A t \in Tokens : Born(t)' => Born(t)) => (Paid(c)' => Paid(c))
BY DEF Paid, RowsPersist

LEMMA StageKept ==
  ASSUME NEW c \in Codes, codes'[c].status = codes[c].status,
         Claimed(c)' <=> Claimed(c), Paid(c)' <=> Paid(c)
  PROVE  Stage(c)' = Stage(c)
BY DEF Stage

(* What the store sees of a step: nothing, one code that advances, or some  *)
(* codes dropped.                                                           *)
Advances(c, from, to) ==
  /\ Stage(c) = from /\ Stage(c)' = to
  /\ \A d \in Codes : d # c => Stage(d)' = Stage(d)

Drops(cs) ==
  /\ \A c \in cs : Stage(c) \in {"issued", "claimed"} /\ Stage(c)' = "dropped"
  /\ \A d \in Codes \ cs : Stage(d)' = Stage(d)

LEMMA MintIssues ==
  ASSUME IInv, RowsPersist, NEW r \in Requests, NEW c \in Codes, AuthorizeMint(r, c)
  PROVE  Advances(c, "new", "issued")
<1>1. TypeOK /\ Idle \in Handlers /\ Idle.pc = "idle" /\ Becomes(r, Idle)
  BY DEF IInv, Handlers, Idle, AuthorizeMint
<1>2. \A d \in Codes : Claimed(d)' <=> Claimed(d)
  BY <1>1, ClaimsChange DEF AuthorizeMint, Claimed, Holds
<1>3. \A d \in Codes : Paid(d)' <=> Paid(d)
  BY DEF AuthorizeMint, Paid, Born
<1>4. /\ codes[c].status = "unborn" /\ codes'[c].status = "stored"
      /\ \A d \in Codes : d # c => codes'[d] = codes[d]
  BY <1>1 DEF AuthorizeMint, TypeOK
<1> QED
  BY <1>2, <1>3, <1>4, StageKept DEF Advances, Stage

LEMMA AcceptClaims ==
  ASSUME IInv, NEW r \in Requests, ConsumeAccept(r)
  PROVE  \E c \in Codes : Advances(c, "issued", "claimed")
<1>1. TypeOK /\ reqs[r].code \in Codes
  BY HandlerShape DEF IInv, ConsumeAccept
<1>2. PICK c \in Codes : c = reqs[r].code
  BY <1>1
<1> DEFINE h == [pc |-> "issueFirst", code |-> c, grant |-> codes[c].grant]
<1>3. codes[c].status = "stored" /\ codes[c].grant \in Grants
  BY <1>1, <1>2, RowShape DEF ConsumeAccept
<1>4. h \in Handlers /\ Becomes(r, h)
  BY <1>2, <1>3 DEF Handlers, ConsumeAccept
<1>5. \A d \in Codes : Claimed(d)' <=> Claimed(d) \/ d = c
  BY <1>1, <1>4, ClaimsChange DEF ConsumeAccept, Claimed, Holds
<1>6. \A d \in Codes : Paid(d)' <=> Paid(d)
  BY DEF ConsumeAccept, Paid, Born
<1>7. codes'[c].status = "gone" /\ \A d \in Codes : d # c => codes'[d] = codes[d]
  BY <1>1, <1>2, <1>3 DEF ConsumeAccept, TypeOK, CodeRows, Unborn
<1>8. Advances(c, "issued", "claimed")
  BY <1>3, <1>5, <1>6, <1>7, StageKept DEF Advances, Stage
<1> QED
  BY <1>8

LEMMA BurnDrops ==
  ASSUME IInv, NEW r \in Requests, ConsumeBurn(r)
  PROVE  \E c \in Codes : Drops({c})
<1> DEFINE c == reqs[r].code
<1>1. TypeOK /\ c \in Codes /\ codes[c].status = "stored"
  BY HandlerShape DEF IInv, ConsumeBurn
<1>2. Idle \in Handlers /\ Idle.pc = "idle" /\ Becomes(r, Idle)
  BY DEF Handlers, Idle, ConsumeBurn
<1>3. \A d \in Codes : (Claimed(d)' <=> Claimed(d)) /\ (Paid(d)' <=> Paid(d))
  BY <1>1, <1>2, ClaimsChange DEF ConsumeBurn, Claimed, Holds, Paid, Born
<1>4. codes'[c].status = "gone" /\ \A d \in Codes : d # c => codes'[d] = codes[d]
  BY <1>1 DEF ConsumeBurn, TypeOK, CodeRows, Unborn
<1>5. ~ Claimed(c) /\ ~ Paid(c)
  BY <1>1, StoredIsUntouched
<1>6. Drops({c})
  BY <1>1, <1>3, <1>4, <1>5, StageKept DEF Drops, Stage
<1> QED
  BY <1>1, <1>6

LEMMA FirstTokenPays ==
  ASSUME IInv, RowsPersist, NEW r \in Requests, NEW t \in Tokens, IssueFirst(r, t)
  PROVE  \E c \in Codes : Advances(c, "claimed", "paid")
<1> DEFINE h == [pc |-> "audit", token |-> t, event |-> "TOKEN_ISSUED"]
<1>1. TypeOK /\ Holds(r, "issueFirst") /\ reqs[r].code \in Codes /\ reqs[r].grant \in Grants
  BY HandlerShape DEF IInv, IssueFirst
<1>2. PICK c \in Codes : c = reqs[r].code
  BY <1>1
<1>3. /\ codes[c].status = "gone" /\ Claimed(c) /\ ~ Paid(c)
      /\ \A q \in Requests : Holds(q, "issueFirst") /\ reqs[q].code = c => q = r
  BY <1>1, <1>2, ClaimIsSingle DEF Claimed
<1>4. h \in Handlers /\ Becomes(r, h) /\ codes' = codes
  BY DEF Handlers, AuditEvents, IssueEvents, IssueFirst
<1>5. \A d \in Codes : Claimed(d)' <=> Claimed(d) /\ d # c
  BY <1>1, <1>2, <1>3, <1>4, ClaimsChange DEF Claimed
<1>6. /\ ~ Born(t) /\ Born(t)' /\ tokens'[t].family = c
      /\ \A u \in Tokens : u # t => tokens'[u] = tokens[u]
  BY <1>1, <1>2, InsertTyped DEF IssueFirst, Born
<1>7. \A d \in Codes : Paid(d)' <=> Paid(d) \/ d = c
  BY <1>6 DEF Paid, Born
<1>8. Advances(c, "claimed", "paid")
  BY <1>3, <1>4, <1>5, <1>7, StageKept DEF Advances, Stage
<1> QED
  BY <1>8

LEMMA FailureDrops ==
  ASSUME IInv, NEW r \in Requests, Fail(r), Holds(r, "issueFirst")
  PROVE  \E c \in Codes : Drops({c})
<1>1. PICK c \in Codes : c = reqs[r].code
  BY ClaimIsSingle
<1>2. TypeOK /\ Idle \in Handlers /\ Idle.pc = "idle" /\ Becomes(r, Idle)
  BY DEF IInv, Handlers, Idle, Fail
<1>3. /\ codes[c].status = "gone" /\ Claimed(c) /\ ~ Paid(c)
      /\ \A q \in Requests : Holds(q, "issueFirst") /\ reqs[q].code = c => q = r
  BY <1>1, ClaimIsSingle DEF Claimed
<1>4. \A d \in Codes : Claimed(d)' <=> Claimed(d) /\ d # c
  BY <1>1, <1>2, <1>3, ClaimsChange DEF Claimed
<1>5. codes' = codes /\ \A d \in Codes : Paid(d)' <=> Paid(d)
  BY DEF Fail, Paid, Born
<1>6. Drops({c})
  BY <1>3, <1>4, <1>5, StageKept DEF Drops, Stage
<1> QED
  BY <1>6

(* A refreshed token joins a family that has paid already. *)
LEMMA NextTokenIsSilent ==
  ASSUME IInv, RowsPersist, NEW r \in Requests, NEW t \in Tokens, RefreshIssue(r, t), NEW c \in Codes
  PROVE  Stage(c)' = Stage(c)
<1> DEFINE h == [pc |-> "audit", token |-> t, event |-> "TOKEN_REFRESHED"]
           old == tokens[reqs[r].token]
           g == [old.grant EXCEPT !.roles = reqs[r].roles]
<1>1. /\ TypeOK /\ reqs[r].token \in Tokens /\ Born(reqs[r].token) /\ reqs[r].pc = "issueNext"
      /\ old.grant \in Grants /\ old.family \in Codes /\ reqs[r].roles \in RoleSets
  BY HandlerRow, HandlerShape DEF IInv, RefreshIssue, Holds
<1>2. h \in Handlers /\ Becomes(r, h) /\ codes' = codes /\ Insert(t, g, old.family)
  BY DEF Handlers, AuditEvents, IssueEvents, RefreshIssue
<1>3. g \in Grants
  BY <1>1 DEF Grants
<1>4. Claimed(c)' <=> Claimed(c)
  BY <1>1, <1>2, ClaimsChange DEF Claimed, Holds
<1>5. tokens'[t].family = old.family /\ \A u \in Tokens : u # t => tokens'[u] = tokens[u]
  BY <1>1, <1>2, <1>3, InsertTyped
<1>6. Paid(c)' => Paid(c)
  BY <1>1, <1>5 DEF Paid, Born
<1> QED
  BY <1>1, <1>2, <1>4, <1>6, PaidStays, StageKept

LEMMA PruneDrops ==
  ASSUME IInv, Prune
  PROVE  \E cs \in SUBSET Codes : cs # {} /\ Drops(cs)
<1>1. PICK cs \in SUBSET Codes : cs = ExpiredCodes
  BY DEF ExpiredCodes
<1>2. \A c \in cs : codes[c].status = "stored" /\ ~ Claimed(c) /\ ~ Paid(c)
  BY <1>1, StoredIsUntouched DEF ExpiredCodes
<1>3. \A c \in cs : codes'[c].status = "gone"
  BY <1>1 DEF Prune, ExpiredCodes, IInv, TypeOK, CodeRows, Unborn
<1>4. \A c \in Codes \ cs : codes'[c] = codes[c]
  BY <1>1 DEF Prune
<1>5. \A c \in Codes : (Claimed(c)' <=> Claimed(c)) /\ (Paid(c)' <=> Paid(c))
  BY DEF Prune, Claimed, Paid, Holds, Born
<1>6. Drops(cs)
  BY <1>2, <1>3, <1>4, <1>5, StageKept DEF Drops, Stage
<1> QED
  BY <1>1, <1>6 DEF Prune

(* What the other handlers read, revoke and record is nothing to the store. *)
LEMMA OthersAreSilent ==
  ASSUME IInv, RowsPersist, [Next]_vars, NEW r \in Requests, RequestStep(r),
         \A c \in Codes : ~ AuthorizeMint(r, c),
         ~ ConsumeAccept(r), ~ ConsumeBurn(r), ~ (Fail(r) /\ Holds(r, "issueFirst")),
         \A t \in Tokens : ~ IssueFirst(r, t) /\ ~ RefreshIssue(r, t),
         NEW c \in Codes
  PROVE  Stage(c)' = Stage(c)
<1> USE DEF Holds
<1>1. TypeOK /\ HandlersHaveRows
  BY DEF IInv
<1>2. PICK h : Becomes(r, h)
  BY DEF RequestStep, AuthorizeStep, ExchangeStep, RefreshStep, SignOutStep, Audit, Fail,
     AuthorizeRead, ConsumeFind, ConsumeConflict, RefreshFind, RefreshExpire, RefreshEntitle,
     RefreshRotate, RefreshRotateFails, SignOutFind, SignOutToken, SignOutSession
<1>3. h = reqs'[r] /\ h \in Handlers
  <2>1. reqs' \in [Requests -> Handlers]
    BY <1>1, NextTypeOK DEF TypeOK
  <2> QED
    BY <1>1, <1>2, <2>1 DEF Becomes, TypeOK
<1>4. codes' = codes
  BY DEF RequestStep, AuthorizeStep, ExchangeStep, RefreshStep, SignOutStep, Audit, Fail,
     AuthorizeRead, ConsumeFind, ConsumeConflict, RefreshFind, RefreshExpire, RefreshEntitle,
     RefreshRotate, RefreshRotateFails, SignOutFind, SignOutToken, SignOutSession
<1>5. reqs[r].pc # "issueFirst"
  BY DEF RequestStep, AuthorizeStep, ExchangeStep, RefreshStep, SignOutStep, Audit,
     AuthorizeRead, ConsumeFind, ConsumeConflict, RefreshFind, RefreshExpire, RefreshEntitle,
     RefreshRotate, RefreshRotateFails, SignOutFind, SignOutToken, SignOutSession
<1>6. h.pc # "issueFirst"
  <2>1. AuthorizeStep(r) \/ ExchangeStep(r) => h.pc # "issueFirst"
    BY <1>1, <1>3 DEF AuthorizeStep, AuthorizeRead, ExchangeStep, ConsumeFind, ConsumeConflict,
       Becomes, TypeOK, Idle
  <2>2. RefreshStep(r) => h.pc # "issueFirst"
    BY <1>1, <1>3 DEF RefreshStep, RefreshFind, RefreshExpire, RefreshEntitle, RefreshRotate,
       RefreshRotateFails, Becomes, TypeOK, Idle
  <2>3. SignOutStep(r) \/ Audit(r) \/ Fail(r) => h.pc # "issueFirst"
    BY <1>1, <1>3 DEF SignOutStep, SignOutFind, SignOutToken, SignOutSession, Audit, Fail,
       Becomes, TypeOK, Idle
  <2> QED
    BY <2>1, <2>2, <2>3 DEF RequestStep
<1>7. Claimed(c)' <=> Claimed(c)
  BY <1>1, <1>2, <1>3, <1>5, <1>6, ClaimsChange DEF Claimed
<1>8. \A t \in Tokens : Born(t)' => Born(t)
  <2>1. tokens' = tokens \/ \E ts : Revoke(ts)
    BY DEF RequestStep, AuthorizeStep, ExchangeStep, RefreshStep, SignOutStep, Audit, Fail,
       AuthorizeRead, ConsumeFind, ConsumeConflict, RefreshFind, RefreshExpire, RefreshEntitle,
       RefreshRotate, RefreshRotateFails, SignOutFind, SignOutToken, SignOutSession
  <2> QED
    BY <1>1, <2>1, RevokeIsQuiet DEF Born
<1> QED
  BY <1>1, <1>4, <1>7, <1>8, PaidStays, StageKept

(* Nor do the rest of the service and the clock. *)
LEMMA EnvironmentIsSilent ==
  ASSUME IInv, RowsPersist, Environment \/ UNCHANGED vars, ~ Prune, NEW c \in Codes
  PROVE  Stage(c)' = Stage(c)
<1>1. reqs' = reqs
  BY DEF Environment, GrantEntitlement, RevokeEntitlement, CodeExpires, TokenExpires, vars
<1>2. codes'[c].status = codes[c].status
  BY DEF Environment, GrantEntitlement, RevokeEntitlement, CodeExpires, TokenExpires, vars, IInv,
     TypeOK, CodeRows, Unborn
<1>3. \A t \in Tokens : Born(t)' => Born(t)
  BY DEF Environment, GrantEntitlement, RevokeEntitlement, CodeExpires, TokenExpires, vars, IInv,
     TypeOK, TokenRows, Unborn, Born
<1>4. Claimed(c)' <=> Claimed(c)
  BY <1>1 DEF Claimed, Holds
<1> QED
  BY <1>2, <1>3, <1>4, PaidStays, StageKept DEF IInv

LEMMA StepsOfTheStore ==
  ASSUME IInv, [Next]_vars
  PROVE  \/ \A c \in Codes : Stage(c)' = Stage(c)
         \/ \E c \in Codes : \/ Advances(c, "new", "issued")
                             \/ Advances(c, "issued", "claimed")
                             \/ Advances(c, "claimed", "paid")
         \/ \E cs \in SUBSET Codes : cs # {} /\ Drops(cs)
<1>1. RowsPersist
  BY NextRowsPersist DEF IInv
<1>2. ASSUME NEW r \in Requests, RequestStep(r),
             \A c \in Codes : ~ AuthorizeMint(r, c),
             ~ ConsumeAccept(r), ~ ConsumeBurn(r), ~ (Fail(r) /\ Holds(r, "issueFirst")),
             \A t \in Tokens : ~ IssueFirst(r, t) /\ ~ RefreshIssue(r, t)
      PROVE  \A c \in Codes : Stage(c)' = Stage(c)
  BY <1>1, <1>2, OthersAreSilent
<1>3. ASSUME NEW c \in Codes, Drops({c})
      PROVE  \E cs \in SUBSET Codes : cs # {} /\ Drops(cs)
  BY <1>3
<1>4. ASSUME NEW r \in Requests, NEW t \in Tokens, RefreshIssue(r, t)
      PROVE  \A c \in Codes : Stage(c)' = Stage(c)
  BY <1>1, <1>4, NextTokenIsSilent
<1>5. CASE \E r \in Requests : RequestStep(r)
  BY <1>1, <1>2, <1>3, <1>4, <1>5, MintIssues, AcceptClaims, FirstTokenPays, BurnDrops,
     FailureDrops
<1>6. CASE Prune
  BY <1>6, PruneDrops
<1>7. CASE (Environment \/ UNCHANGED vars) /\ ~ Prune
  BY <1>1, <1>7, EnvironmentIsSilent
<1> QED
  BY <1>5, <1>6, <1>7 DEF Next

(* The code table with its two-statement consumption, its pruner and its    *)
(* failing handlers implements the one-time store, for any number of        *)
(* requests: a code is claimed by one exchange or dropped, pays once, and   *)
(* a dropped one pays nothing.                                              *)
THEOREM CodesImplementTheStore == Spec => CodesAreOneTime
<1>1. Init => Store!Init
  BY DEF Init, Store!Init, Stage, Unborn
<1>2. IInv /\ [Next]_vars => [Store!Next]_([c \in Codes |-> Stage(c)])
  <2> SUFFICES ASSUME IInv, [Next]_vars
               PROVE  [Store!Next]_([c \in Codes |-> Stage(c)])
    OBVIOUS
  <2>1. CASE \A c \in Codes : Stage(c)' = Stage(c)
    BY <2>1
  <2>2. ASSUME NEW c \in Codes, NEW from, NEW to, Advances(c, from, to)
        PROVE  Store!Advance(c, from, to)
    BY <2>2 DEF Advances, Store!Advance
  <2>3. ASSUME NEW cs \in SUBSET Codes, cs # {}, Drops(cs)
        PROVE  Store!Drop(cs)
    BY <2>3 DEF Drops, Store!Drop
  <2> QED
    BY <2>1, <2>2, <2>3, StepsOfTheStore DEF Store!Next, Store!Issue, Store!Claim, Store!Pay
<1> QED
  BY <1>1, <1>2, InvariantHolds, PTL DEF Spec, CodesAreOneTime, Store!Spec

-----------------------------------------------------------------------------
(* What TokensAsGranted rests on: whatever is on its way to a token, an     *)
(* entitlement, a code or what a handler has read, was granted.             *)

EntitlementsWereGranted ==
  \A k \in Keys : ent[k] # NoEntitlement => <<k, ent[k]>> \in granted

CodesWereGranted ==
  \A c \in Codes : codes[c].status # "unborn" =>
    <<KeyOf(codes[c].grant), codes[c].grant.roles>> \in granted

(* For one handler record, given the tables. *)
CarriesGranted(h, cs, ts, gr) ==
  /\ h.pc \in {"mint", "issueFirst"} => <<KeyOf(h.grant), h.grant.roles>> \in gr
  /\ h.pc = "issueFirst" => h.grant = cs[h.code].grant
  /\ h.pc \in {"rotate", "issueNext"} => <<KeyOf(ts[h.token].grant), h.roles>> \in gr

HandlersWereGranted ==
  \A r \in Requests : CarriesGranted(reqs[r], codes, tokens, granted)

WorthInv ==
  /\ EntitlementsWereGranted
  /\ CodesWereGranted
  /\ HandlersWereGranted
  /\ TokensAsGranted

(* No step changes what a code is worth, nor what was ever granted. *)
GrantsPersist ==
  /\ \A c \in Codes : codes[c].status # "unborn" =>
       codes'[c].status # "unborn" /\ codes'[c].grant = codes[c].grant
  /\ granted \subseteq granted'

LEMMA NextGrantsPersist ==
  ASSUME TypeOK, HandlersHaveRows, [Next]_vars
  PROVE  GrantsPersist
<1> USE DEF Holds
<1>1. ASSUME NEW r \in Requests, RequestStep(r)
      PROVE  granted' = granted
  BY <1>1 DEF RequestStep, AuthorizeStep, ExchangeStep, RefreshStep, SignOutStep, Audit, Fail,
     AuthorizeRead, AuthorizeMint, ConsumeFind, ConsumeAccept, ConsumeBurn, ConsumeConflict,
     IssueFirst, RefreshFind, RefreshExpire, RefreshEntitle, RefreshRotate, RefreshRotateFails,
     RefreshIssue, SignOutFind, SignOutToken, SignOutSession
<1>2. Environment => granted \subseteq granted'
  BY DEF Environment, GrantEntitlement, RevokeEntitlement, CodeExpires, TokenExpires, Prune
<1>3. CASE codes' = codes
  BY <1>1, <1>2, <1>3 DEF Next, vars, GrantsPersist
<1>4. ASSUME NEW r \in Requests, NEW c \in Codes, AuthorizeMint(r, c)
      PROVE  GrantsPersist
  BY <1>4 DEF AuthorizeMint, GrantsPersist, TypeOK
<1>5. ASSUME NEW r \in Requests, ConsumeAccept(r) \/ ConsumeBurn(r)
      PROVE  GrantsPersist
  <2>1. reqs[r].code \in Codes /\ codes[reqs[r].code].status = "stored"
    BY <1>5, HandlerShape DEF ConsumeAccept, ConsumeBurn
  <2>2. codes' = [codes EXCEPT ![reqs[r].code].status = "gone"] /\ granted' = granted
    BY <1>5 DEF ConsumeAccept, ConsumeBurn
  <2> QED
    BY <2>1, <2>2 DEF GrantsPersist, TypeOK, CodeRows, Unborn
<1>6. ASSUME NEW c \in Codes, CodeExpires(c)
      PROVE  GrantsPersist
  BY <1>6 DEF CodeExpires, GrantsPersist, TypeOK, CodeRows, Unborn
<1>7. ASSUME Prune
      PROVE  GrantsPersist
  BY <1>7 DEF Prune, ExpiredCodes, GrantsPersist, TypeOK, CodeRows, Unborn
<1>8. ASSUME NEW r \in Requests, RequestStep(r), codes' # codes
      PROVE  ConsumeAccept(r) \/ ConsumeBurn(r) \/ \E c \in Codes : AuthorizeMint(r, c)
  BY <1>8 DEF RequestStep, AuthorizeStep, ExchangeStep, RefreshStep, SignOutStep, Audit, Fail,
     AuthorizeRead, ConsumeFind, ConsumeConflict, IssueFirst, RefreshFind, RefreshExpire,
     RefreshEntitle, RefreshRotate, RefreshRotateFails, RefreshIssue, SignOutFind, SignOutToken,
     SignOutSession
<1>9. ASSUME Environment, codes' # codes
      PROVE  Prune \/ \E c \in Codes : CodeExpires(c)
  BY <1>9 DEF Environment, GrantEntitlement, RevokeEntitlement, TokenExpires
<1> QED
  BY <1>3, <1>4, <1>5, <1>6, <1>7, <1>8, <1>9 DEF Next, vars

-----------------------------------------------------------------------------
(* Only administrators change the entitlements, and what they grant is      *)
(* recorded.                                                                *)
LEMMA NextEntitlements ==
  ASSUME TypeOK, HandlersHaveRows, EntitlementsWereGranted, [Next]_vars
  PROVE  EntitlementsWereGranted'
<1>1. ASSUME NEW k \in Keys, NEW roles \in RoleSets, GrantEntitlement(k, roles)
      PROVE  EntitlementsWereGranted'
  BY <1>1 DEF GrantEntitlement, EntitlementsWereGranted, TypeOK
<1>2. ASSUME NEW k \in Keys, RevokeEntitlement(k)
      PROVE  EntitlementsWereGranted'
  BY <1>2 DEF RevokeEntitlement, EntitlementsWereGranted, TypeOK
<1>3. ASSUME NEW r \in Requests, RequestStep(r)
      PROVE  ent' = ent
  BY <1>3 DEF RequestStep, AuthorizeStep, ExchangeStep, RefreshStep, SignOutStep, Audit, Fail,
     AuthorizeRead, AuthorizeMint, ConsumeFind, ConsumeAccept, ConsumeBurn, ConsumeConflict,
     IssueFirst, RefreshFind, RefreshExpire, RefreshEntitle, RefreshRotate, RefreshRotateFails,
     RefreshIssue, SignOutFind, SignOutToken, SignOutSession
<1>4. CASE ent' = ent
  BY <1>4, NextGrantsPersist DEF EntitlementsWereGranted, GrantsPersist
<1> QED
  BY <1>1, <1>2, <1>3, <1>4
     DEF Next, Environment, CodeExpires, TokenExpires, Prune, vars

(* A code is worth what the handler that mints it had read. *)
LEMMA NextCodes ==
  ASSUME TypeOK, HandlersHaveRows, CodesWereGranted, HandlersWereGranted, [Next]_vars
  PROVE  CodesWereGranted'
<1> USE DEF Holds
<1>1. GrantsPersist
  BY NextGrantsPersist
<1>2. ASSUME NEW r \in Requests, NEW c \in Codes, AuthorizeMint(r, c)
      PROVE  CodesWereGranted'
  <2>1. <<KeyOf(reqs[r].grant), reqs[r].grant.roles>> \in granted
    BY <1>2 DEF AuthorizeMint, HandlersWereGranted, CarriesGranted
  <2>2. codes'[c].grant = reqs[r].grant /\ \A d \in Codes : d # c => codes'[d] = codes[d]
    BY <1>2 DEF AuthorizeMint, TypeOK
  <2> QED
    BY <1>1, <2>1, <2>2 DEF CodesWereGranted, GrantsPersist
<1>3. ASSUME \A r \in Requests, c \in Codes : ~ AuthorizeMint(r, c)
      PROVE  \A c \in Codes : codes[c].status = "unborn" => codes'[c].status = "unborn"
  <2>1. ASSUME NEW r \in Requests, RequestStep(r)
        PROVE  \A c \in Codes : codes[c].status = "unborn" => codes'[c].status = "unborn"
    <3>1. ConsumeAccept(r) \/ ConsumeBurn(r) \/ codes' = codes
      BY <1>3, <2>1 DEF RequestStep, AuthorizeStep, ExchangeStep, RefreshStep, SignOutStep, Audit,
         Fail, AuthorizeRead, ConsumeFind, ConsumeConflict, IssueFirst, RefreshFind,
         RefreshExpire, RefreshEntitle, RefreshRotate, RefreshRotateFails, RefreshIssue,
         SignOutFind, SignOutToken, SignOutSession
    <3>2. CASE ConsumeAccept(r) \/ ConsumeBurn(r)
      <4>1. codes[reqs[r].code].status = "stored"
        BY <3>2 DEF ConsumeAccept, ConsumeBurn
      <4>2. codes' = [codes EXCEPT ![reqs[r].code].status = "gone"]
        BY <3>2 DEF ConsumeAccept, ConsumeBurn
      <4> QED
        BY <4>1, <4>2 DEF TypeOK
    <3> QED
      BY <3>1, <3>2
  <2>2. ASSUME Environment
        PROVE  \A c \in Codes : codes[c].status = "unborn" => codes'[c].status = "unborn"
    BY <2>2 DEF Environment, GrantEntitlement, RevokeEntitlement, CodeExpires, TokenExpires,
       Prune, ExpiredCodes, TypeOK, CodeRows, Unborn
  <2> QED
    BY <2>1, <2>2 DEF Next, vars
<1> QED
  BY <1>1, <1>2, <1>3 DEF CodesWereGranted, GrantsPersist

-----------------------------------------------------------------------------
(* The handlers that do not move still carry what was granted.  *)
LEMMA OthersCarryGranted ==
  ASSUME TypeOK, HandlersHaveRows, HandlersWereGranted, RowsPersist, GrantsPersist,
         NEW r \in Requests, NEW h \in Handlers, Becomes(r, h),
         CarriesGranted(h, codes', tokens', granted')
  PROVE  HandlersWereGranted'
<1>1. reqs'[r] = h /\ \A q \in Requests : q # r => reqs'[q] = reqs[q]
  BY BecomesTyped
<1>2. ASSUME NEW q \in Requests
      PROVE  CarriesGranted(reqs[q], codes', tokens', granted')
  <2>1. CarriesGranted(reqs[q], codes, tokens, granted)
    BY DEF HandlersWereGranted
  <2>2. CASE reqs[q].pc = "issueFirst"
    <3>1. reqs[q].code \in Codes /\ codes[reqs[q].code].status = "gone"
      BY <2>2, HandlerShape DEF HandlersHaveRows, Holds
    <3> QED
      BY <2>1, <2>2, <3>1 DEF CarriesGranted, GrantsPersist
  <2>3. CASE reqs[q].pc \in {"rotate", "issueNext"}
    <3>1. reqs[q].token \in Tokens /\ Born(reqs[q].token)
      BY <2>3, HandlerRow
    <3> QED
      BY <2>1, <2>3, <3>1 DEF CarriesGranted, RowsPersist, GrantsPersist
  <2> QED
    BY <2>1, <2>2, <2>3 DEF CarriesGranted, GrantsPersist
<1> QED
  BY <1>1, <1>2 DEF HandlersWereGranted

(* What a handler reads was granted, and stays so while it goes on. *)
LEMMA NextHandlersCarryGranted ==
  ASSUME TypeOK, HandlersHaveRows, EntitlementsWereGranted, CodesWereGranted,
         HandlersWereGranted, [Next]_vars
  PROVE  HandlersWereGranted'
<1> USE DEF Holds
<1>1. RowsPersist /\ GrantsPersist
  BY NextRowsPersist, NextGrantsPersist
<1>2. ASSUME NEW r \in Requests, NEW h \in Handlers, Becomes(r, h),
             h.pc \notin {"mint", "issueFirst", "rotate", "issueNext"}
      PROVE  HandlersWereGranted'
  <2>1. CarriesGranted(h, codes', tokens', granted')
    BY <1>2 DEF CarriesGranted
  <2> QED
    BY <1>1, <1>2, <2>1, OthersCarryGranted
<1>3. Idle \in Handlers /\ Idle.pc = "idle"
  BY DEF Handlers, Idle
<1>4. ASSUME NEW r \in Requests, AuthorizeStep(r)
      PROVE  HandlersWereGranted'
  <2>1. ASSUME NEW g \in Grants, AuthorizeRead(r, g)
        PROVE  HandlersWereGranted'
    <3> DEFINE h == [pc |-> "mint", grant |-> g]
    <3>1. h \in Handlers
      BY DEF Handlers
    <3>2. <<KeyOf(g), g.roles>> \in granted
      <4>1. KeyOf(g) \in Keys /\ g.roles \in RoleSets /\ ent[KeyOf(g)] = g.roles
        BY <2>1, KeyOfGrant DEF Grants, AuthorizeRead
      <4> QED
        BY <4>1, EntitlementAssumption DEF EntitlementsWereGranted
    <3>3. CarriesGranted(h, codes', tokens', granted')
      BY <1>1, <3>2 DEF CarriesGranted, GrantsPersist
    <3> QED
      BY <1>1, <2>1, <3>1, <3>3, OthersCarryGranted DEF AuthorizeRead
  <2> QED
    BY <1>2, <1>3, <1>4, <2>1 DEF AuthorizeStep, AuthorizeMint
<1>5. ASSUME NEW r \in Requests, ExchangeStep(r)
      PROVE  HandlersWereGranted'
  <2>1. ASSUME NEW c \in Codes, NEW client \in Clients, NEW proof \in BOOLEAN,
               ConsumeFind(r, c, client, proof)
        PROVE  HandlersWereGranted'
    <3>1. [pc |-> "delete", code |-> c, client |-> client, proof |-> proof,
           late |-> codes[c].expired] \in Handlers
      BY <2>1, FindHandler
    <3> QED
      BY <2>1, <3>1, <1>2 DEF ConsumeFind
  <2>2. ASSUME ConsumeAccept(r)
        PROVE  HandlersWereGranted'
    <3> DEFINE c == reqs[r].code
               h == [pc |-> "issueFirst", code |-> c, grant |-> codes[c].grant]
    <3>1. c \in Codes /\ codes[c].status = "stored" /\ codes[c].grant \in Grants
      BY <2>2, HandlerShape, RowShape DEF ConsumeAccept
    <3>2. h \in Handlers
      BY <3>1 DEF Handlers
    <3>3. CarriesGranted(h, codes', tokens', granted')
      BY <1>1, <3>1 DEF CarriesGranted, CodesWereGranted, GrantsPersist
    <3> QED
      BY <1>1, <2>2, <3>2, <3>3, OthersCarryGranted DEF ConsumeAccept
  <2>3. ASSUME NEW t \in Tokens, IssueFirst(r, t)
        PROVE  HandlersWereGranted'
    <3>1. [pc |-> "audit", token |-> t, event |-> "TOKEN_ISSUED"] \in Handlers
      BY DEF Handlers, AuditEvents, IssueEvents
    <3> QED
      BY <2>3, <3>1, <1>2 DEF IssueFirst
  <2> QED
    BY <1>2, <1>3, <1>5, <2>1, <2>2, <2>3 DEF ExchangeStep, ConsumeBurn, ConsumeConflict
<1>6. ASSUME NEW r \in Requests, RefreshStep(r)
      PROVE  HandlersWereGranted'
  <2>1. ASSUME NEW t \in Tokens, NEW client \in Clients, RefreshFind(r, t, client)
        PROVE  HandlersWereGranted'
    <3>1. [pc |-> IF tokens[t].expired THEN "expire" ELSE "entitle", token |-> t] \in Handlers
      BY DEF Handlers
    <3> QED
      BY <2>1, <3>1, <1>2 DEF RefreshFind
  <2>2. ASSUME RefreshEntitle(r)
        PROVE  HandlersWereGranted'
    <3> DEFINE t == reqs[r].token
               roles == ent[KeyOf(tokens[t].grant)]
               h == [pc |-> "rotate", token |-> t, roles |-> roles]
    <3>1. t \in Tokens /\ Born(t) /\ KeyOf(tokens[t].grant) \in Keys
      BY <2>2, HandlerRow, KeyOfGrant DEF RefreshEntitle
    <3>2. CASE roles = NoEntitlement
      BY <2>2, <3>2, <1>2, <1>3 DEF RefreshEntitle
    <3>3. CASE roles # NoEntitlement
      <4>1. h \in Handlers
        BY <3>1, <3>3 DEF Handlers, TypeOK
      <4>2. <<KeyOf(tokens[t].grant), roles>> \in granted
        BY <3>1, <3>3 DEF EntitlementsWereGranted
      <4>3. CarriesGranted(h, codes', tokens', granted')
        BY <1>1, <3>1, <4>2 DEF CarriesGranted, RowsPersist, GrantsPersist
      <4>4. Becomes(r, h)
        BY <2>2, <3>3 DEF RefreshEntitle
      <4> QED
        BY <1>1, <4>1, <4>3, <4>4, OthersCarryGranted
    <3> QED
      BY <3>2, <3>3
  <2>3. ASSUME RefreshRotate(r) \/ RefreshRotateFails(r)
        PROVE  HandlersWereGranted'
    <3> DEFINE t == reqs[r].token
    <3>1. t \in Tokens /\ Born(t) /\ reqs[r].roles \in RoleSets
      BY <2>3, HandlerRow, HandlerShape DEF RefreshRotate, RefreshRotateFails
    <3>2. PICK hit \in BOOLEAN :
            Becomes(r, [pc |-> "issueNext", token |-> t, roles |-> reqs[r].roles, hit |-> hit])
      <4>1. (tokens[t].status = "live") \in BOOLEAN
        OBVIOUS
      <4> QED
        BY <2>3, <4>1 DEF RefreshRotate, RefreshRotateFails
    <3> DEFINE h == [pc |-> "issueNext", token |-> t, roles |-> reqs[r].roles, hit |-> hit]
    <3>3. h \in Handlers
      BY <3>1 DEF Handlers
    <3>4. <<KeyOf(tokens[t].grant), reqs[r].roles>> \in granted
      BY <2>3 DEF RefreshRotate, RefreshRotateFails, HandlersWereGranted, CarriesGranted
    <3>5. CarriesGranted(h, codes', tokens', granted')
      BY <1>1, <3>1, <3>4 DEF CarriesGranted, RowsPersist, GrantsPersist
    <3> QED
      BY <1>1, <3>2, <3>3, <3>5, OthersCarryGranted
  <2>4. ASSUME NEW t \in Tokens, RefreshIssue(r, t)
        PROVE  HandlersWereGranted'
    <3>1. [pc |-> "audit", token |-> t, event |-> "TOKEN_REFRESHED"] \in Handlers
      BY DEF Handlers, AuditEvents, IssueEvents
    <3> QED
      BY <2>4, <3>1, <1>2 DEF RefreshIssue
  <2> QED
    BY <1>2, <1>3, <1>6, <2>1, <2>2, <2>3, <2>4 DEF RefreshStep, RefreshExpire
<1>7. ASSUME NEW r \in Requests, SignOutStep(r)
      PROVE  HandlersWereGranted'
  <2>1. ASSUME NEW t \in Tokens, NEW user \in Users, SignOutFind(r, t, user)
        PROVE  HandlersWereGranted'
    <3>1. [pc |-> "revokeOne", token |-> t] \in Handlers
      BY DEF Handlers
    <3> QED
      BY <2>1, <3>1, <1>2 DEF SignOutFind
  <2>2. ASSUME SignOutToken(r) \/ SignOutSession(r)
        PROVE  HandlersWereGranted'
    <3> DEFINE t == reqs[r].token
               trail == [pc |-> "audit", token |-> t, event |-> "TOKEN_REVOKED"]
               more == [pc |-> "revokeSession", token |-> t]
    <3>1. t \in Tokens
      BY <2>2, HandlerRow DEF SignOutToken, SignOutSession
    <3>2. trail \in Handlers /\ more \in Handlers
      BY <3>1 DEF Handlers, AuditEvents
    <3>3. Becomes(r, trail) \/ Becomes(r, more)
      BY <2>2 DEF SignOutToken, SignOutSession
    <3> QED
      BY <1>2, <3>2, <3>3
  <2> QED
    BY <1>7, <2>1, <2>2 DEF SignOutStep
<1>8. ASSUME NEW r \in Requests, Audit(r) \/ Fail(r)
      PROVE  HandlersWereGranted'
  BY <1>2, <1>3, <1>8 DEF Audit, Fail
<1>9. CASE reqs' = reqs
  <2>1. ASSUME NEW q \in Requests
        PROVE  CarriesGranted(reqs[q], codes', tokens', granted')
    <3>1. CarriesGranted(reqs[q], codes, tokens, granted)
      BY DEF HandlersWereGranted
    <3>2. reqs[q].pc = "issueFirst" =>
            reqs[q].code \in Codes /\ codes[reqs[q].code].status = "gone"
      BY HandlerShape DEF HandlersHaveRows
    <3>3. reqs[q].pc \in {"rotate", "issueNext"} =>
            reqs[q].token \in Tokens /\ Born(reqs[q].token)
      BY HandlerRow
    <3> QED
      BY <1>1, <3>1, <3>2, <3>3 DEF CarriesGranted, RowsPersist, GrantsPersist
  <2> QED
    BY <1>9, <2>1 DEF HandlersWereGranted
<1>10. Environment \/ UNCHANGED vars => reqs' = reqs
  BY DEF Environment, GrantEntitlement, RevokeEntitlement, CodeExpires, TokenExpires, Prune, vars
<1> QED
  BY <1>4, <1>5, <1>6, <1>7, <1>8, <1>9, <1>10 DEF Next, RequestStep

-----------------------------------------------------------------------------
(* A new token is worth what its handler carries. *)
LEMMA NextTokensAsGranted ==
  ASSUME TypeOK, HandlersHaveRows, FamiliesAreSpent, HandlersWereGranted, TokensAsGranted,
         [Next]_vars
  PROVE  TokensAsGranted'
<1> USE DEF Holds
<1> DEFINE Good(t) ==
             /\ KeyOf(tokens[t].grant) = KeyOf(codes[tokens[t].family].grant)
             /\ tokens[t].grant.session = codes[tokens[t].family].grant.session
             /\ <<KeyOf(tokens[t].grant), tokens[t].grant.roles>> \in granted
<1>1. RowsPersist /\ GrantsPersist
  BY NextRowsPersist, NextGrantsPersist
<1>2. \A t \in Tokens : Born(t) => Good(t)
  BY DEF TokensAsGranted, LineageKeepsIdentity, RolesWereGranted
<1>3. ASSUME NEW t \in Tokens, Born(t)
      PROVE  Good(t)'
  <2>1. tokens[t].family \in Codes /\ codes[tokens[t].family].status = "gone"
    BY <1>3, RowShape DEF FamiliesAreSpent
  <2> QED
    BY <1>1, <1>2, <1>3, <2>1 DEF RowsPersist, GrantsPersist
<1>4. ASSUME NEW r \in Requests, NEW t \in Tokens, IssueFirst(r, t)
      PROVE  Good(t)' /\ \A u \in Tokens : u # t /\ Born(u)' => Born(u)
  <2> DEFINE c == reqs[r].code
  <2>1. c \in Codes /\ reqs[r].grant \in Grants
    BY <1>4, HandlerShape DEF IssueFirst
  <2>2. /\ <<KeyOf(reqs[r].grant), reqs[r].grant.roles>> \in granted
        /\ reqs[r].grant = codes[c].grant
    BY <1>4 DEF IssueFirst, HandlersWereGranted, CarriesGranted
  <2>3. /\ tokens'[t].grant = reqs[r].grant /\ tokens'[t].family = c
        /\ \A u \in Tokens : u # t => tokens'[u] = tokens[u]
    BY <1>4, <2>1, InsertTyped DEF IssueFirst
  <2>4. codes' = codes /\ granted' = granted
    BY <1>4 DEF IssueFirst
  <2> QED
    BY <2>2, <2>3, <2>4 DEF Born
<1>5. ASSUME NEW r \in Requests, NEW t \in Tokens, RefreshIssue(r, t)
      PROVE  Good(t)' /\ \A u \in Tokens : u # t /\ Born(u)' => Born(u)
  <2> DEFINE old == tokens[reqs[r].token]
             g == [old.grant EXCEPT !.roles = reqs[r].roles]
  <2>1. /\ reqs[r].token \in Tokens /\ Born(reqs[r].token)
        /\ old.grant \in Grants /\ old.family \in Codes /\ reqs[r].roles \in RoleSets
    BY <1>5, HandlerRow, HandlerShape DEF RefreshIssue
  <2>2. g \in Grants /\ KeyOf(g) = KeyOf(old.grant) /\ g.session = old.grant.session
        /\ g.roles = reqs[r].roles
    BY <2>1 DEF Grants, KeyOf
  <2>3. /\ tokens'[t].grant = g /\ tokens'[t].family = old.family
        /\ \A u \in Tokens : u # t => tokens'[u] = tokens[u]
    BY <1>5, <2>1, <2>2, InsertTyped DEF RefreshIssue
  <2>4. <<KeyOf(old.grant), reqs[r].roles>> \in granted
    BY <1>5 DEF RefreshIssue, HandlersWereGranted, CarriesGranted
  <2>5. codes' = codes /\ granted' = granted
    BY <1>5 DEF RefreshIssue
  <2> QED
    BY <1>2, <2>1, <2>2, <2>3, <2>4, <2>5, ZenonT(40) DEF Born
<1>6. \A t \in Tokens : Born(t)' => Good(t)'
  BY WhoInserts, <1>3, <1>4, <1>5
<1> QED
  BY <1>6 DEF TokensAsGranted, LineageKeepsIdentity, RolesWereGranted

-----------------------------------------------------------------------------
LEMMA InitWorthInv == Init => WorthInv
BY DEF Init, WorthInv, EntitlementsWereGranted, CodesWereGranted, HandlersWereGranted,
   CarriesGranted, TokensAsGranted, LineageKeepsIdentity, RolesWereGranted, Born, Unborn, Idle

LEMMA NextWorthInv == IInv /\ WorthInv /\ [Next]_vars => WorthInv'
BY NextEntitlements, NextCodes, NextHandlersCarryGranted, NextTokensAsGranted
   DEF IInv, WorthInv

(* Nothing on its way to a token is worth what was never granted. *)
THEOREM WorthHolds == Spec => []WorthInv
<1> QED
  BY InitWorthInv, NextWorthInv, InvariantHolds, PTL DEF Spec

(* However often it is refreshed, a token keeps the user, client, tenant    *)
(* and session of its code, and its roles were granted for exactly those.   *)
THEOREM TokensAreAsGranted == Spec => []TokensAsGranted
<1>1. WorthInv => TokensAsGranted
  BY DEF WorthInv
<1> QED
  BY <1>1, WorthHolds, PTL

-----------------------------------------------------------------------------
(* A revoked entitlement yields no token *)

(* The handlers' part of Barren for one handler record, given the tokens. *)
BarrenRecord(h, ts, k) ==
  /\ h.pc \in {"mint", "issueFirst"} => KeyOf(h.grant) # k
  /\ h.pc \in {"rotate", "issueNext"} => KeyOf(ts[h.token].grant) # k

LEMMA HandlersStayBarren ==
  ASSUME TypeOK, HandlersHaveRows, RowsPersist, NEW k \in Keys, Barren(k),
         NEW r \in Requests, NEW h \in Handlers, Becomes(r, h), BarrenRecord(h, tokens', k)
  PROVE  \A q \in Requests : BarrenRecord(reqs'[q], tokens', k)
<1>1. reqs'[r] = h /\ \A q \in Requests : q # r => reqs'[q] = reqs[q]
  BY BecomesTyped
<1>2. ASSUME NEW q \in Requests
      PROVE  BarrenRecord(reqs[q], tokens', k)
  <2>1. reqs[q].pc \in {"rotate", "issueNext"} =>
          tokens'[reqs[q].token].grant = tokens[reqs[q].token].grant
    BY HandlerRow DEF RowsPersist
  <2> QED
    BY <2>1 DEF Barren, BarrenRecord
<1> QED
  BY <1>1, <1>2

LEMMA NextHandlersStayBarren ==
  ASSUME TypeOK, HandlersHaveRows, [Next]_vars, NEW k \in Keys, Barren(k)
  PROVE  \A q \in Requests : BarrenRecord(reqs'[q], tokens', k)
<1> USE DEF Holds
<1> DEFINE Goal == \A q \in Requests : BarrenRecord(reqs'[q], tokens', k)
<1>1. RowsPersist
  BY NextRowsPersist
<1>2. ASSUME NEW r \in Requests, NEW h \in Handlers, Becomes(r, h),
             h.pc \notin {"mint", "issueFirst", "rotate", "issueNext"}
      PROVE  Goal
  <2>1. BarrenRecord(h, tokens', k)
    BY <1>2 DEF BarrenRecord
  <2> QED
    BY <1>1, <1>2, <2>1, HandlersStayBarren
<1>3. Idle \in Handlers /\ Idle.pc = "idle"
  BY DEF Handlers, Idle
<1>4. ASSUME NEW r \in Requests, AuthorizeStep(r)
      PROVE  Goal
  <2>1. ASSUME NEW g \in Grants, AuthorizeRead(r, g)
        PROVE  Goal
    <3> DEFINE h == [pc |-> "mint", grant |-> g]
    <3>1. h \in Handlers
      BY DEF Handlers
    <3>2. g.roles # NoEntitlement
      BY EntitlementAssumption DEF Grants
    <3>3. KeyOf(g) # k
      BY <2>1, <3>2 DEF AuthorizeRead, Barren
    <3>4. BarrenRecord(h, tokens', k)
      BY <3>3 DEF BarrenRecord
    <3> QED
      BY <1>1, <2>1, <3>1, <3>4, HandlersStayBarren DEF AuthorizeRead
  <2> QED
    BY <1>2, <1>3, <1>4, <2>1 DEF AuthorizeStep, AuthorizeMint
<1>5. ASSUME NEW r \in Requests, ExchangeStep(r)
      PROVE  Goal
  <2>1. ASSUME NEW c \in Codes, NEW client \in Clients, NEW proof \in BOOLEAN,
               ConsumeFind(r, c, client, proof)
        PROVE  Goal
    <3>1. [pc |-> "delete", code |-> c, client |-> client, proof |-> proof,
           late |-> codes[c].expired] \in Handlers
      BY <2>1, FindHandler
    <3> QED
      BY <2>1, <3>1, <1>2 DEF ConsumeFind
  <2>2. ASSUME ConsumeAccept(r)
        PROVE  Goal
    <3> DEFINE c == reqs[r].code
               h == [pc |-> "issueFirst", code |-> c, grant |-> codes[c].grant]
    <3>1. c \in Codes /\ codes[c].status = "stored" /\ codes[c].grant \in Grants
      BY <2>2, HandlerShape, RowShape DEF ConsumeAccept
    <3>2. h \in Handlers
      BY <3>1 DEF Handlers
    <3>3. BarrenRecord(h, tokens', k)
      BY <3>1 DEF BarrenRecord, Barren
    <3> QED
      BY <1>1, <2>2, <3>2, <3>3, HandlersStayBarren DEF ConsumeAccept
  <2>3. ASSUME NEW t \in Tokens, IssueFirst(r, t)
        PROVE  Goal
    <3>1. [pc |-> "audit", token |-> t, event |-> "TOKEN_ISSUED"] \in Handlers
      BY DEF Handlers, AuditEvents, IssueEvents
    <3> QED
      BY <2>3, <3>1, <1>2 DEF IssueFirst
  <2> QED
    BY <1>2, <1>3, <1>5, <2>1, <2>2, <2>3 DEF ExchangeStep, ConsumeBurn, ConsumeConflict
<1>6. ASSUME NEW r \in Requests, RefreshStep(r)
      PROVE  Goal
  <2>1. ASSUME NEW t \in Tokens, NEW client \in Clients, RefreshFind(r, t, client)
        PROVE  Goal
    <3>1. [pc |-> IF tokens[t].expired THEN "expire" ELSE "entitle", token |-> t] \in Handlers
      BY DEF Handlers
    <3> QED
      BY <2>1, <3>1, <1>2 DEF RefreshFind
  <2>2. ASSUME RefreshEntitle(r)
        PROVE  Goal
    <3> DEFINE t == reqs[r].token
               roles == ent[KeyOf(tokens[t].grant)]
               h == [pc |-> "rotate", token |-> t, roles |-> roles]
    <3>1. t \in Tokens /\ Born(t) /\ KeyOf(tokens[t].grant) \in Keys
      BY <2>2, HandlerRow, KeyOfGrant DEF RefreshEntitle
    <3>2. CASE roles = NoEntitlement
      BY <2>2, <3>2, <1>2, <1>3 DEF RefreshEntitle
    <3>3. CASE roles # NoEntitlement
      <4>1. h \in Handlers
        BY <3>1, <3>3 DEF Handlers, TypeOK
      <4>2. KeyOf(tokens[t].grant) # k
        BY <3>3 DEF Barren
      <4>3. BarrenRecord(h, tokens', k)
        BY <1>1, <3>1, <4>2 DEF BarrenRecord, RowsPersist
      <4>4. Becomes(r, h)
        BY <2>2, <3>3 DEF RefreshEntitle
      <4> QED
        BY <1>1, <4>1, <4>3, <4>4, HandlersStayBarren
    <3> QED
      BY <3>2, <3>3
  <2>3. ASSUME RefreshRotate(r) \/ RefreshRotateFails(r)
        PROVE  Goal
    <3> DEFINE t == reqs[r].token
    <3>1. t \in Tokens /\ Born(t) /\ reqs[r].roles \in RoleSets
      BY <2>3, HandlerRow, HandlerShape DEF RefreshRotate, RefreshRotateFails
    <3>2. PICK hit \in BOOLEAN :
            Becomes(r, [pc |-> "issueNext", token |-> t, roles |-> reqs[r].roles, hit |-> hit])
      <4>1. (tokens[t].status = "live") \in BOOLEAN
        OBVIOUS
      <4> QED
        BY <2>3, <4>1 DEF RefreshRotate, RefreshRotateFails
    <3> DEFINE h == [pc |-> "issueNext", token |-> t, roles |-> reqs[r].roles, hit |-> hit]
    <3>3. h \in Handlers
      BY <3>1 DEF Handlers
    <3>4. KeyOf(tokens[t].grant) # k
      BY <2>3 DEF RefreshRotate, RefreshRotateFails, Barren
    <3>5. BarrenRecord(h, tokens', k)
      BY <1>1, <3>1, <3>4 DEF BarrenRecord, RowsPersist
    <3> QED
      BY <1>1, <3>2, <3>3, <3>5, HandlersStayBarren
  <2>4. ASSUME NEW t \in Tokens, RefreshIssue(r, t)
        PROVE  Goal
    <3>1. [pc |-> "audit", token |-> t, event |-> "TOKEN_REFRESHED"] \in Handlers
      BY DEF Handlers, AuditEvents, IssueEvents
    <3> QED
      BY <2>4, <3>1, <1>2 DEF RefreshIssue
  <2> QED
    BY <1>2, <1>3, <1>6, <2>1, <2>2, <2>3, <2>4 DEF RefreshStep, RefreshExpire
<1>7. ASSUME NEW r \in Requests, SignOutStep(r)
      PROVE  Goal
  <2>1. ASSUME NEW t \in Tokens, NEW user \in Users, SignOutFind(r, t, user)
        PROVE  Goal
    <3>1. [pc |-> "revokeOne", token |-> t] \in Handlers
      BY DEF Handlers
    <3> QED
      BY <2>1, <3>1, <1>2 DEF SignOutFind
  <2>2. ASSUME SignOutToken(r) \/ SignOutSession(r)
        PROVE  Goal
    <3> DEFINE t == reqs[r].token
               trail == [pc |-> "audit", token |-> t, event |-> "TOKEN_REVOKED"]
               more == [pc |-> "revokeSession", token |-> t]
    <3>1. t \in Tokens
      BY <2>2, HandlerRow DEF SignOutToken, SignOutSession
    <3>2. trail \in Handlers /\ more \in Handlers
      BY <3>1 DEF Handlers, AuditEvents
    <3>3. Becomes(r, trail) \/ Becomes(r, more)
      BY <2>2 DEF SignOutToken, SignOutSession
    <3> QED
      BY <1>2, <3>2, <3>3
  <2> QED
    BY <1>7, <2>1, <2>2 DEF SignOutStep
<1>8. ASSUME NEW r \in Requests, Audit(r) \/ Fail(r)
      PROVE  Goal
  BY <1>2, <1>3, <1>8 DEF Audit, Fail
<1>9. CASE reqs' = reqs
  <2>1. ASSUME NEW q \in Requests
        PROVE  BarrenRecord(reqs[q], tokens', k)
    <3>1. reqs[q].pc \in {"rotate", "issueNext"} =>
            tokens'[reqs[q].token].grant = tokens[reqs[q].token].grant
      BY <1>1, HandlerRow DEF RowsPersist
    <3> QED
      BY <3>1 DEF Barren, BarrenRecord
  <2> QED
    BY <1>9, <2>1
<1>10. Environment \/ UNCHANGED vars => reqs' = reqs
  BY DEF Environment, GrantEntitlement, RevokeEntitlement, CodeExpires, TokenExpires, Prune, vars
<1> QED
  BY <1>4, <1>5, <1>6, <1>7, <1>8, <1>9, <1>10 DEF Next, RequestStep

(* A code is minted for what its handler had read, and no other is new.     *)
LEMMA NextCodesStayBarren ==
  ASSUME TypeOK, HandlersHaveRows, [Next]_vars, NEW k \in Keys, Barren(k),
         NEW c \in Codes, codes'[c].status = "stored"
  PROVE  KeyOf(codes'[c].grant) # k
<1> USE DEF Holds
<1>1. GrantsPersist
  BY NextGrantsPersist
<1>2. RowsPersist
  BY NextRowsPersist
<1>3. CASE codes[c].status # "unborn"
  <2>1. codes[c].status = "stored" /\ codes'[c].grant = codes[c].grant
    BY <1>1, <1>2, <1>3, RowShape DEF GrantsPersist, RowsPersist
  <2> QED
    BY <2>1 DEF Barren
<1>4. CASE codes[c].status = "unborn"
  <2>1. ASSUME NEW r \in Requests, RequestStep(r)
        PROVE  \E d \in Codes : AuthorizeMint(r, d)
    <3>1. \/ ConsumeAccept(r) \/ ConsumeBurn(r) \/ codes' = codes
          \/ \E d \in Codes : AuthorizeMint(r, d)
      BY <2>1 DEF RequestStep, AuthorizeStep, ExchangeStep, RefreshStep, SignOutStep, Audit,
         Fail, AuthorizeRead, ConsumeFind, ConsumeConflict, IssueFirst, RefreshFind,
         RefreshExpire, RefreshEntitle, RefreshRotate, RefreshRotateFails, RefreshIssue,
         SignOutFind, SignOutToken, SignOutSession
    <3>2. CASE ConsumeAccept(r) \/ ConsumeBurn(r)
      <4>1. codes[reqs[r].code].status = "stored"
        BY <3>2 DEF ConsumeAccept, ConsumeBurn
      <4>2. codes' = [codes EXCEPT ![reqs[r].code].status = "gone"]
        BY <3>2 DEF ConsumeAccept, ConsumeBurn
      <4> QED
        BY <1>4, <4>1, <4>2 DEF TypeOK
    <3> QED
      BY <1>4, <3>1, <3>2
  <2>2. ~ Environment
    BY <1>4 DEF Environment, GrantEntitlement, RevokeEntitlement, CodeExpires, TokenExpires,
       Prune, ExpiredCodes, TypeOK, CodeRows, Unborn
  <2>3. PICK r \in Requests, d \in Codes : AuthorizeMint(r, d)
    BY <1>4, <2>1, <2>2 DEF Next, vars
  <2>4. d = c /\ codes'[c].grant = reqs[r].grant
    BY <1>4, <2>3 DEF AuthorizeMint, TypeOK
  <2> QED
    BY <2>3, <2>4 DEF AuthorizeMint, Barren
<1> QED
  BY <1>3, <1>4

LEMMA NextBarren ==
  ASSUME TypeOK, HandlersHaveRows, [Next]_vars, NEW k \in Keys, Barren(k),
         ent'[k] = NoEntitlement
  PROVE  /\ Barren(k)'
         /\ \A t \in Tokens : Born(t)' /\ KeyOf(tokens'[t].grant) = k => Born(t)
<1> USE DEF Holds
<1>1. Barren(k)'
  BY NextHandlersStayBarren, NextCodesStayBarren DEF Barren, BarrenRecord
<1>2. ASSUME NEW r \in Requests, NEW t \in Tokens, IssueFirst(r, t)
      PROVE  KeyOf(tokens'[t].grant) # k /\ \A u \in Tokens : u # t /\ Born(u)' => Born(u)
  <2>1. reqs[r].code \in Codes /\ reqs[r].grant \in Grants
    BY <1>2, HandlerShape DEF IssueFirst
  <2>2. tokens'[t].grant = reqs[r].grant /\ \A u \in Tokens : u # t => tokens'[u] = tokens[u]
    BY <1>2, <2>1, InsertTyped DEF IssueFirst
  <2> QED
    BY <1>2, <2>2 DEF IssueFirst, Barren, Born
<1>3. ASSUME NEW r \in Requests, NEW t \in Tokens, RefreshIssue(r, t)
      PROVE  KeyOf(tokens'[t].grant) # k /\ \A u \in Tokens : u # t /\ Born(u)' => Born(u)
  <2> DEFINE old == tokens[reqs[r].token]
             g == [old.grant EXCEPT !.roles = reqs[r].roles]
  <2>1. old.grant \in Grants /\ old.family \in Codes /\ reqs[r].roles \in RoleSets
    BY <1>3, HandlerRow, HandlerShape DEF RefreshIssue
  <2>2. g \in Grants /\ KeyOf(g) = KeyOf(old.grant)
    BY <2>1 DEF Grants, KeyOf
  <2>3. tokens'[t].grant = g /\ \A u \in Tokens : u # t => tokens'[u] = tokens[u]
    BY <1>3, <2>1, <2>2, InsertTyped DEF RefreshIssue
  <2> QED
    BY <1>3, <2>2, <2>3 DEF RefreshIssue, Barren, Born
<1>4. \A t \in Tokens : Born(t)' /\ KeyOf(tokens'[t].grant) = k => Born(t)
  BY WhoInserts, <1>2, <1>3
<1> QED
  BY <1>1, <1>4

(* Taking an entitlement away takes effect: once its codes and handlers are *)
(* gone, refreshing yields no token for it until it is granted again.       *)
THEOREM RevocationTakesEffect == Spec => RevokedKeyStaysBarren
<1>1. IInv /\ [Next]_vars =>
        [\A k \in Keys : Barren(k) /\ ent'[k] = NoEntitlement =>
           /\ Barren(k)'
           /\ \A t \in Tokens : Born(t)' /\ KeyOf(tokens'[t].grant) = k => Born(t)]_vars
  BY NextBarren DEF IInv
<1> QED
  BY <1>1, InvariantHolds, PTL DEF Spec, RevokedKeyStaysBarren

-----------------------------------------------------------------------------
(* Signing out of a session *)

(* The last transaction of a sign-out revokes every family of the session:  *)
(* its tokens have the session of their code (TokensAsGranted), and none of *)
(* the handlers that could still add one carries it.                        *)
LEMMA SignOutExtinguishes ==
  ASSUME IInv, WorthInv, NEW r \in Requests, SignOutSession(r), NEW f \in Codes,
         codes[f].status \notin {"unborn", "stored"},
         codes[f].grant.session = tokens[reqs[r].token].grant.session,
         \A q \in Requests : ~ Carries(q, f)
  PROVE  Extinct(f)'
<1> USE DEF Holds
<1> DEFINE s == tokens[reqs[r].token].grant.session
           h == [pc |-> "audit", token |-> reqs[r].token, event |-> "TOKEN_REVOKED"]
<1>1. TypeOK /\ HandlersHaveRows /\ Revoke(TokensOfSession(s)) /\ codes' = codes
  BY DEF IInv, SignOutSession
<1>2. codes[f].status = "gone"
  BY <1>1 DEF TypeOK, CodeRows, Unborn
<1>3. ASSUME NEW t \in Tokens, Live(t)'
      PROVE  tokens'[t].family # f
  <2>1. /\ Live(t) /\ Born(t) /\ t \notin TokensOfSession(s)
        /\ tokens'[t].family = tokens[t].family
    BY <1>1, <1>3, RevokeShape DEF Live, Born
  <2>2. tokens[t].grant.session # s
    BY <2>1 DEF TokensOfSession, Born
  <2>3. tokens[t].grant.session = codes[tokens[t].family].grant.session
    BY <2>1 DEF WorthInv, TokensAsGranted, LineageKeepsIdentity
  <2> QED
    BY <2>1, <2>2, <2>3
<1>4. ASSUME NEW q \in Requests
      PROVE  ~ Carries(q, f)'
  <2>1. reqs[r].token \in Tokens
    BY <1>1, HandlerRow DEF SignOutSession
  <2>2. h \in Handlers /\ Becomes(r, h)
    BY <2>1 DEF Handlers, AuditEvents, SignOutSession
  <2>3. reqs'[r] = h /\ (q # r => reqs'[q] = reqs[q])
    BY <1>1, <2>2, BecomesTyped
  <2>4. CASE q = r
    BY <2>3, <2>4 DEF Carries
  <2>5. CASE q # r
    <3>1. reqs[q].pc \in {"entitle", "rotate", "issueNext"} =>
            tokens'[reqs[q].token].family = tokens[reqs[q].token].family
      BY <1>1, HandlerRow, RevokeShape
    <3> QED
      BY <2>3, <2>5, <3>1 DEF Carries
  <2> QED
    BY <2>4, <2>5
<1> QED
  BY <1>1, <1>2, <1>3, <1>4 DEF Extinct

(* When a sign-out commits, each code of its session is extinct together    *)
(* with its family, but for a code not yet exchanged and a family that an   *)
(* exchange or a refresh in flight carries.                                 *)
THEOREM SignOutIsThorough == Spec => SignOutLeavesOnlyRacers
<1>1. IInv /\ WorthInv /\ [Next]_vars =>
        [\A r \in Requests : SignOutSession(r) =>
           \A f \in Codes :
             /\ codes[f].status # "unborn"
             /\ codes[f].grant.session = tokens[reqs[r].token].grant.session
             => \/ Extinct(f)'
                \/ codes[f].status = "stored"
                \/ \E q \in Requests : Carries(q, f)]_vars
  BY SignOutExtinguishes
<1> QED
  BY <1>1, InvariantHolds, WorthHolds, PTL DEF Spec, SignOutLeavesOnlyRacers
=============================================================================
