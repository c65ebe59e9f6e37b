---------------------------- MODULE OAuthGrants ----------------------------
(***************************************************************************)
(* The OAuth2 token path of the identity service: authorization codes,     *)
(* refresh tokens and the entitlements they are issued against.            *)
(*                                                                         *)
(* Every helper of packages/db is one READ COMMITTED transaction           *)
(* (withAuthorizationTransaction), and a route handler awaits several of   *)
(* them, so handlers interleave between any two.  A request slot holds the *)
(* local variables of the handler it runs: reqs[r].pc names the next       *)
(* transaction, and the other fields are what was read by earlier ones.    *)
(*                                                                         *)
(* consumeAuthorizationCodeRecord reads the row and deletes it in two      *)
(* statements of one READ COMMITTED transaction.  Two such transactions    *)
(* can both read the row; the second DELETE then waits, finds no row and   *)
(* raises P2025 (the behaviour entitlements.ts relies on as well), so the  *)
(* read and the delete are separate steps here.                            *)
(*                                                                         *)
(* Time is abstracted to the fact the code tests: a row's expiresAt is in  *)
(* the past or it is not.  An entitlement row that is deleted, cascaded    *)
(* away or past its expiresAt is the same to both readers (both filter on  *)
(* expiresAt), so all three are NoEntitlement.                             *)
(***************************************************************************)
EXTENDS Naturals

CONSTANTS
  Requests,       \* concurrent handler slots of the identity processes
  Users, Clients, \* a client id stands for its product: clientId is unique
  Tenants,
  Sessions,       \* Supabase session ids found in app_metadata.session_id
  NoSession,      \* a token minted without a session id
  SessionUser,    \* the user a session belongs to
  RoleSets,       \* values of ProductEntitlement.roles
  NoEntitlement,
  Codes, Tokens   \* the random ids that can be drawn: fresh, never reused

ASSUME SessionAssumption ==
  /\ SessionUser \in [Sessions -> Users]
  /\ NoSession \notin Sessions

ASSUME EntitlementAssumption == NoEntitlement \notin RoleSets

Keys == Users \X Clients \X Tenants

(* What a code or a refresh token is worth. *)
Grants == [user: Users, client: Clients, tenant: Tenants,
           session: Sessions \cup {NoSession}, roles: RoleSets]

KeyOf(g) == <<g.user, g.client, g.tenant>>

VARIABLES
  ent,      \* core.product_entitlements: the roles a key has now
  codes,    \* core.authorization_codes
  tokens,   \* core.refresh_tokens
  reqs,     \* the handlers in flight
  audit,    \* core.audit_events of the token path
  granted,  \* history: the <<key, roles>> pairs an administrator ever granted
  missed,   \* history: families with a rotation whose revoke changed no row
  lost      \* history: tokens whose handler died before its audit event

vars == <<ent, codes, tokens, reqs, audit, granted, missed, lost>>

(* A row that was never inserted.  A deleted row keeps its columns for the  *)
(* properties; no action reads them.                                        *)
Unborn == [status |-> "unborn"]

CodeRows ==
  {Unborn} \cup [status: {"stored", "gone"}, grant: Grants, expired: BOOLEAN]

(* A token's family is the code its chain of rotations began with. *)
TokenRows ==
  {Unborn} \cup [status: {"live", "revoked"}, grant: Grants, expired: BOOLEAN, family: Codes]

IssueEvents == {"TOKEN_ISSUED", "TOKEN_REFRESHED"}
AuditEvents == IssueEvents \cup {"TOKEN_REVOKED"}

Idle == [pc |-> "idle"]

Handlers ==
       {Idle}
  \cup [pc: {"mint"}, grant: Grants]
  \cup [pc: {"delete"}, code: Codes, client: Clients, proof: BOOLEAN, late: BOOLEAN]
  \cup [pc: {"issueFirst"}, code: Codes, grant: Grants]
  \cup [pc: {"expire", "entitle"}, token: Tokens]
  \cup [pc: {"rotate"}, token: Tokens, roles: RoleSets]
  \cup [pc: {"issueNext"}, token: Tokens, roles: RoleSets, hit: BOOLEAN]
  \cup [pc: {"revokeOne", "revokeSession"}, token: Tokens]
  \cup [pc: {"audit"}, token: Tokens, event: AuditEvents]

TypeOK ==
  /\ ent \in [Keys -> RoleSets \cup {NoEntitlement}]
  /\ codes \in [Codes -> CodeRows]
  /\ tokens \in [Tokens -> TokenRows]
  /\ reqs \in [Requests -> Handlers]
  /\ audit \subseteq AuditEvents \X Tokens
  /\ granted \subseteq Keys \X RoleSets
  /\ missed \subseteq Codes
  /\ lost \subseteq Tokens

Init ==
  /\ ent = [k \in Keys |-> NoEntitlement]
  /\ codes = [c \in Codes |-> Unborn]
  /\ tokens = [t \in Tokens |-> Unborn]
  /\ reqs = [r \in Requests |-> Idle]
  /\ audit = {}
  /\ granted = {}
  /\ missed = {}
  /\ lost = {}

Holds(r, label) == reqs[r].pc = label

Becomes(r, handler) == reqs' = [reqs EXCEPT ![r] = handler]

-----------------------------------------------------------------------------
(* GET /oauth/authorize *)

(* Mutant: any entitlement for the product will do, whatever its tenant. *)
AuthorizeOtherTenant(r, g) ==
  /\ Holds(r, "idle")
  /\ g.session = NoSession \/ (g.session \in Sessions /\ SessionUser[g.session] = g.user)
  /\ \E tenant \in Tenants : ent[<<g.user, g.client, tenant>>] = g.roles
  /\ Becomes(r, [pc |-> "mint", grant |-> g])
  /\ UNCHANGED <<ent, codes, tokens, audit, granted, missed, lost>>

(* The handler has read the user's entitlements and chosen one that matches *)
(* the client and, if the query names one, the tenant; with none it answers *)
(* 403.                                                                     *)
AuthorizeRead(r, g) ==
  /\ Holds(r, "idle")
  /\ g.session = NoSession \/ (g.session \in Sessions /\ SessionUser[g.session] = g.user)
  /\ ent[KeyOf(g)] = g.roles
  /\ Becomes(r, [pc |-> "mint", grant |-> g])
  /\ UNCHANGED <<ent, codes, tokens, audit, granted, missed, lost>>

(* authorizationCodes.create: the row snapshots the entitlement's roles. *)
AuthorizeMint(r, c) ==
  /\ Holds(r, "mint")
  /\ codes[c].status = "unborn"
  /\ codes' = [codes EXCEPT ![c] =
                 [status |-> "stored", grant |-> reqs[r].grant, expired |-> FALSE]]
  /\ Becomes(r, Idle)
  /\ UNCHANGED <<ent, tokens, audit, granted, missed, lost>>

-----------------------------------------------------------------------------
(* POST /oauth/token, grant_type=authorization_code *)

(* The SELECT of consumeAuthorizationCodeRecord, which compares the row's   *)
(* expiresAt (late) before it deletes.  proof: the request's redirect_uri   *)
(* is the stored one and its code_verifier hashes to the stored challenge.  *)
ConsumeFind(r, c, client, proof) ==
  /\ Holds(r, "idle")
  /\ codes[c].status = "stored"
  /\ Becomes(r, [pc |-> "delete", code |-> c, client |-> client, proof |-> proof,
                 late |-> codes[c].expired])
  /\ UNCHANGED <<ent, codes, tokens, audit, granted, missed, lost>>

(* Mutant: the row is left for the pruner. *)
AcceptKeepsRow(r) ==
  /\ Holds(r, "delete")
  /\ LET c == reqs[r].code IN
       /\ codes[c].status = "stored"
       /\ ~ reqs[r].late
       /\ reqs[r].client = codes[c].grant.client
       /\ reqs[r].proof
       /\ Becomes(r, [pc |-> "issueFirst", code |-> c, grant |-> codes[c].grant])
  /\ UNCHANGED <<ent, codes, tokens, audit, granted, missed, lost>>

(* The DELETE finds its row, and the handler has no reason to refuse. *)
ConsumeAccept(r) ==
  /\ Holds(r, "delete")
  /\ LET c == reqs[r].code IN
       /\ codes[c].status = "stored"
       /\ ~ reqs[r].late
       /\ reqs[r].client = codes[c].grant.client
       /\ reqs[r].proof
       /\ codes' = [codes EXCEPT ![c].status = "gone"]
       /\ Becomes(r, [pc |-> "issueFirst", code |-> c, grant |-> codes[c].grant])
  /\ UNCHANGED <<ent, tokens, audit, granted, missed, lost>>

(* The row is deleted before the checks, so a code that is expired, sent by *)
(* another client or with a wrong verifier is spent without a token.        *)
ConsumeBurn(r) ==
  /\ Holds(r, "delete")
  /\ LET c == reqs[r].code IN
       /\ codes[c].status = "stored"
       /\ \/ reqs[r].late
          \/ reqs[r].client # codes[c].grant.client
          \/ ~ reqs[r].proof
       /\ codes' = [codes EXCEPT ![c].status = "gone"]
  /\ Becomes(r, Idle)
  /\ UNCHANGED <<ent, tokens, audit, granted, missed, lost>>

(* Another request or the pruner deleted the row first: P2025, a 500. *)
ConsumeConflict(r) ==
  /\ Holds(r, "delete")
  /\ codes[reqs[r].code].status = "gone"
  /\ Becomes(r, Idle)
  /\ UNCHANGED <<ent, codes, tokens, audit, granted, missed, lost>>

(* issueRefreshToken inserts a row with a fresh token. *)
Insert(t, grant, family) ==
  /\ tokens[t].status = "unborn"
  /\ tokens' = [tokens EXCEPT ![t] =
                  [status |-> "live", grant |-> grant, expired |-> FALSE, family |-> family]]

IssueFirst(r, t) ==
  /\ Holds(r, "issueFirst")
  /\ Insert(t, reqs[r].grant, reqs[r].code)
  /\ Becomes(r, [pc |-> "audit", token |-> t, event |-> "TOKEN_ISSUED"])
  /\ UNCHANGED <<ent, codes, audit, granted, missed, lost>>

-----------------------------------------------------------------------------
(* POST /oauth/token, grant_type=refresh_token *)

(* validateRefreshToken: an unrevoked row of the same client. *)
RefreshFind(r, t, client) ==
  /\ Holds(r, "idle")
  /\ tokens[t].status = "live"
  /\ tokens[t].grant.client = client
  /\ Becomes(r, [pc |-> IF tokens[t].expired THEN "expire" ELSE "entitle", token |-> t])
  /\ UNCHANGED <<ent, codes, tokens, audit, granted, missed, lost>>

(* updateMany where revokedAt is null: a revoked row is left as it is. *)
Revoke(ts) ==
  tokens' = [t \in Tokens |->
               IF t \in ts /\ tokens[t].status = "live"
                 THEN [tokens[t] EXCEPT !.status = "revoked"]
                 ELSE tokens[t]]

RefreshExpire(r) ==
  /\ Holds(r, "expire")
  /\ Revoke({reqs[r].token})
  /\ Becomes(r, Idle)
  /\ UNCHANGED <<ent, codes, audit, granted, missed, lost>>

(* The entitlement of the token's user, product and tenant is read again;  *)
(* without one the answer is 403 and the token stays as it was.            *)
RefreshEntitle(r) ==
  /\ Holds(r, "entitle")
  /\ LET roles == ent[KeyOf(tokens[reqs[r].token].grant)] IN
       Becomes(r, IF roles = NoEntitlement
                    THEN Idle
                    ELSE [pc |-> "rotate", token |-> reqs[r].token, roles |-> roles])
  /\ UNCHANGED <<ent, codes, tokens, audit, granted, missed, lost>>

(* Mutant: the presented token is not revoked. *)
RotateWithoutRevoke(r) ==
  /\ Holds(r, "rotate")
  /\ Becomes(r, [pc |-> "issueNext", token |-> reqs[r].token,
                 roles |-> reqs[r].roles, hit |-> TRUE])
  /\ UNCHANGED <<ent, codes, tokens, audit, granted, missed, lost>>

(* createOrRotateRefreshToken revokes the presented token and looks at     *)
(* neither the number of rows it changed ...                               *)
RefreshRotate(r) ==
  /\ Holds(r, "rotate")
  /\ LET t == reqs[r].token
         hit == tokens[t].status = "live"
     IN  /\ Revoke({t})
         /\ missed' = IF hit THEN missed ELSE missed \cup {tokens[t].family}
         /\ Becomes(r, [pc |-> "issueNext", token |-> t, roles |-> reqs[r].roles, hit |-> hit])
  /\ UNCHANGED <<ent, codes, audit, granted, lost>>

(* ... nor at an error, which .catch(() => undefined) drops. *)
RefreshRotateFails(r) ==
  /\ Holds(r, "rotate")
  /\ missed' = missed \cup {tokens[reqs[r].token].family}
  /\ Becomes(r, [pc |-> "issueNext", token |-> reqs[r].token,
                 roles |-> reqs[r].roles, hit |-> FALSE])
  /\ UNCHANGED <<ent, codes, tokens, audit, granted, lost>>

(* Mutant: both grants write the same audit event. *)
IssueWithWrongEvent(r, t) ==
  /\ Holds(r, "issueNext")
  /\ LET old == tokens[reqs[r].token] IN
       Insert(t, [old.grant EXCEPT !.roles = reqs[r].roles], old.family)
  /\ Becomes(r, [pc |-> "audit", token |-> t, event |-> "TOKEN_ISSUED"])
  /\ UNCHANGED <<ent, codes, audit, granted, missed, lost>>

RefreshIssue(r, t) ==
  /\ Holds(r, "issueNext")
  /\ LET old == tokens[reqs[r].token] IN
       Insert(t, [old.grant EXCEPT !.roles = reqs[r].roles], old.family)
  /\ Becomes(r, [pc |-> "audit", token |-> t, event |-> "TOKEN_REFRESHED"])
  /\ UNCHANGED <<ent, codes, audit, granted, missed, lost>>

-----------------------------------------------------------------------------
(* recordAuditEvent, the last transaction of the handlers that change a    *)
(* token; an error in it fails the request.                                *)
Audit(r) ==
  /\ Holds(r, "audit")
  /\ audit' = audit \cup {<<reqs[r].event, reqs[r].token>>}
  /\ Becomes(r, Idle)
  /\ UNCHANGED <<ent, codes, tokens, granted, missed, lost>>

-----------------------------------------------------------------------------
(* DELETE /portal/sessions/:sessionId *)

(* The path names a refresh-token row; its owner must ask and it must not  *)
(* be revoked yet.                                                         *)
SignOutFind(r, t, user) ==
  /\ Holds(r, "idle")
  /\ tokens[t].status = "live"
  /\ tokens[t].grant.user = user
  /\ Becomes(r, [pc |-> "revokeOne", token |-> t])
  /\ UNCHANGED <<ent, codes, tokens, audit, granted, missed, lost>>

SignOutToken(r) ==
  /\ Holds(r, "revokeOne")
  /\ Revoke({reqs[r].token})
  /\ Becomes(r, IF tokens[reqs[r].token].grant.session = NoSession
                  THEN [pc |-> "audit", token |-> reqs[r].token, event |-> "TOKEN_REVOKED"]
                  ELSE [pc |-> "revokeSession", token |-> reqs[r].token])
  /\ UNCHANGED <<ent, codes, audit, granted, missed, lost>>

(* Mutant: tokens past their expiry are left alone. *)
UnexpiredTokensOfSession(s) ==
  {t \in Tokens : tokens[t].status # "unborn" /\ tokens[t].grant.session = s /\ ~ tokens[t].expired}

TokensOfSession(s) ==
  {t \in Tokens : tokens[t].status # "unborn" /\ tokens[t].grant.session = s}

(* tokenService.rotateSession: every unrevoked token of the session. *)
SignOutSession(r) ==
  /\ Holds(r, "revokeSession")
  /\ Revoke(TokensOfSession(tokens[reqs[r].token].grant.session))
  /\ Becomes(r, [pc |-> "audit", token |-> reqs[r].token, event |-> "TOKEN_REVOKED"])
  /\ UNCHANGED <<ent, codes, audit, granted, missed, lost>>

-----------------------------------------------------------------------------
(* A database error, a lost connection or a process crash ends a handler   *)
(* between two of its transactions.                                        *)
Fail(r) ==
  /\ ~ Holds(r, "idle")
  /\ lost' = IF Holds(r, "audit") /\ reqs[r].event \in IssueEvents
               THEN lost \cup {reqs[r].token}
               ELSE lost
  /\ Becomes(r, Idle)
  /\ UNCHANGED <<ent, codes, tokens, audit, granted, missed>>

-----------------------------------------------------------------------------
(* The rest of the service and the clock *)

GrantEntitlement(k, roles) ==
  /\ ent' = [ent EXCEPT ![k] = roles]
  /\ granted' = granted \cup {<<k, roles>>}
  /\ UNCHANGED <<codes, tokens, reqs, audit, missed, lost>>

RevokeEntitlement(k) ==
  /\ ent[k] # NoEntitlement
  /\ ent' = [ent EXCEPT ![k] = NoEntitlement]
  /\ UNCHANGED <<codes, tokens, reqs, audit, granted, missed, lost>>

CodeExpires(c) ==
  /\ codes[c].status = "stored"
  /\ ~ codes[c].expired
  /\ codes' = [codes EXCEPT ![c].expired = TRUE]
  /\ UNCHANGED <<ent, tokens, reqs, audit, granted, missed, lost>>

TokenExpires(t) ==
  /\ tokens[t].status = "live"
  /\ ~ tokens[t].expired
  /\ tokens' = [tokens EXCEPT ![t].expired = TRUE]
  /\ UNCHANGED <<ent, codes, reqs, audit, granted, missed, lost>>

ExpiredCodes == {c \in Codes : codes[c].status = "stored" /\ codes[c].expired}

(* pruneExpiredAuthorizationCodes, on the store's interval timer. *)
Prune ==
  /\ ExpiredCodes # {}
  /\ codes' = [c \in Codes |->
                 IF c \in ExpiredCodes THEN [codes[c] EXCEPT !.status = "gone"] ELSE codes[c]]
  /\ UNCHANGED <<ent, tokens, reqs, audit, granted, missed, lost>>

-----------------------------------------------------------------------------
AuthorizeStep(r) ==
  \/ \E g \in Grants : AuthorizeRead(r, g)
  \/ \E c \in Codes : AuthorizeMint(r, c)

ExchangeStep(r) ==
  \/ \E c \in Codes, client \in Clients, proof \in BOOLEAN : ConsumeFind(r, c, client, proof)
  \/ ConsumeAccept(r)
  \/ ConsumeBurn(r)
  \/ ConsumeConflict(r)
  \/ \E t \in Tokens : IssueFirst(r, t)

RefreshStep(r) ==
  \/ \E t \in Tokens, client \in Clients : RefreshFind(r, t, client)
  \/ RefreshExpire(r)
  \/ RefreshEntitle(r)
  \/ RefreshRotate(r)
  \/ RefreshRotateFails(r)
  \/ \E t \in Tokens : RefreshIssue(r, t)

SignOutStep(r) ==
  \/ \E t \in Tokens, user \in Users : SignOutFind(r, t, user)
  \/ SignOutToken(r)
  \/ SignOutSession(r)

RequestStep(r) ==
  AuthorizeStep(r) \/ ExchangeStep(r) \/ RefreshStep(r) \/ SignOutStep(r) \/ Audit(r) \/ Fail(r)

Environment ==
  \/ \E k \in Keys, roles \in RoleSets : GrantEntitlement(k, roles)
  \/ \E k \in Keys : RevokeEntitlement(k)
  \/ \E c \in Codes : CodeExpires(c)
  \/ \E t \in Tokens : TokenExpires(t)
  \/ Prune

Next == (\E r \in Requests : RequestStep(r)) \/ Environment

Spec == Init /\ [][Next]_vars

-----------------------------------------------------------------------------
Born(t) == tokens[t].status # "unborn"
Live(t) == tokens[t].status = "live"

(* The family a handler can still add a token to. *)
Carries(r, f) ==
  \/ Holds(r, "issueFirst") /\ reqs[r].code = f
  \/ reqs[r].pc \in {"entitle", "rotate", "issueNext"} /\ tokens[reqs[r].token].family = f

(* A code is redeemed at most once: of all the tokens of its family, only   *)
(* one was issued for the code itself.  Stated on the steps: a code that    *)
(* has already produced a token, or is about to in another handler, is      *)
(* never accepted again, however many clients present it at once            *)
(* (consumeAuthorizationCodeRecord deletes the row it has read).            *)
RedeemedOnce ==
  \A r \in Requests : Holds(r, "issueFirst") =>
    /\ \A t \in Tokens : Born(t) => tokens[t].family # reqs[r].code
    /\ \A q \in Requests : Holds(q, "issueFirst") /\ reqs[q].code = reqs[r].code => q = r

(* Rotation leaves one live token in a family, unless some rotation of the  *)
(* family missed: its revoke changed no row because another refresh or a    *)
(* sign-out had got there first, or failed and was ignored                  *)
(* (createOrRotateRefreshToken).                                            *)
OneLiveUnlessMissed ==
  \A t, u \in Tokens :
    Live(t) /\ Live(u) /\ tokens[t].family = tokens[u].family =>
      t = u \/ tokens[t].family \in missed

(* However often it is refreshed, a token keeps the user, the client, the   *)
(* tenant and the session of the code it comes from: no exchange or refresh *)
(* lets a token cross to another client or tenant.                          *)
LineageKeepsIdentity ==
  \A t \in Tokens : Born(t) =>
    LET root == codes[tokens[t].family].grant
        leaf == tokens[t].grant
    IN  /\ KeyOf(leaf) = KeyOf(root)
        /\ leaf.session = root.session

(* The roles inside a token were granted at some time to exactly its user,  *)
(* client and tenant, whatever other entitlements the user has             *)
(* (the find in the refresh grant, the selection in authorize).             *)
RolesWereGranted ==
  \A t \in Tokens : Born(t) => <<KeyOf(tokens[t].grant), tokens[t].grant.roles>> \in granted

(* What a refresh token is worth is what its code was worth, with roles     *)
(* granted for exactly that.                                                *)
TokensAsGranted == LineageKeepsIdentity /\ RolesWereGranted

(* The audit trail tells the story of the table.  A refresh token has one   *)
(* issue event, TOKEN_ISSUED or TOKEN_REFRESHED, or the handler that        *)
(* inserted it is about to write it, or died before; and of the tokens of a *)
(* family only one was TOKEN_ISSUED (the audit step of the token route).    *)
TrailMatchesTable ==
  \A t \in Tokens : Born(t) =>
    /\ \/ \E e \in IssueEvents : <<e, t>> \in audit
       \/ t \in lost
       \/ \E r \in Requests : Holds(r, "audit") /\ reqs[r].token = t /\ reqs[r].event \in IssueEvents
    /\ <<"TOKEN_ISSUED", t>> \in audit =>
         \A u \in Tokens \ {t} :
           <<"TOKEN_ISSUED", u>> \in audit => tokens[u].family # tokens[t].family

(* A family with no live token and no handler still working on it.  *)
Extinct(f) ==
  /\ codes[f].status = "gone"
  /\ \A t \in Tokens : Live(t) => tokens[t].family # f
  /\ \A r \in Requests : ~ Carries(r, f)

(* Revocation is final: nothing brings a family back once it has no live    *)
(* token and no handler that validated one of its tokens earlier.           *)
ExtinctStaysExtinct == [][\A f \in Codes : Extinct(f) => Extinct(f)']_vars

(* No entitlement, and nothing left that was read while there was one: no   *)
(* code to exchange (the exchange does not read the entitlement again) and  *)
(* no handler beyond its check.                                             *)
Barren(k) ==
  /\ ent[k] = NoEntitlement
  /\ \A c \in Codes : codes[c].status = "stored" => KeyOf(codes[c].grant) # k
  /\ \A r \in Requests :
       /\ reqs[r].pc \in {"mint", "issueFirst"} => KeyOf(reqs[r].grant) # k
       /\ reqs[r].pc \in {"rotate", "issueNext"} => KeyOf(tokens[reqs[r].token].grant) # k

(* Taking an entitlement away takes effect: once the codes and handlers of  *)
(* before are gone, no refresh token is born for that user, client and      *)
(* tenant until an administrator grants it again, whatever live refresh     *)
(* tokens are still presented.                                              *)
RevokedKeyStaysBarren ==
  [][\A k \in Keys : Barren(k) /\ ent'[k] = NoEntitlement =>
       /\ Barren(k)'
       /\ \A t \in Tokens : Born(t)' /\ KeyOf(tokens'[t].grant) = k => Born(t)]_vars

(* When a sign-out's last transaction commits, each code of the session is  *)
(* extinct together with its family, but for those that rotateSession, a    *)
(* statement on refresh tokens, does not reach: a code not yet exchanged    *)
(* and a family an exchange or a refresh in flight still carries.  Every    *)
(* token a signed-out session has later is of one of these, or of a code    *)
(* minted later (ExtinctStaysExtinct).                                      *)
SignOutLeavesOnlyRacers ==
  [][\A r \in Requests : SignOutSession(r) =>
       \A f \in Codes :
         /\ codes[f].status # "unborn"
         /\ codes[f].grant.session = tokens[reqs[r].token].grant.session
         => \/ Extinct(f)'
            \/ codes[f].status = "stored"
            \/ \E q \in Requests : Carries(q, f)]_vars

-----------------------------------------------------------------------------
(* The inductive invariant behind RedeemedOnce and OneLiveUnlessMissed. *)

(* What a handler has read still leaves a trace in the tables. *)
HandlersHaveRows ==
  \A r \in Requests :
    /\ Holds(r, "delete") => codes[reqs[r].code].status # "unborn"
    /\ Holds(r, "issueFirst") => codes[reqs[r].code].status = "gone"
    /\ reqs[r].pc \in {"expire", "entitle", "rotate", "issueNext", "revokeOne",
                       "revokeSession", "audit"} => Born(reqs[r].token)

(* A family exists only once its code has been deleted. *)
FamiliesAreSpent ==
  \A t \in Tokens : Born(t) => codes[tokens[t].family].status = "gone"

(* A handler between revoking and issuing is the family's only holder, or   *)
(* the family is counted as missed.                                         *)
RotationHolds ==
  \A r \in Requests : Holds(r, "issueNext") =>
    LET f == tokens[reqs[r].token].family IN
      f \notin missed =>
        /\ \A t \in Tokens : Live(t) => tokens[t].family # f
        /\ \A q \in Requests :
             Holds(q, "issueNext") /\ tokens[reqs[q].token].family = f => q = r

(* Everything the theorems about the token path rest on, as one invariant   *)
(* of the token and authorization-code handlers.                            *)
IInv ==
  /\ TypeOK
  /\ HandlersHaveRows
  /\ FamiliesAreSpent
  /\ RedeemedOnce
  /\ RotationHolds
  /\ OneLiveUnlessMissed

-----------------------------------------------------------------------------
(* The stage of a code, read off the tables and the handlers in flight. *)
Claimed(c) == \E r \in Requests : Holds(r, "issueFirst") /\ reqs[r].code = c
Paid(c) == \E t \in Tokens : Born(t) /\ tokens[t].family = c

Stage(c) ==
  IF codes[c].status = "unborn" THEN "new"
  ELSE IF codes[c].status = "stored" THEN "issued"
  ELSE IF Claimed(c) THEN "claimed"
  ELSE IF Paid(c) THEN "paid"
  ELSE "dropped"

Store == INSTANCE OneTimeCodes WITH stage <- [c \in Codes |-> Stage(c)]

(* The code table, its two-statement consumption and its pruner implement   *)
(* the one-time store: no interleaving of consumers, failures and the       *)
(* pruner pays a code twice or pays a dropped one.                          *)
CodesAreOneTime == Store!Spec
=============================================================================
