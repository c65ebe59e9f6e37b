-------------------------------- MODULE Saml --------------------------------
(***************************************************************************)
(* The SAML connection of an organization behind one slug: the admin       *)
(* routes that create, edit and delete it, and the assertion consumer      *)
(* service, which signs a user in.                                         *)
(*                                                                         *)
(* A PATCH reads the row, computes every column of the next one and writes *)
(* them all.  The consumer service works on the row it read first; its     *)
(* look at the account, the profile and the membership, and its writes,    *)
(* are transactions of their own.                                          *)
(*                                                                         *)
(* Left out: the redirect of a login, relay states, URLs other than those  *)
(* of the identity provider, whether assertions must be signed, and what   *)
(* samlify does: an assertion is valid when its issuer is the provider in  *)
(* force and signed it with the certificate in force.                      *)
(***************************************************************************)
EXTENDS Naturals, FiniteSets

CONSTANTS
  Users, Nobody,
  NameIds,         \* what the provider calls a user
  Providers,       \* identity providers, and the certificate of each
  NoXml,
  MaxConnections,  \* bounds the connections ever created under the slug
  Calls            \* requests in flight at a time

SamlAssumption == Nobody \notin Users /\ NoXml \notin Providers /\ MaxConnections \in Nat

VARIABLES
  id,          \* which connection it is: 1, 2, ...; 0 before the first
  live,        \* whether there is one now
  connection,  \* its row
  accounts,    \* SamlAccount: the user of every name
  members,     \* the members of the organization
  calls,       \* the requests in flight
  off,         \* history: disabled, and no PATCH in flight that read it enabled
  raced,       \* history: names first seen by two requests at once
  signIns,     \* history: the SIGN_IN events of this connection
  absent       \* history: users never in the organization

Table == <<id, live, connection, accounts>>
vars == <<Table, members, calls, off, raced, signIns, absent>>

Idle == [pc |-> "idle"]
Rows == [xml: Providers \cup {NoXml}, entity: Providers, certificate: Providers, enabled: BOOLEAN]

(* What a PATCH may ask for. *)
Bodies ==
       [field: {"metadataXml", "certificates"}, value: Providers]
  \cup [field: {"enabled"}, value: BOOLEAN]
  \cup [field: {"label"}, value: {TRUE}]

Assertions == [nameId: NameIds, email: Users \cup {Nobody}, entity: Providers, certificate: Providers]

Becomes(k, call) == calls' = [calls EXCEPT ![k] = call]

Take(k, call) == calls[k] = Idle /\ Becomes(k, call)

-----------------------------------------------------------------------------
(* Mutant: the metadata stays. *)
EditedBeside(row, body) ==
  CASE body.field = "metadataXml" ->
         [row EXCEPT !.xml = body.value, !.entity = body.value, !.certificate = body.value]
    [] body.field = "certificates" -> [row EXCEPT !.certificate = body.value]
    [] body.field = "enabled" -> [row EXCEPT !.enabled = body.value]
    [] body.field = "label" -> row

(* The row a body makes of a row: metadata sets the explicit columns too,   *)
(* and an explicit column drops the metadata, which would override it.      *)
Edited(row, body) ==
  CASE body.field = "metadataXml" ->
         [row EXCEPT !.xml = body.value, !.entity = body.value, !.certificate = body.value]
    [] body.field = "certificates" -> [row EXCEPT !.xml = NoXml, !.certificate = body.value]
    [] body.field = "enabled" -> [row EXCEPT !.enabled = body.value]
    [] body.field = "label" -> row

(* buildIdentityProvider *)
InForce(row) ==
  IF row.xml # NoXml THEN [entity |-> row.xml, certificate |-> row.xml]
  ELSE [entity |-> row.entity, certificate |-> row.certificate]

(* validatePostAssertion *)
Valid(row, assertion) ==
  [entity |-> assertion.entity, certificate |-> assertion.certificate] = InForce(row)

-----------------------------------------------------------------------------
(* The administrator's routes *)

(* POST, with metadata or without; the slug must be free. *)
Create(provider, xml) ==
  /\ ~ live /\ id < MaxConnections
  /\ id' = id + 1 /\ live' = TRUE
  /\ connection' = [xml |-> IF xml THEN provider ELSE NoXml, entity |-> provider,
                    certificate |-> provider, enabled |-> TRUE]
  /\ off' = FALSE
  /\ UNCHANGED <<accounts, members, calls, raced, signIns, absent>>

PatchRead(k, body) ==
  /\ live
  /\ Take(k, [pc |-> "patch", id |-> id, row |-> Edited(connection, body), body |-> body])
  /\ UNCHANGED <<Table, members, off, raced, signIns, absent>>

(* A row deleted since is an error. *)
PatchWrite(k) ==
  /\ calls[k].pc = "patch" /\ live /\ calls[k].id = id
  /\ connection' = calls[k].row
  /\ off' = IF calls[k].body.field = "enabled"
            THEN ~ calls[k].body.value /\ \A j \in Calls \ {k} : calls[j].pc # "patch"
            ELSE off
  /\ Becomes(k, Idle)
  /\ UNCHANGED <<id, live, accounts, members, raced, signIns, absent>>

(* The accounts of the connection go with it. *)
Delete ==
  /\ live /\ live' = FALSE
  /\ accounts' = [n \in NameIds |-> Nobody]
  /\ signIns' = {} /\ raced' = {} /\ off' = FALSE
  /\ UNCHANGED <<id, connection, members, calls, absent>>

(* Who is in the organization: see Membership. *)
Join(user) ==
  /\ user \notin members
  /\ members' = members \cup {user} /\ absent' = absent \ {user}
  /\ UNCHANGED <<Table, calls, off, raced, signIns>>

Leave(user) ==
  /\ user \in members /\ members' = members \ {user}
  /\ UNCHANGED <<Table, calls, off, raced, signIns, absent>>

-----------------------------------------------------------------------------
(* POST /saml/:slug/acs *)

(* The connection is read and the assertion checked against it. *)
Receive(k, assertion) ==
  /\ live /\ connection.enabled /\ Valid(connection, assertion)
  /\ Take(k, [pc |-> "find", id |-> id, name |-> assertion.nameId, email |-> assertion.email])
  /\ UNCHANGED <<Table, members, off, raced, signIns, absent>>

Knows(k) == live /\ calls[k].id = id /\ accounts[calls[k].name] # Nobody

(* Mutant: the user is looked up by email every time. *)
FindByEmail(k) ==
  /\ calls[k].pc = "find"
  /\ Becomes(k, IF calls[k].email = Nobody THEN Idle
                ELSE [pc |-> "link", id |-> calls[k].id, name |-> calls[k].name,
                      user |-> calls[k].email])
  /\ UNCHANGED <<Table, members, off, raced, signIns, absent>>

(* findSamlAccount; a name not known yet is looked up by its email, and     *)
(* without one, or without a profile, the request is refused.               *)
Find(k) ==
  /\ calls[k].pc = "find"
  /\ LET call == calls[k]
         others == {j \in Calls \ {k} : /\ calls[j].pc = "link"
                                        /\ calls[j].id = call.id /\ calls[j].name = call.name}
     IN  IF Knows(k)
         THEN /\ Becomes(k, [pc |-> "member", id |-> call.id, name |-> call.name,
                             user |-> accounts[call.name]])
              /\ UNCHANGED raced
         ELSE IF call.email = Nobody THEN Becomes(k, Idle) /\ UNCHANGED raced
         ELSE /\ Becomes(k, [pc |-> "link", id |-> call.id, name |-> call.name,
                             user |-> call.email])
              /\ raced' = IF others # {} /\ call.id = id THEN raced \cup {call.name} ELSE raced
  /\ UNCHANGED <<Table, members, off, signIns, absent>>

(* linkSamlAccount, before the membership is looked at. *)
Link(k) ==
  /\ calls[k].pc = "link" /\ live /\ calls[k].id = id
  /\ accounts' = [accounts EXCEPT ![calls[k].name] = calls[k].user]
  /\ Becomes(k, [pc |-> "member", id |-> id, name |-> calls[k].name, user |-> calls[k].user])
  /\ UNCHANGED <<id, live, connection, members, off, raced, signIns, absent>>

CheckMember(k) ==
  /\ calls[k].pc = "member"
  /\ LET call == calls[k] IN
       Becomes(k, IF call.user \in members
                  THEN [pc |-> "audit", id |-> call.id, name |-> call.name, user |-> call.user]
                  ELSE Idle)
  /\ UNCHANGED <<Table, members, off, raced, signIns, absent>>

(* The SIGN_IN event and the answer. *)
SignIn(k) ==
  /\ calls[k].pc = "audit"
  /\ signIns' = IF live /\ calls[k].id = id THEN signIns \cup {<<calls[k].name, calls[k].user>>}
                ELSE signIns
  /\ Becomes(k, Idle)
  /\ UNCHANGED <<Table, members, off, raced, absent>>

Fail(k) ==
  /\ calls[k] # Idle /\ Becomes(k, Idle)
  /\ UNCHANGED <<Table, members, off, raced, signIns, absent>>

-----------------------------------------------------------------------------
Init ==
  /\ id = 0 /\ live = FALSE
  /\ connection \in [xml: {NoXml}, entity: {CHOOSE p \in Providers : TRUE},
                     certificate: {CHOOSE p \in Providers : TRUE}, enabled: {FALSE}]
  /\ accounts = [n \in NameIds |-> Nobody]
  /\ members = {} /\ calls = [k \in Calls |-> Idle]
  /\ off = FALSE /\ raced = {} /\ signIns = {} /\ absent = Users

AdminStep(k) ==
  \/ \E provider \in Providers, xml \in BOOLEAN : Create(provider, xml)
  \/ \E body \in Bodies : PatchRead(k, body)
  \/ PatchWrite(k) \/ Delete
  \/ \E user \in Users : Join(user) \/ Leave(user)

ConsumerStep(k) ==
  \/ \E assertion \in Assertions : Receive(k, assertion)
  \/ Find(k) \/ Link(k) \/ CheckMember(k) \/ SignIn(k)

Next == \E k \in Calls : AdminStep(k) \/ ConsumerStep(k) \/ Fail(k)

Spec == Init /\ [][Next]_vars

-----------------------------------------------------------------------------
(* What an administrator set is what the consumer service applies: the      *)
(* provider it validates with is the one the columns of the row show,       *)
(* whatever mix of metadata and explicit edits led there, and a connection  *)
(* disabled stays so until somebody enables it, unless a PATCH that had     *)
(* read it enabled was still in flight and wrote it back.                   *)
AppliedAsConfigured ==
  live =>
    /\ InForce(connection) = [entity |-> connection.entity, certificate |-> connection.certificate]
    /\ off => ~ connection.enabled

(* A name the provider asserts always signs the same user in, whatever      *)
(* email comes with it, unless two requests saw the name for the first time *)
(* together; and nobody signs in who never was in the organization,         *)
(* although the account is linked before that is asked.                     *)
OneUserPerName ==
  \A first, second \in signIns :
    /\ first[1] = second[1] /\ first[1] \notin raced => first[2] = second[2]
    /\ first[2] \notin absent
=============================================================================
